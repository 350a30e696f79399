---------------------- MODULE ResearchCandidates_proof ----------------------
(***************************************************************************)
(* Proofs about ResearchCandidates, for any number of candidates, keys,    *)
(* settings, tasks and requests: the types, that an accepted candidate was *)
(* observed, that the older table mirrors the newer one, that a status is  *)
(* explained by its lifecycle event, and that a status moves along the     *)
(* lifecycle's edges unless its writer had read another.                   *)
(***************************************************************************)
EXTENDS ResearchCandidates, TLAPS

JobRow == [op : Ops, id : Nat, cand : Candidates, from : Status \cup {"none"},
           next : Status \cup {"none"}, obs : ObservationType, config : RunnerConfig]
EventRow == [id : Nat, cand : Candidates, prev : Status \cup {"none"}, next : Status]
ReviewRow == [id : Nat, cand : Candidates, prev : Status, next : Status \cup {"none"}]

(***************************************************************************)
(* Rows.                                                                   *)
(***************************************************************************)

(* An observation of typed parts is one. *)
LEMMA ObservationTyped ==
    ASSUME NEW id \in Nat, NEW aligned \in BOOLEAN, NEW pass \in BOOLEAN,
           NEW ready \in BOOLEAN, NEW fresh \in BOOLEAN, NEW seen \in RunnerConfig
    PROVE  /\ Observation(id, aligned, pass, ready, fresh, seen) \in ObservationType
           /\ Observation(id, aligned, pass, ready, fresh, seen).id = id
  BY DEF Observation, ObservationType

(* A missing observation is one too. *)
LEMMA NoObservationTyped ==
    ASSUME NEW seen \in RunnerConfig
    PROVE  NoObservation(seen) \in ObservationType /\ NoObservation(seen).id = 0
  BY ObservationTyped DEF NoObservation

(* The locals of a request are typed when their parts are. *)
LEMMA JobTyped ==
    ASSUME NEW op \in Ops, NEW id \in Nat, NEW cand \in Candidates,
           NEW from \in Status \cup {"none"}, NEW next \in Status \cup {"none"},
           NEW obs \in ObservationType, NEW proposed \in RunnerConfig
    PROVE  LET j == Job(op, id, cand, from, next, obs, proposed)
           IN  /\ j \in JobRow
               /\ j.op = op /\ j.id = id /\ j.cand = cand /\ j.from = from
               /\ j.next = next /\ j.obs = obs /\ j.config = proposed
  BY DEF Job, JobRow

(* A task between requests has typed locals. *)
LEMMA IdleTyped ==
    ASSUME config \in RunnerConfig
    PROVE  Idle \in JobRow
<1>1. PICK s \in Settings : TRUE
  BY DEF RunnerConfig
<1>2. (CHOOSE x \in Settings : TRUE) \in Settings
  BY <1>1
<1> DEFINE none == [settings |-> CHOOSE x \in Settings : TRUE, keys |-> {}]
<1>3. none \in RunnerConfig
  BY <1>2 DEF RunnerConfig
<1>4. (CHOOSE c \in Candidates : TRUE) \in Candidates
  BY KeyOfAssumption
<1>5. NoObservation(none) \in ObservationType
  BY <1>3, NoObservationTyped
<1>6. Idle = Job("none", 0, CHOOSE c \in Candidates : TRUE, "none", "none",
                 NoObservation(none), none)
  BY DEF Idle, NoJob
<1> HIDE DEF none
<1>7. "none" \in Ops /\ 0 \in Nat
  BY DEF Ops
<1> QED
  BY <1>3, <1>4, <1>5, <1>6, <1>7, JobTyped

(* The locals of a task are typed, part by part. *)
LEMMA JobParts ==
    ASSUME TypeOK, NEW w \in Workers
    PROVE  /\ job[w] \in JobRow
           /\ job[w].op \in Ops /\ job[w].id \in Nat /\ job[w].cand \in Candidates
           /\ job[w].from \in Status \cup {"none"}
           /\ job[w].next \in Status \cup {"none"}
           /\ job[w].obs \in ObservationType /\ job[w].config \in RunnerConfig
           /\ job[w].obs.id \in Nat
<1>1. job[w] \in JobRow
  BY DEF TypeOK, JobRow
<1> QED
  BY <1>1 DEF JobRow, ObservationType

(* A task that replaces its next status, observation or configuration. *)
LEMMA CarriedTyped ==
    ASSUME TypeOK, NEW w \in Workers, NEW next \in Status \cup {"none"},
           NEW obs \in ObservationType, NEW proposed \in RunnerConfig
    PROVE  LET j == Job(job[w].op, job[w].id, job[w].cand, job[w].from, next,
                        obs, proposed)
           IN  /\ j \in JobRow /\ j.op = job[w].op /\ j.id = job[w].id
               /\ j.cand = job[w].cand /\ j.from = job[w].from
               /\ j.next = next /\ j.obs = obs
<1>1. /\ job[w].op \in Ops /\ job[w].id \in Nat /\ job[w].cand \in Candidates
      /\ job[w].from \in Status \cup {"none"}
  BY JobParts
<1> QED
  BY <1>1 DEF Job, JobRow

(* The older status of a status. *)
LEMMA LegacyTyped ==
    ASSUME NEW s \in Status
    PROVE  LegacyOf(s) \in LegacyStatus
  BY DEF LegacyOf, Status, Active, Closed, LegacyStatus

(* Replacing the locals of one task by a row keeps their type. *)
LEMMA SetJobTyped ==
    ASSUME TypeOK, NEW w \in Workers, NEW j \in JobRow, SetJob(w, j)
    PROVE  job' \in [Workers -> JobRow] /\ job'[w] = j
  BY DEF TypeOK, SetJob, JobRow

(* So does sending it to a label. *)
LEMMA GotoTyped ==
    ASSUME TypeOK, NEW w \in Workers, NEW label \in Labels, Goto(w, label)
    PROVE  pc' \in [Workers -> Labels] /\ pc'[w] = label
  BY DEF TypeOK, Goto

(* And the end of a request. *)
LEMMA DoneTyped ==
    ASSUME TypeOK, NEW w \in Workers, Done(w)
    PROVE  /\ pc' \in [Workers -> Labels] /\ pc'[w] = "idle"
           /\ job' \in [Workers -> JobRow]
<1>1. Idle \in JobRow
  BY IdleTyped DEF TypeOK
<1>2. "idle" \in Labels
  BY DEF Labels
<1> QED
  BY <1>1, <1>2, SetJobTyped, GotoTyped DEF Done

(* Writing a status of the lifecycle keeps the types of the rows. *)
LEMMA SetStatusTyped ==
    ASSUME TypeOK, NEW c \in Candidates, NEW next \in Status, NEW id \in Nat,
           SetStatus(c, next, id)
    PROVE  /\ status' \in [Candidates -> Status \cup {"none"}]
           /\ legacy' \in [Candidates -> LegacyStatus \cup {"none"}]
           /\ promotedAt' \in [Candidates -> BOOLEAN]
           /\ writer' \in [Candidates -> Nat]
<1>1. LegacyOf(next) \in LegacyStatus
  BY LegacyTyped
<1>2. status' \in [Candidates -> Status \cup {"none"}] /\ writer' \in [Candidates -> Nat]
  BY DEF TypeOK, SetStatus
<1>3. legacy' \in [Candidates -> LegacyStatus \cup {"none"}]
  BY <1>1 DEF TypeOK, SetStatus
<1>4. promotedAt' \in [Candidates -> BOOLEAN]
  BY DEF TypeOK, SetStatus
<1> QED
  BY <1>2, <1>3, <1>4

(***************************************************************************)
(* The lifecycle.                                                          *)
(***************************************************************************)

(* A decision is a move; an accept ends in ACCEPTED_FOR_SHADOW, a promotion *)
(* in PROMOTED_TO_SHADOW_CONFIG and begins at an accepted status, and no   *)
(* other decision ends in either.                                          *)
LEMMA DecisionMoves ==
    ASSUME NEW from \in Status, NEW d \in Decision, NEW next \in NextStatus(from, d)
    PROVE  /\ <<from, next>> \in Moves /\ next \in Status
           /\ next \in Accepted => d = "ACCEPT" \/ (d = "PROMOTE" /\ from \in Accepted)
  BY DEF NextStatus, Decision, Moves, Edges, Status, Active, Closed, Accepted

(* A review that writes a status makes a move, and accepts nothing. *)
LEMMA ReviewMoves ==
    ASSUME NEW from \in Status, NEW action \in ReviewAction,
           NEW next \in ReviewOutcome(from, action)
    PROVE  /\ next \in Status \cup {"none"} /\ next \notin Accepted
           /\ next # "none" => <<from, next>> \in Moves
  BY DEF ReviewOutcome, ReviewAction, Moves, Edges, Status, Active, Closed, Accepted

(* Moves are between statuses. *)
LEMMA MovesInStatus ==
    ASSUME NEW from, NEW next, <<from, next>> \in Moves
    PROVE  from \in Status /\ next \in Status
  BY DEF Moves, Edges, Status, Active, Closed

(* A move that changes the status follows an edge. *)
LEMMA MovesAreEdges ==
    ASSUME NEW from, NEW next, <<from, next>> \in Moves, from # next
    PROVE  <<from, next>> \in Edges
  BY DEF Moves

(* "none" is no status. *)
LEMMA NoneIsNoStatus == "none" \notin Status /\ "none" \notin Accepted
  BY DEF Status, Active, Closed, Accepted

(***************************************************************************)
(* Steps of a task that leave the tables alone.                            *)
(***************************************************************************)

(* What a task knows outlives the steps of the others: observations,       *)
(* versions and promotions are never taken back.                           *)
LEMMA OthersKnow ==
    ASSUME TypeOK, JobEvidence, NEW v \in Workers,
           pc'[v] = pc[v], job'[v] = job[v],
           \A c \in Candidates : observation[c].id > 0 => observation'[c].id > 0,
           versions \subseteq versions', promotions \subseteq promotions'
    PROVE  KnowsMove(pc[v], job[v])' /\ KnowsRow(pc[v], job[v])'
<1>1. job[v].cand \in Candidates
  BY JobParts
<1>2. KnowsMove(pc[v], job[v]) /\ KnowsRow(pc[v], job[v])
  BY DEF JobEvidence
<1>3. KnowsMove(pc[v], job[v])'
  BY <1>1, <1>2 DEF KnowsMove
<1>4. KnowsRow(pc[v], job[v])'
  BY <1>1, <1>2 DEF KnowsRow
<1> QED
  BY <1>3, <1>4

(* A step of a task that writes no table, after which the task knows what  *)
(* its label asks, and that does not forget to log, keeps the invariant.   *)
LEMMA BystanderInv ==
    ASSUME IInv, NEW w \in Workers, UNCHANGED <<tables, writer>>,
           NEW label \in Labels, Goto(w, label),
           NEW j \in JobRow, SetJob(w, j) \/ (UNCHANGED job /\ j = job[w]),
           KnowsMove(label, j), KnowsRow(label, j),
           unlogged \subseteq unlogged', unlogged' \subseteq Nat, begun' \in Nat,
           pc[w] = "append" => job[w].id \in unlogged'
    PROVE  IInv'
<1>1. TypeOK
  BY DEF IInv
<1>2. pc' \in [Workers -> Labels] /\ pc'[w] = label
  BY <1>1, GotoTyped
<1>3. job' \in [Workers -> JobRow] /\ job'[w] = j
  BY <1>1, SetJobTyped DEF TypeOK, JobRow
<1>4. TypeOK'
  BY <1>1, <1>2, <1>3 DEF TypeOK, JobRow, tables
<1>5. \A v \in Workers : v # w => pc'[v] = pc[v] /\ job'[v] = job[v]
  BY <1>1 DEF TypeOK, Goto, SetJob
<1>6. AcceptedWasObserved' /\ LegacyMirrors' /\ RowEvidence'
  BY DEF IInv, AcceptedWasObserved, LegacyMirrors, RowEvidence, tables
<1>7. EventExplainsStatus'
  <2> SUFFICES ASSUME NEW c \in Candidates, status[c] # "none"
               PROVE  \/ \E e \in events : e.id = writer[c] /\ e.cand = c
                                           /\ e.next = status[c]
                      \/ \E v \in Workers : /\ pc'[v] = "append" /\ job'[v].id = writer[c]
                                            /\ job'[v].cand = c /\ job'[v].next = status[c]
                      \/ writer[c] \in unlogged'
    BY DEF EventExplainsStatus, tables
  <2>1. CASE \E e \in events : e.id = writer[c] /\ e.cand = c /\ e.next = status[c]
    BY <2>1
  <2>2. CASE writer[c] \in unlogged
    BY <2>2
  <2>3. CASE \E v \in Workers : /\ pc[v] = "append" /\ job[v].id = writer[c]
                                /\ job[v].cand = c /\ job[v].next = status[c]
    <3>1. PICK v \in Workers : /\ pc[v] = "append" /\ job[v].id = writer[c]
                               /\ job[v].cand = c /\ job[v].next = status[c]
      BY <2>3
    <3>2. CASE v = w
      BY <3>1, <3>2
    <3>3. CASE v # w
      BY <3>1, <3>3, <1>5
    <3> QED
      BY <3>2, <3>3
  <2> QED
    BY <2>1, <2>2, <2>3 DEF IInv, EventExplainsStatus
<1>8. JobEvidence'
  <2> SUFFICES ASSUME NEW v \in Workers
               PROVE  KnowsMove(pc[v], job[v])' /\ KnowsRow(pc[v], job[v])'
    BY DEF JobEvidence
  <2>1. CASE v = w
    <3>1. KnowsMove(pc[w], job[w])'
      BY <1>2, <1>3 DEF KnowsMove, tables
    <3>2. KnowsRow(pc[w], job[w])'
      BY <1>2, <1>3 DEF KnowsRow, tables
    <3> QED
      BY <2>1, <3>1, <3>2
  <2>2. CASE v # w
    BY <2>2, <1>1, <1>5, OthersKnow DEF IInv, tables
  <2> QED
    BY <2>1, <2>2
<1> QED
  BY <1>4, <1>6, <1>7, <1>8 DEF IInv

(* At rest a task need not know anything. *)
LEMMA IdleKnows == ASSUME NEW j PROVE KnowsMove("idle", j) /\ KnowsRow("idle", j)
  BY DEF KnowsMove, KnowsRow

(* The end of a request, logged or noted as not logged, keeps it. *)
LEMMA GiveUpInv ==
    ASSUME IInv, NEW w \in Workers, GiveUp(w)
    PROVE  IInv'
<1>1. TypeOK /\ Idle \in JobRow /\ "idle" \in Labels
  BY IdleTyped DEF IInv, TypeOK, Labels
<1>2. Goto(w, "idle") /\ SetJob(w, Idle) /\ UNCHANGED <<tables, writer>> /\ begun' \in Nat
  BY <1>1 DEF GiveUp, Done, TypeOK
<1>3. /\ unlogged \subseteq unlogged' /\ unlogged' \subseteq Nat
      /\ pc[w] = "append" => job[w].id \in unlogged'
  BY <1>1, JobParts DEF GiveUp, TypeOK
<1> QED
  BY <1>1, <1>2, <1>3, IdleKnows, BystanderInv

(* A request on a candidate begins with typed locals. *)
LEMMA StartTyped ==
    ASSUME IInv, NEW w \in Workers, Start(w), NEW c \in Candidates, NEW op \in Ops,
           NEW from \in Status \cup {"none"}, NEW next \in Status \cup {"none"}
    PROVE  LET j == Job(op, begun + 1, c, from, next, NoObservation(config), config)
           IN  /\ j \in JobRow
               /\ j.op = op /\ j.id > 0 /\ j.cand = c /\ j.from = from /\ j.next = next
               /\ begun' \in Nat /\ pc[w] # "append"
<1>1. begun \in Nat /\ config \in RunnerConfig
  BY DEF IInv, TypeOK
<1>2. begun + 1 \in Nat /\ begun + 1 > 0 /\ begun' \in Nat /\ pc[w] # "append"
  BY <1>1 DEF Start
<1>3. NoObservation(config) \in ObservationType
  BY <1>1, NoObservationTyped
<1> DEFINE j == Job(op, begun + 1, c, from, next, NoObservation(config), config)
<1>4. /\ j \in JobRow /\ j.op = op /\ j.id = begun + 1 /\ j.cand = c
      /\ j.from = from /\ j.next = next
  BY <1>1, <1>2, <1>3, JobTyped
<1> HIDE DEF j
<1>5. j.id > 0
  BY <1>2, <1>4
<1> QED
  BY <1>2, <1>4, <1>5 DEF j

(* A decision is read to be made. *)
LEMMA DecideInv ==
    ASSUME IInv, NEW w \in Workers, Decide(w)
    PROVE  IInv'
<1>1. PICK c \in Candidates, d \in Decision :
        /\ status[c] # "none"
        /\ \E next \in NextStatus(status[c], d) :
              SetJob(w, Job(d, begun + 1, c, status[c], next,
                            NoObservation(config), config))
        /\ Goto(w, IF d = "ACCEPT" THEN "observation" ELSE "write")
  BY DEF Decide
<1>2. PICK next \in NextStatus(status[c], d) :
        SetJob(w, Job(d, begun + 1, c, status[c], next, NoObservation(config), config))
  BY <1>1
<1> DEFINE j == Job(d, begun + 1, c, status[c], next, NoObservation(config), config)
           label == IF d = "ACCEPT" THEN "observation" ELSE "write"
<1>3. status[c] \in Status
  BY <1>1 DEF IInv, TypeOK
<1>4. /\ <<status[c], next>> \in Moves /\ next \in Status
      /\ next \in Accepted => d = "ACCEPT" \/ (d = "PROMOTE" /\ status[c] \in Accepted)
  BY <1>3, DecisionMoves
<1>5. d \in Ops /\ label \in Labels
  BY DEF Ops, Labels
<1>6. Start(w) /\ UNCHANGED <<tables, writer, unlogged>>
  BY DEF Decide
<1>7. /\ j \in JobRow
      /\ j.op = d /\ j.id > 0 /\ j.cand = c /\ j.from = status[c] /\ j.next = next
      /\ begun' \in Nat /\ pc[w] # "append"
  BY <1>3, <1>4, <1>5, <1>6, StartTyped
<1>8. d # "ACCEPT" /\ next \in Accepted => observation[c].id > 0
  BY <1>4 DEF IInv, AcceptedWasObserved, Accepted
<1> HIDE DEF j
<1>9. KnowsMove(label, j) /\ KnowsRow(label, j)
  BY <1>4, <1>7, <1>8 DEF KnowsMove, KnowsRow
<1>10. Goto(w, label) /\ SetJob(w, j)
  BY <1>1, <1>2 DEF j
<1>11. unlogged' \subseteq Nat
  BY <1>6 DEF IInv, TypeOK
<1> HIDE DEF label
<1> QED
  BY <1>5, <1>6, <1>7, <1>9, <1>10, <1>11, BystanderInv

(* The other requests begin likewise. *)
LEMMA BeginInv ==
    ASSUME IInv, NEW w \in Workers,
           \/ AcceptApply(w) \/ ShadowPromote(w) \/ Review(w) \/ Observe(w)
           \/ LegacyPromote(w)
    PROVE  IInv'
<1>1. Start(w) /\ UNCHANGED <<tables, writer, unlogged>> /\ unlogged' \subseteq Nat
  BY DEF AcceptApply, ShadowPromote, Review, Observe, LegacyPromote, IInv, TypeOK
<1>2. {"preview", "review", "align", "version"} \subseteq Labels
  BY DEF Labels
<1>3. {"ACCEPT_APPLY", "SHADOW_PROMOTE", "REVIEW", "OBSERVE", "EVALUATE",
       "LEGACY_PROMOTE"} \subseteq Ops
  BY DEF Ops
<1>4. \A c \in Candidates : status[c] # "none" => status[c] \in Status
  BY DEF IInv, TypeOK
<1>5. CASE AcceptApply(w)
  <2>1. PICK c \in Candidates : /\ status[c] # "none"
           /\ \E next \in NextStatus(status[c], "ACCEPT") :
                 SetJob(w, Job("ACCEPT_APPLY", begun + 1, c, status[c], next,
                               NoObservation(config), config))
    BY <1>5 DEF AcceptApply
  <2>2. PICK next \in NextStatus(status[c], "ACCEPT") :
           SetJob(w, Job("ACCEPT_APPLY", begun + 1, c, status[c], next,
                         NoObservation(config), config))
    BY <2>1
  <2> DEFINE j == Job("ACCEPT_APPLY", begun + 1, c, status[c], next,
                      NoObservation(config), config)
  <2>3. "ACCEPT" \in Decision
    BY DEF Decision
  <2>4. <<status[c], next>> \in Moves /\ status[c] \in Status /\ next \in Status
    BY <1>4, <2>1, <2>3, DecisionMoves
  <2>5. /\ j \in JobRow /\ j.op = "ACCEPT_APPLY" /\ j.from = status[c] /\ j.next = next
        /\ begun' \in Nat /\ pc[w] # "append"
    BY <1>1, <1>3, <2>4, StartTyped
  <2>6. Goto(w, "preview") /\ SetJob(w, j)
    BY <1>5, <2>2 DEF AcceptApply
  <2> HIDE DEF j
  <2>7. KnowsMove("preview", j) /\ KnowsRow("preview", j)
    BY <2>4, <2>5 DEF KnowsMove, KnowsRow
  <2> QED
    BY <1>1, <1>2, <2>5, <2>6, <2>7, BystanderInv
<1>6. CASE ShadowPromote(w)
  <2>1. PICK c \in Candidates : /\ status[c] # "none"
           /\ SetJob(w, Job("SHADOW_PROMOTE", begun + 1, c, status[c], "none",
                            NoObservation(config), config))
    BY <1>6 DEF ShadowPromote
  <2> DEFINE j == Job("SHADOW_PROMOTE", begun + 1, c, status[c], "none",
                      NoObservation(config), config)
  <2>2. /\ j \in JobRow /\ j.op = "SHADOW_PROMOTE" /\ j.from \in Status
        /\ begun' \in Nat /\ pc[w] # "append"
    BY <1>1, <1>3, <1>4, <2>1, StartTyped
  <2>3. Goto(w, "preview") /\ SetJob(w, j)
    BY <1>6, <2>1 DEF ShadowPromote
  <2> HIDE DEF j
  <2>4. KnowsMove("preview", j) /\ KnowsRow("preview", j)
    BY <2>2 DEF KnowsMove, KnowsRow
  <2> QED
    BY <1>1, <1>2, <2>2, <2>3, <2>4, BystanderInv
<1>7. CASE Review(w)
  <2>1. PICK c \in Candidates, action \in ReviewAction : /\ status[c] # "none"
           /\ \E next \in ReviewOutcome(status[c], action) :
                 SetJob(w, Job("REVIEW", begun + 1, c, status[c], next,
                               NoObservation(config), config))
    BY <1>7 DEF Review
  <2>2. PICK next \in ReviewOutcome(status[c], action) :
           SetJob(w, Job("REVIEW", begun + 1, c, status[c], next,
                         NoObservation(config), config))
    BY <2>1
  <2> DEFINE j == Job("REVIEW", begun + 1, c, status[c], next,
                      NoObservation(config), config)
  <2>3. /\ status[c] \in Status /\ next \in Status \cup {"none"} /\ next \notin Accepted
        /\ next # "none" => <<status[c], next>> \in Moves
    BY <1>4, <2>1, ReviewMoves
  <2>4. /\ j \in JobRow /\ j.from = status[c] /\ j.next = next
        /\ begun' \in Nat /\ pc[w] # "append"
    BY <1>1, <1>3, <2>3, StartTyped
  <2>5. Goto(w, "review") /\ SetJob(w, j)
    BY <1>7, <2>2 DEF Review
  <2> HIDE DEF j
  <2>6. KnowsMove("review", j) /\ KnowsRow("review", j)
    BY <2>3, <2>4 DEF KnowsMove, KnowsRow
  <2> QED
    BY <1>1, <1>2, <2>4, <2>5, <2>6, BystanderInv
<1>8. CASE Observe(w)
  <2>1. PICK c \in Candidates, op \in {"OBSERVE", "EVALUATE"} : /\ status[c] # "none"
           /\ SetJob(w, Job(op, begun + 1, c, status[c], "OBSERVING",
                            NoObservation(config), config))
    BY <1>8 DEF Observe
  <2> DEFINE j == Job(op, begun + 1, c, status[c], "OBSERVING",
                      NoObservation(config), config)
  <2>2. op \in Ops /\ "OBSERVING" \in Status
    BY <1>3 DEF Status, Active
  <2>3. /\ j \in JobRow /\ j.from \in Status /\ j.next = "OBSERVING" /\ j.id > 0
        /\ begun' \in Nat /\ pc[w] # "append"
    BY <1>1, <1>4, <2>1, <2>2, StartTyped
  <2>4. Goto(w, "align") /\ SetJob(w, j)
    BY <1>8, <2>1 DEF Observe
  <2> HIDE DEF j
  <2>5. KnowsMove("align", j) /\ KnowsRow("align", j)
    BY <2>3 DEF KnowsMove, KnowsRow
  <2> QED
    BY <1>1, <1>2, <2>3, <2>4, <2>5, BystanderInv
<1>9. CASE LegacyPromote(w)
  <2>1. PICK c \in Candidates :
           SetJob(w, Job("LEGACY_PROMOTE", begun + 1, c, "none", "none",
                         NoObservation(config), config))
    BY <1>9 DEF LegacyPromote
  <2> DEFINE j == Job("LEGACY_PROMOTE", begun + 1, c, "none", "none",
                      NoObservation(config), config)
  <2>2. j \in JobRow /\ begun' \in Nat /\ pc[w] # "append"
    BY <1>1, <1>3, StartTyped
  <2>3. Goto(w, "version") /\ SetJob(w, j)
    BY <1>9, <2>1 DEF LegacyPromote
  <2> HIDE DEF j
  <2>4. KnowsMove("version", j) /\ KnowsRow("version", j)
    BY DEF KnowsMove, KnowsRow
  <2> QED
    BY <1>1, <1>2, <2>2, <2>3, <2>4, BystanderInv
<1> QED
  BY <1>5, <1>6, <1>7, <1>8, <1>9

(* The checks of an accept: each keeps what the request read. *)
LEMMA AcceptChecksInv ==
    ASSUME IInv, NEW w \in Workers,
           \/ ReadObservation(w) \/ CompareRunner(w) \/ PreviewAccept(w) \/ SkipStatus(w)
    PROVE  IInv'
<1>1. TypeOK /\ KnowsMove(pc[w], job[w])
  BY DEF IInv, JobEvidence
<1>2. /\ UNCHANGED <<tables, writer, unlogged, begun>> /\ pc[w] # "append"
      /\ unlogged' \subseteq Nat /\ begun' \in Nat
  BY <1>1 DEF ReadObservation, CompareRunner, PreviewAccept, SkipStatus, TypeOK
<1>3. {"runner", "write", "append"} \subseteq Labels
  BY DEF Labels
<1>4. CASE ReadObservation(w)
  <2> DEFINE o == observation[job[w].cand]
             j == Job(job[w].op, job[w].id, job[w].cand, job[w].from, job[w].next,
                      o, job[w].config)
  <2>1. o \in ObservationType
    BY <1>1, JobParts DEF TypeOK
  <2>2. o.id > 0 /\ pc[w] = "observation" /\ Goto(w, "runner") /\ SetJob(w, j)
    BY <1>4 DEF ReadObservation
  <2> HIDE DEF o
  <2>3. /\ j \in JobRow /\ j.cand = job[w].cand
        /\ j.from = job[w].from /\ j.next = job[w].next
    BY <1>1, <2>1, JobParts, CarriedTyped
  <2> HIDE DEF j
  <2>4. KnowsMove("runner", j) /\ KnowsRow("runner", j)
    BY <1>1, <2>2, <2>3 DEF KnowsMove, KnowsRow, o
  <2> QED
    BY <1>2, <1>3, <2>2, <2>3, <2>4, BystanderInv
<1>5. CASE CompareRunner(w)
  <2>1. pc[w] = "runner" /\ Goto(w, "write") /\ UNCHANGED job
    BY <1>5 DEF CompareRunner
  <2>2. KnowsMove("write", job[w]) /\ KnowsRow("write", job[w])
    BY <1>1, <2>1 DEF KnowsMove, KnowsRow
  <2>3. job[w] \in JobRow
    BY <1>1, JobParts
  <2> QED
    BY <1>2, <1>3, <2>1, <2>2, <2>3, BystanderInv
<1>6. CASE PreviewAccept(w)
  <2>1. /\ pc[w] = "preview" /\ job[w].op = "ACCEPT_APPLY"
        /\ observation[job[w].cand].id > 0
        /\ Goto(w, "write") /\ UNCHANGED job
    BY <1>6 DEF PreviewAccept, Acceptable
  <2>2. KnowsMove("write", job[w]) /\ KnowsRow("write", job[w])
    BY <1>1, <2>1 DEF KnowsMove, KnowsRow
  <2>3. job[w] \in JobRow
    BY <1>1, JobParts
  <2> QED
    BY <1>2, <1>3, <2>1, <2>2, <2>3, BystanderInv
<1>7. CASE SkipStatus(w)
  <2>1. pc[w] = "write" /\ Goto(w, "append") /\ UNCHANGED job
    BY <1>7 DEF SkipStatus
  <2>2. job[w].from \in Status /\ job[w].next \in Status
    BY <1>1, <2>1, MovesInStatus DEF KnowsMove
  <2>3. KnowsMove("append", job[w]) /\ KnowsRow("append", job[w])
    BY <2>2 DEF KnowsMove, KnowsRow
  <2>4. job[w] \in JobRow
    BY <1>1, JobParts
  <2> QED
    BY <1>2, <1>3, <2>1, <2>3, <2>4, BystanderInv
<1> QED
  BY <1>4, <1>5, <1>6, <1>7

(* The two reads of a shadow promotion's preview. *)
LEMMA PreviewInv ==
    ASSUME IInv, NEW w \in Workers, PreviewRunner(w) \/ PreviewObservation(w)
    PROVE  IInv'
<1>1. TypeOK /\ KnowsMove(pc[w], job[w])
  BY DEF IInv, JobEvidence
<1>2. /\ UNCHANGED <<tables, writer, unlogged, begun>> /\ pc[w] # "append"
      /\ unlogged' \subseteq Nat /\ begun' \in Nat
  BY <1>1 DEF PreviewRunner, PreviewObservation, TypeOK
<1>3. {"observation", "persist", "write", "idle"} \subseteq Labels
  BY DEF Labels
<1>4. CASE PreviewRunner(w)
  <2>1. PICK next \in NextStatus(job[w].from, "PROMOTE") :
           SetJob(w, Job(job[w].op, job[w].id, job[w].cand, job[w].from, next,
                         job[w].obs, config))
    BY <1>4 DEF PreviewRunner
  <2>2. pc[w] = "preview" /\ Goto(w, "observation")
    BY <1>4 DEF PreviewRunner
  <2> DEFINE j == Job(job[w].op, job[w].id, job[w].cand, job[w].from, next,
                      job[w].obs, config)
  <2>3. job[w].from \in Status /\ "PROMOTE" \in Decision
    BY <1>1, <2>2 DEF KnowsMove, Decision
  <2>4. <<job[w].from, next>> \in Moves /\ next \in Status
    BY <2>3, DecisionMoves
  <2>5. j \in JobRow /\ j.from = job[w].from /\ j.next = next
    BY <1>1, <2>4, JobParts, CarriedTyped DEF TypeOK
  <2> HIDE DEF j
  <2>6. KnowsMove("observation", j) /\ KnowsRow("observation", j)
    BY <2>4, <2>5 DEF KnowsMove, KnowsRow
  <2>7. SetJob(w, j)
    BY <2>1 DEF j
  <2> QED
    BY <1>2, <1>3, <2>2, <2>5, <2>6, <2>7, BystanderInv
<1>5. CASE PreviewObservation(w)
  <2> DEFINE o == observation[job[w].cand]
             proposed == IF o.aligned THEN job[w].config
                         ELSE [settings |-> job[w].config.settings,
                               keys |-> {KeyOf[job[w].cand]}]
             j == Job(job[w].op, job[w].id, job[w].cand, job[w].from, job[w].next,
                      o, proposed)
             label == IF proposed # job[w].config THEN "persist"
                      ELSE IF job[w].next # job[w].from THEN "write" ELSE "idle"
  <2>1. o \in ObservationType
    BY <1>1, JobParts DEF TypeOK
  <2>2. KeyOf[job[w].cand] \in Keys
    BY <1>1, JobParts, KeyOfAssumption
  <2>3. proposed \in RunnerConfig
    BY <1>1, <2>2, JobParts DEF RunnerConfig
  <2>4. o.id > 0 /\ pc[w] = "observation" /\ Goto(w, label) /\ SetJob(w, j)
    BY <1>5 DEF PreviewObservation
  <2>5. label \in {"persist", "write", "idle"}
    OBVIOUS
  <2> HIDE DEF o, proposed
  <2>6. /\ j \in JobRow /\ j.cand = job[w].cand
        /\ j.from = job[w].from /\ j.next = job[w].next
    BY <1>1, <2>1, <2>3, JobParts, CarriedTyped
  <2> HIDE DEF j, label
  <2>7. KnowsMove(label, j) /\ KnowsRow(label, j)
    BY <1>1, <2>4, <2>5, <2>6 DEF KnowsMove, KnowsRow, o
  <2> QED
    BY <1>2, <1>3, <2>4, <2>5, <2>6, <2>7, BystanderInv
<1> QED
  BY <1>4, <1>5

(* The runner read by an observation, whose id is that of its request. *)
LEMMA AlignInv ==
    ASSUME IInv, NEW w \in Workers, Align(w)
    PROVE  IInv'
<1>1. TypeOK /\ KnowsRow(pc[w], job[w])
  BY DEF IInv, JobEvidence
<1> DEFINE aligned == KeyOf[job[w].cand] \in config.keys
<1>2. PICK pass \in BOOLEAN, ready \in BOOLEAN :
         SetJob(w, Job(job[w].op, job[w].id, job[w].cand, job[w].from, job[w].next,
                       Observation(job[w].id, aligned, pass, ready, TRUE, config),
                       job[w].config))
  BY DEF Align
<1>3. /\ pc[w] = "align" /\ Goto(w, "insert")
      /\ UNCHANGED <<tables, writer, unlogged, begun>>
  BY DEF Align
<1> DEFINE o == Observation(job[w].id, aligned, pass, ready, TRUE, config)
           j == Job(job[w].op, job[w].id, job[w].cand, job[w].from, job[w].next,
                    o, job[w].config)
<1>4. aligned \in BOOLEAN /\ config \in RunnerConfig /\ job[w].id \in Nat
  BY <1>1, JobParts DEF TypeOK
<1> HIDE DEF aligned
<1>5. o \in ObservationType /\ o.id = job[w].id
  BY <1>4 DEF Observation, ObservationType
<1> HIDE DEF o
<1>6. job[w].next \in Status \cup {"none"} /\ job[w].config \in RunnerConfig
  BY <1>1, JobParts
<1>7. /\ j \in JobRow /\ j.id = job[w].id /\ j.obs = o
      /\ j.from = job[w].from /\ j.next = job[w].next
  BY <1>1, <1>5, <1>6, CarriedTyped
<1>8. SetJob(w, j)
  BY <1>2 DEF o
<1> HIDE DEF j
<1>9. KnowsMove("insert", j) /\ KnowsRow("insert", j)
  BY <1>1, <1>3, <1>5, <1>7 DEF KnowsMove, KnowsRow
<1>10. unlogged' \subseteq Nat /\ begun' \in Nat /\ "insert" \in Labels
  BY <1>1, <1>3 DEF TypeOK, Labels
<1> QED
  BY <1>3, <1>7, <1>8, <1>9, <1>10, BystanderInv

(***************************************************************************)
(* Steps that write the tables.                                            *)
(***************************************************************************)

\* The status of a candidate has its event, or will have it, or never will.
Explained(c) ==
    \/ \E e \in events : e.id = writer[c] /\ e.cand = c /\ e.next = status[c]
    \/ \E w \in Workers : /\ pc[w] = "append" /\ job[w].id = writer[c]
                          /\ job[w].cand = c /\ job[w].next = status[c]
    \/ writer[c] \in unlogged

(* A status that is not written stays explained, as long as no event is    *)
(* deleted and every task about to append goes on to.                      *)
LEMMA ExplainedKept ==
    ASSUME NEW c \in Candidates, Explained(c),
           status'[c] = status[c], writer'[c] = writer[c],
           events \subseteq events', unlogged \subseteq unlogged',
           \A v \in Workers : pc[v] = "append" =>
               \/ pc'[v] = "append" /\ job'[v] = job[v]
               \/ \E e \in events' : /\ e.id = job[v].id /\ e.cand = job[v].cand
                                     /\ e.next = job[v].next
    PROVE  Explained(c)'
<1>1. CASE \E e \in events : e.id = writer[c] /\ e.cand = c /\ e.next = status[c]
  BY <1>1 DEF Explained
<1>2. CASE writer[c] \in unlogged
  BY <1>2 DEF Explained
<1>3. ASSUME NEW v \in Workers, pc[v] = "append", job[v].id = writer[c],
             job[v].cand = c, job[v].next = status[c]
      PROVE  Explained(c)'
  <2>1. CASE pc'[v] = "append" /\ job'[v] = job[v]
    BY <1>3, <2>1 DEF Explained
  <2>2. CASE \E e \in events' : /\ e.id = job[v].id /\ e.cand = job[v].cand
                                /\ e.next = job[v].next
    BY <1>3, <2>2 DEF Explained
  <2> QED
    BY <1>3, <2>1, <2>2
<1> QED
  BY <1>1, <1>2, <1>3 DEF Explained

(* What every task knows survives a step of one of them. *)
LEMMA EvidenceKept ==
    ASSUME TypeOK, JobEvidence, NEW w \in Workers,
           \A v \in Workers : v # w => pc'[v] = pc[v] /\ job'[v] = job[v],
           \A c \in Candidates : observation[c].id > 0 => observation'[c].id > 0,
           versions \subseteq versions', promotions \subseteq promotions',
           KnowsMove(pc[w], job[w])', KnowsRow(pc[w], job[w])'
    PROVE  JobEvidence'
<1> SUFFICES ASSUME NEW v \in Workers
             PROVE  KnowsMove(pc[v], job[v])' /\ KnowsRow(pc[v], job[v])'
  BY DEF JobEvidence
<1>1. CASE v = w
  BY <1>1
<1>2. CASE v # w
  BY <1>2, OthersKnow
<1> QED
  BY <1>1, <1>2

(* Creating a candidate, in one table or in both, keeps the invariant: an  *)
(* absent row has neither a status nor an older one.                       *)
LEMMA CreateInv ==
    ASSUME IInv, NEW c \in Candidates, Create(c) \/ Register(c)
    PROVE  IInv'
<1>1. TypeOK /\ status[c] = "none" /\ legacy[c] = "none" /\ begun \in Nat
  BY DEF IInv, RowEvidence, Create, Register, TypeOK
<1>2. UNCHANGED <<promotedAt, promotions, versions, observation, config, reviews,
                  pc, job, unlogged>>
  BY DEF Create, Register
<1>3. JobEvidence'
  BY <1>1, <1>2, OthersKnow DEF IInv, JobEvidence
<1>4. CASE Create(c)
  <2>1. "DISCOVERED" \in Status /\ "DISCOVERED" \notin Accepted
        /\ LegacyOf("DISCOVERED") = "REGISTERED" /\ "REGISTERED" \in LegacyStatus
    BY DEF Status, Active, Closed, Accepted, LegacyOf, LegacyStatus
  <2>2. /\ status' = [status EXCEPT ![c] = "DISCOVERED"]
        /\ legacy' = [legacy EXCEPT ![c] = "REGISTERED"]
        /\ writer' = [writer EXCEPT ![c] = begun + 1] /\ begun' = begun + 1
        /\ events' = events \cup {[id |-> begun + 1, cand |-> c, prev |-> "none",
                                   next |-> "DISCOVERED"]}
    BY <1>4, <2>1 DEF Create
  <2>3. events' \subseteq EventRow
    BY <1>1, <2>1, <2>2 DEF TypeOK, EventRow
  <2>4. /\ status' \in [Candidates -> Status \cup {"none"}]
        /\ legacy' \in [Candidates -> LegacyStatus \cup {"none"}]
        /\ writer' \in [Candidates -> Nat] /\ begun' \in Nat
    BY <1>1, <2>1, <2>2 DEF TypeOK
  <2>5. TypeOK'
    BY <1>1, <1>2, <2>3, <2>4 DEF TypeOK, EventRow
  <2>6. \A d \in Candidates : d # c => /\ status'[d] = status[d] /\ legacy'[d] = legacy[d]
                                       /\ writer'[d] = writer[d]
    BY <1>1, <2>2 DEF TypeOK
  <2>7. status'[c] = "DISCOVERED" /\ legacy'[c] = "REGISTERED" /\ writer'[c] = begun + 1
    BY <1>1, <2>2 DEF TypeOK
  <2>8. AcceptedWasObserved'
    BY <1>2, <2>6, <2>7 DEF IInv, AcceptedWasObserved
  <2>9. LegacyMirrors'
    <3>1. \A d \in Candidates :
             /\ status'[d] # "none" /\ legacy'[d] # LegacyOf(status'[d])
                   => legacy'[d] = "PROMOTED" /\ \E p \in promotions : p.cand = d
             /\ legacy'[d] = "PROMOTED" => promotedAt[d]
      BY <2>1, <2>6, <2>7 DEF IInv, LegacyMirrors
    <3> QED
      BY <1>2, <3>1 DEF IInv, LegacyMirrors
  <2>10. EventExplainsStatus'
    <3> SUFFICES ASSUME NEW d \in Candidates, status'[d] # "none"
                 PROVE  Explained(d)'
      BY DEF EventExplainsStatus, Explained
    <3>1. CASE d = c
      <4> DEFINE e == [id |-> begun + 1, cand |-> c, prev |-> "none", next |-> "DISCOVERED"]
      <4>1. e \in events'
        BY <2>2
      <4>2. e.id = begun + 1 /\ e.cand = c /\ e.next = "DISCOVERED"
        OBVIOUS
      <4> HIDE DEF e
      <4> QED
        BY <2>7, <3>1, <4>1, <4>2 DEF Explained
    <3>2. CASE d # c
      <4>1. Explained(d)
        BY <2>6, <3>2 DEF IInv, EventExplainsStatus, Explained
      <4> QED
        BY <1>2, <2>2, <2>6, <3>2, <4>1, ExplainedKept
    <3> QED
      BY <3>1, <3>2
  <2>11. RowEvidence'
    BY <2>6, <2>7 DEF IInv, RowEvidence
  <2> QED
    BY <1>3, <2>5, <2>8, <2>9, <2>10, <2>11 DEF IInv
<1>5. CASE Register(c)
  <2>1. /\ legacy' = [legacy EXCEPT ![c] = "REGISTERED"] /\ begun' = begun + 1
        /\ UNCHANGED <<status, writer, events>>
    BY <1>5 DEF Register
  <2>2. legacy' \in [Candidates -> LegacyStatus \cup {"none"}]
    BY <1>1, <2>1 DEF TypeOK, LegacyStatus
  <2>3. TypeOK'
    BY <1>1, <1>2, <2>1, <2>2 DEF TypeOK
  <2>4. AcceptedWasObserved' /\ EventExplainsStatus'
    BY <1>2, <2>1 DEF IInv, AcceptedWasObserved, EventExplainsStatus
  <2>5. /\ legacy'[c] = "REGISTERED"
        /\ \A d \in Candidates : d # c => legacy'[d] = legacy[d]
    BY <1>1, <2>1 DEF TypeOK
  <2>6. LegacyMirrors' /\ RowEvidence'
    BY <1>1, <1>2, <2>1, <2>5 DEF IInv, LegacyMirrors, RowEvidence
  <2> QED
    BY <1>3, <2>3, <2>4, <2>6 DEF IInv
<1> QED
  BY <1>4, <1>5

(* The age of an observation and the runner's configuration matter to no   *)
(* part of it.                                                             *)
LEMMA ExpireInv ==
    ASSUME IInv, NEW c \in Candidates, Expire(c)
    PROVE  IInv'
<1> DEFINE o == observation[c]
           old == Observation(o.id, o.aligned, o.pass, o.ready, FALSE, o.config)
<1>1. TypeOK /\ o \in ObservationType
  BY DEF IInv, TypeOK
<1>2. /\ observation' = [observation EXCEPT ![c] = old]
      /\ UNCHANGED <<status, legacy, promotedAt, promotions, versions, config,
                     events, reviews, pc, job, writer, unlogged, begun>>
  BY DEF Expire
<1>3. old \in ObservationType /\ old.id = o.id
  BY <1>1 DEF Observation, ObservationType
<1> HIDE DEF old
<1>4. \A d \in Candidates : observation'[d].id = observation[d].id
  BY <1>1, <1>2, <1>3 DEF TypeOK
<1>5. observation' \in [Candidates -> ObservationType]
  BY <1>1, <1>2, <1>3 DEF TypeOK
<1>6. TypeOK'
  BY <1>1, <1>2, <1>5 DEF TypeOK
<1>7. AcceptedWasObserved' /\ LegacyMirrors' /\ EventExplainsStatus' /\ RowEvidence'
  BY <1>2, <1>4 DEF IInv, AcceptedWasObserved, LegacyMirrors, EventExplainsStatus,
                    RowEvidence
<1>8. JobEvidence'
  BY <1>1, <1>2, <1>4, OthersKnow DEF IInv, JobEvidence
<1> QED
  BY <1>6, <1>7, <1>8 DEF IInv

(* Neither does a saved configuration. *)
LEMMA SaveConfigInv ==
    ASSUME IInv, SaveConfig
    PROVE  IInv'
<1>1. TypeOK
  BY DEF IInv
<1>2. /\ config' \in RunnerConfig
      /\ UNCHANGED <<status, legacy, promotedAt, promotions, versions, observation,
                     events, reviews, pc, job, writer, unlogged, begun>>
  BY DEF SaveConfig
<1>3. TypeOK'
  BY <1>1, <1>2 DEF TypeOK
<1>4. AcceptedWasObserved' /\ LegacyMirrors' /\ EventExplainsStatus' /\ RowEvidence'
  BY <1>2 DEF IInv, AcceptedWasObserved, LegacyMirrors, EventExplainsStatus, RowEvidence
<1>5. JobEvidence'
  BY <1>1, <1>2, OthersKnow DEF IInv, JobEvidence
<1> QED
  BY <1>3, <1>4, <1>5 DEF IInv

(* The row of an event. *)
LEMMA EventParts ==
    ASSUME NEW j
    PROVE  /\ Event(j).id = j.id /\ Event(j).cand = j.cand
           /\ Event(j).prev = j.from /\ Event(j).next = j.next
  BY DEF Event

(* It is typed when the request knows both statuses. *)
LEMMA EventTyped ==
    ASSUME TypeOK, NEW w \in Workers, job[w].from \in Status, job[w].next \in Status
    PROVE  Event(job[w]) \in EventRow
<1>1. job[w].id \in Nat /\ job[w].cand \in Candidates
  BY JobParts
<1> QED
  BY <1>1 DEF Event, EventRow

(* Writing a status of the lifecycle, both rows at once, keeps the tables  *)
(* in step.                                                                *)
LEMMA StatusWritten ==
    ASSUME IInv, NEW c \in Candidates, NEW next \in Status, NEW id \in Nat,
           SetStatus(c, next, id), UNCHANGED <<promotions, versions, observation>>,
           next \in Accepted => observation[c].id > 0
    PROVE  /\ AcceptedWasObserved' /\ LegacyMirrors' /\ RowEvidence'
           /\ status'[c] = next /\ writer'[c] = id
           /\ \A d \in Candidates : d # c => /\ status'[d] = status[d]
                                             /\ writer'[d] = writer[d]
<1>1. TypeOK /\ LegacyOf(next) \in LegacyStatus /\ LegacyOf(next) # "none"
  BY LegacyTyped DEF IInv, LegacyStatus
<1>2. /\ status'[c] = next /\ legacy'[c] = LegacyOf(next) /\ writer'[c] = id
      /\ promotedAt'[c] = (promotedAt[c] \/ LegacyOf(next) = "PROMOTED")
  BY <1>1 DEF TypeOK, SetStatus
<1>3. \A d \in Candidates : d # c =>
         /\ status'[d] = status[d] /\ legacy'[d] = legacy[d]
         /\ writer'[d] = writer[d] /\ promotedAt'[d] = promotedAt[d]
  BY <1>1 DEF TypeOK, SetStatus
<1>4. AcceptedWasObserved'
  BY <1>2, <1>3 DEF IInv, AcceptedWasObserved, Accepted
<1>5. RowEvidence'
  BY <1>1, <1>2, <1>3 DEF IInv, RowEvidence
<1>6. ASSUME NEW d \in Candidates
      PROVE  /\ status'[d] # "none" /\ legacy'[d] # LegacyOf(status'[d])
                   => legacy'[d] = "PROMOTED" /\ \E p \in promotions : p.cand = d
             /\ legacy'[d] = "PROMOTED" => promotedAt'[d]
  <2>1. CASE d = c
    BY <1>2, <2>1
  <2>2. CASE d # c
    BY <1>3, <2>2 DEF IInv, LegacyMirrors
  <2> QED
    BY <2>1, <2>2
<1>7. LegacyMirrors'
  BY <1>6 DEF IInv, LegacyMirrors
<1> QED
  BY <1>2, <1>3, <1>4, <1>5, <1>7

(* update_research_candidate_status writes a move, whose event is next. *)
LEMMA WriteStatusInv ==
    ASSUME IInv, NEW w \in Workers, WriteStatus(w)
    PROVE  IInv'
<1> DEFINE c == job[w].cand
<1>1. TypeOK /\ JobEvidence /\ KnowsMove(pc[w], job[w]) /\ pc[w] = "write"
  BY DEF IInv, JobEvidence, WriteStatus
<1>2. job[w].from \in Status /\ job[w].next \in Status
  BY <1>1, MovesInStatus DEF KnowsMove
<1>3. c \in Candidates /\ job[w].id \in Nat
  BY <1>1, JobParts
<1>4. /\ SetStatus(c, job[w].next, job[w].id) /\ Goto(w, "append")
      /\ UNCHANGED <<promotions, versions, observation, config, events, reviews,
                     job, unlogged, begun>>
  BY DEF WriteStatus
<1>5. job[w].next \in Accepted => observation[c].id > 0
  BY <1>1 DEF KnowsMove
<1>6. /\ AcceptedWasObserved' /\ LegacyMirrors' /\ RowEvidence'
      /\ status'[c] = job[w].next /\ writer'[c] = job[w].id
      /\ \A d \in Candidates : d # c => status'[d] = status[d] /\ writer'[d] = writer[d]
  BY <1>2, <1>3, <1>4, <1>5, StatusWritten
<1>7. "append" \in Labels
  BY DEF Labels
<1>8. pc' \in [Workers -> Labels] /\ pc'[w] = "append"
  BY <1>1, <1>4, <1>7, GotoTyped
<1>9. TypeOK'
  BY <1>1, <1>2, <1>3, <1>4, <1>8, SetStatusTyped DEF TypeOK
<1>10. \A v \in Workers : v # w => pc'[v] = pc[v]
  BY <1>1, <1>4 DEF TypeOK, Goto
<1>11. EventExplainsStatus'
  <2> SUFFICES ASSUME NEW d \in Candidates, status'[d] # "none"
               PROVE  Explained(d)'
    BY DEF EventExplainsStatus, Explained
  <2>1. CASE d = c
    BY <1>4, <1>6, <1>8, <2>1 DEF Explained
  <2>2. CASE d # c
    <3>1. Explained(d)
      BY <1>6, <2>2 DEF IInv, EventExplainsStatus, Explained
    <3> QED
      BY <1>4, <1>6, <1>8, <1>10, <2>2, <3>1, ExplainedKept
  <2> QED
    BY <2>1, <2>2
<1>12. KnowsMove(pc[w], job[w])' /\ KnowsRow(pc[w], job[w])'
  BY <1>2, <1>4, <1>8 DEF KnowsMove, KnowsRow
<1>13. JobEvidence'
  BY <1>1, <1>4, <1>10, <1>12, EvidenceKept
<1> QED
  BY <1>6, <1>9, <1>11, <1>13 DEF IInv

(* Ending a request leaves the other tasks as they are, and the task knows *)
(* nothing more.                                                           *)
LEMMA DoneKnows ==
    ASSUME TypeOK, NEW w \in Workers, Done(w)
    PROVE  /\ pc' \in [Workers -> Labels] /\ job' \in [Workers -> JobRow]
           /\ \A v \in Workers : v # w => pc'[v] = pc[v] /\ job'[v] = job[v]
           /\ KnowsMove(pc[w], job[w])' /\ KnowsRow(pc[w], job[w])'
<1>1. /\ pc' \in [Workers -> Labels] /\ pc'[w] = "idle" /\ job' \in [Workers -> JobRow]
  BY DoneTyped
<1>2. \A v \in Workers : v # w => pc'[v] = pc[v] /\ job'[v] = job[v]
  BY DEF TypeOK, Done, Goto, SetJob
<1>3. KnowsMove(pc[w], job[w])' /\ KnowsRow(pc[w], job[w])'
  BY <1>1 DEF KnowsMove, KnowsRow
<1> QED
  BY <1>1, <1>2, <1>3

(* append_research_candidate_event explains the status it belongs to. *)
LEMMA AppendEventInv ==
    ASSUME IInv, NEW w \in Workers, AppendEvent(w)
    PROVE  IInv'
<1>1. TypeOK /\ JobEvidence /\ KnowsRow(pc[w], job[w]) /\ pc[w] = "append"
  BY DEF IInv, JobEvidence, AppendEvent
<1>2. /\ events' = events \cup {Event(job[w])} /\ Done(w)
      /\ UNCHANGED <<status, legacy, promotedAt, promotions, versions,
                     observation, config, reviews, writer, unlogged, begun>>
  BY DEF AppendEvent, Logged
<1>3. Event(job[w]) \in EventRow
  BY <1>1, EventTyped DEF KnowsRow
<1>4. /\ pc' \in [Workers -> Labels] /\ job' \in [Workers -> JobRow]
      /\ \A v \in Workers : v # w => pc'[v] = pc[v] /\ job'[v] = job[v]
      /\ KnowsMove(pc[w], job[w])' /\ KnowsRow(pc[w], job[w])'
  BY <1>1, <1>2, DoneKnows
<1>5. events' \subseteq EventRow
  BY <1>1, <1>2, <1>3 DEF TypeOK, EventRow
<1>6. TypeOK'
  BY <1>1, <1>2, <1>4, <1>5 DEF TypeOK, EventRow, JobRow
<1>7. AcceptedWasObserved' /\ LegacyMirrors' /\ RowEvidence'
  BY <1>2 DEF IInv, AcceptedWasObserved, LegacyMirrors, RowEvidence
<1>8. EventExplainsStatus'
  <2> SUFFICES ASSUME NEW d \in Candidates, status'[d] # "none"
               PROVE  Explained(d)'
    BY DEF EventExplainsStatus, Explained
  <2>1. Explained(d)
    BY <1>2 DEF IInv, EventExplainsStatus, Explained
  <2>2. \E e \in events' : /\ e.id = job[w].id /\ e.cand = job[w].cand
                           /\ e.next = job[w].next
    BY <1>2, EventParts
  <2>3. \A v \in Workers : pc[v] = "append" =>
           \/ pc'[v] = "append" /\ job'[v] = job[v]
           \/ \E e \in events' : /\ e.id = job[v].id /\ e.cand = job[v].cand
                                 /\ e.next = job[v].next
    BY <1>4, <2>2
  <2> QED
    BY <1>2, <2>1, <2>3, ExplainedKept
<1>9. JobEvidence'
  BY <1>1, <1>2, <1>4, EvidenceKept
<1> QED
  BY <1>6, <1>7, <1>8, <1>9 DEF IInv

(* apply_research_candidate_review writes the status and its event at once. *)
LEMMA CommitReviewInv ==
    ASSUME IInv, NEW w \in Workers, CommitReview(w)
    PROVE  IInv'
<1> DEFINE c == job[w].cand
<1>1. TypeOK /\ JobEvidence /\ KnowsRow(pc[w], job[w]) /\ pc[w] = "review"
  BY DEF IInv, JobEvidence, CommitReview
<1>2. /\ reviews' = reviews \cup {Event(job[w])} /\ Done(w)
      /\ UNCHANGED <<promotions, versions, observation, config, unlogged, begun>>
  BY DEF CommitReview
<1>3. /\ pc' \in [Workers -> Labels] /\ job' \in [Workers -> JobRow]
      /\ \A v \in Workers : v # w => pc'[v] = pc[v] /\ job'[v] = job[v]
      /\ KnowsMove(pc[w], job[w])' /\ KnowsRow(pc[w], job[w])'
  BY <1>1, <1>2, DoneKnows
<1>4. JobEvidence'
  BY <1>1, <1>2, <1>3, EvidenceKept
<1>5. /\ job[w].from \in Status /\ job[w].next \in Status \cup {"none"}
      /\ job[w].id \in Nat /\ c \in Candidates
  BY <1>1, JobParts DEF KnowsRow
<1>6. Event(job[w]) \in ReviewRow
  BY <1>5 DEF Event, ReviewRow
<1>7. reviews' \subseteq ReviewRow
  BY <1>1, <1>2, <1>6 DEF TypeOK, ReviewRow
<1>8. \A v \in Workers : pc[v] = "append" => pc'[v] = "append" /\ job'[v] = job[v]
  BY <1>1, <1>3
<1>9. CASE job[w].next = "none"
  <2>1. UNCHANGED <<status, legacy, promotedAt, writer, events>>
    BY <1>9 DEF CommitReview
  <2>2. TypeOK'
    BY <1>1, <1>2, <1>3, <1>7, <2>1 DEF TypeOK, ReviewRow, JobRow
  <2>3. AcceptedWasObserved' /\ LegacyMirrors' /\ RowEvidence'
    BY <1>2, <2>1 DEF IInv, AcceptedWasObserved, LegacyMirrors, RowEvidence
  <2>4. EventExplainsStatus'
    <3> SUFFICES ASSUME NEW d \in Candidates, status'[d] # "none"
                 PROVE  Explained(d)'
      BY DEF EventExplainsStatus, Explained
    <3>1. Explained(d)
      BY <2>1 DEF IInv, EventExplainsStatus, Explained
    <3> QED
      BY <1>2, <1>8, <2>1, <3>1, ExplainedKept
  <2> QED
    BY <1>4, <2>2, <2>3, <2>4 DEF IInv
<1>10. CASE job[w].next # "none"
  <2>1. SetStatus(c, job[w].next, job[w].id) /\ events' = events \cup {Event(job[w])}
    BY <1>10 DEF CommitReview
  <2>2. job[w].next \in Status /\ job[w].next \notin Accepted
    BY <1>1, <1>5, <1>10 DEF KnowsRow
  <2>3. /\ AcceptedWasObserved' /\ LegacyMirrors' /\ RowEvidence'
        /\ status'[c] = job[w].next /\ writer'[c] = job[w].id
        /\ \A d \in Candidates : d # c => status'[d] = status[d] /\ writer'[d] = writer[d]
    BY <1>2, <1>5, <2>1, <2>2, StatusWritten
  <2>4. Event(job[w]) \in EventRow
    BY <1>1, <1>5, <2>2, EventTyped
  <2>5. events' \subseteq EventRow
    BY <1>1, <2>1, <2>4 DEF TypeOK, EventRow
  <2>6. TypeOK'
    BY <1>1, <1>2, <1>3, <1>5, <1>7, <2>1, <2>2, <2>5, SetStatusTyped
    DEF TypeOK, EventRow, ReviewRow, JobRow
  <2>7. EventExplainsStatus'
    <3> SUFFICES ASSUME NEW d \in Candidates, status'[d] # "none"
                 PROVE  Explained(d)'
      BY DEF EventExplainsStatus, Explained
    <3>1. CASE d = c
      <4>1. Event(job[w]) \in events'
        BY <2>1
      <4> QED
        BY <2>3, <3>1, <4>1, EventParts DEF Explained
    <3>2. CASE d # c
      <4>1. Explained(d)
        BY <2>3, <3>2 DEF IInv, EventExplainsStatus, Explained
      <4> QED
        BY <1>2, <1>8, <2>1, <2>3, <3>2, <4>1, ExplainedKept
    <3> QED
      BY <3>1, <3>2
  <2> QED
    BY <1>4, <2>3, <2>6, <2>7 DEF IInv
<1> QED
  BY <1>9, <1>10

(* A step of a task that has nothing to append, and that writes neither a  *)
(* status nor an event, leaves every status explained.                     *)
LEMMA QuietExplained ==
    ASSUME IInv, NEW w \in Workers, pc[w] # "append",
           \A v \in Workers : v # w => pc'[v] = pc[v] /\ job'[v] = job[v],
           UNCHANGED <<status, writer, events, unlogged>>
    PROVE  EventExplainsStatus'
<1> SUFFICES ASSUME NEW d \in Candidates, status'[d] # "none"
             PROVE  Explained(d)'
  BY DEF EventExplainsStatus, Explained
<1>1. Explained(d)
  BY DEF IInv, EventExplainsStatus, Explained
<1>2. \A v \in Workers : pc[v] = "append" => pc'[v] = "append" /\ job'[v] = job[v]
  OBVIOUS
<1> QED
  BY <1>1, <1>2, ExplainedKept

(* A task that moves on with what it has. *)
LEMMA GotoOthers ==
    ASSUME TypeOK, NEW w \in Workers, NEW label \in Labels, Goto(w, label), UNCHANGED job
    PROVE  /\ pc' \in [Workers -> Labels] /\ pc'[w] = label /\ job'[w] = job[w]
           /\ \A v \in Workers : v # w => pc'[v] = pc[v] /\ job'[v] = job[v]
  BY DEF TypeOK, Goto

(* persist_testnet_shadow_runner_config, of a promotion that goes on. *)
LEMMA PersistRunnerInv ==
    ASSUME IInv, NEW w \in Workers, PersistRunner(w)
    PROVE  IInv'
<1> DEFINE label == IF job[w].next # job[w].from THEN "write" ELSE "idle"
<1>1. TypeOK /\ JobEvidence /\ KnowsMove(pc[w], job[w]) /\ pc[w] = "persist"
  BY DEF IInv, JobEvidence, PersistRunner
<1>2. /\ config' = job[w].config /\ Goto(w, label)
      /\ UNCHANGED <<status, legacy, promotedAt, promotions, versions,
                     observation, events, reviews, job, writer, unlogged, begun>>
  BY DEF PersistRunner
<1>3. label \in {"write", "idle"} /\ {"write", "idle"} \subseteq Labels
  BY DEF Labels
<1> HIDE DEF label
<1>4. /\ pc' \in [Workers -> Labels] /\ pc'[w] = label /\ job'[w] = job[w]
      /\ \A v \in Workers : v # w => pc'[v] = pc[v] /\ job'[v] = job[v]
  BY <1>1, <1>2, <1>3, GotoOthers
<1>5. config' \in RunnerConfig
  BY <1>1, <1>2, JobParts
<1>6. TypeOK'
  BY <1>1, <1>2, <1>4, <1>5 DEF TypeOK
<1>7. KnowsMove(pc[w], job[w])' /\ KnowsRow(pc[w], job[w])'
  BY <1>1, <1>2, <1>3, <1>4 DEF KnowsMove, KnowsRow
<1>8. JobEvidence'
  BY <1>1, <1>2, <1>4, <1>7, EvidenceKept
<1>9. EventExplainsStatus'
  BY <1>1, <1>2, <1>4, QuietExplained
<1>10. AcceptedWasObserved' /\ LegacyMirrors' /\ RowEvidence'
  BY <1>2 DEF IInv, AcceptedWasObserved, LegacyMirrors, RowEvidence
<1> QED
  BY <1>6, <1>8, <1>9, <1>10 DEF IInv

(* An observation replaces an older one, so a candidate stays observed. *)
LEMMA InsertObservationInv ==
    ASSUME IInv, NEW w \in Workers, InsertObservation(w)
    PROVE  IInv'
<1>1. TypeOK /\ JobEvidence /\ KnowsRow(pc[w], job[w]) /\ pc[w] = "insert"
  BY DEF IInv, JobEvidence, InsertObservation
<1>2. /\ observation' = IF job[w].obs.id > observation[job[w].cand].id
                        THEN [observation EXCEPT ![job[w].cand] = job[w].obs]
                        ELSE observation
      /\ UNCHANGED <<status, legacy, promotedAt, promotions, versions, config,
                     events, reviews, writer, unlogged, begun>>
  BY DEF InsertObservation
<1>3. /\ job[w].obs \in ObservationType /\ job[w].cand \in Candidates
      /\ job[w].from \in Status /\ job[w].next = "OBSERVING" /\ job[w].obs.id > 0
  BY <1>1, JobParts DEF KnowsRow
<1>4. observation' \in [Candidates -> ObservationType]
  BY <1>1, <1>2, <1>3 DEF TypeOK
<1>5. \A c \in Candidates : observation[c].id > 0 => observation'[c].id > 0
  BY <1>1, <1>2, <1>3 DEF TypeOK
<1>6. /\ pc' \in [Workers -> Labels] /\ job' \in [Workers -> JobRow]
      /\ \A v \in Workers : v # w => pc'[v] = pc[v] /\ job'[v] = job[v]
      /\ KnowsMove(pc[w], job[w])' /\ KnowsRow(pc[w], job[w])'
  <2>1. CASE Done(w)
    BY <1>1, <2>1, DoneKnows
  <2>2. CASE job[w].from = "DISCOVERED" /\ Goto(w, "write") /\ UNCHANGED job
    <3>1. "write" \in Labels
      BY DEF Labels
    <3>2. /\ pc' \in [Workers -> Labels] /\ pc'[w] = "write" /\ job'[w] = job[w]
          /\ \A v \in Workers : v # w => pc'[v] = pc[v] /\ job'[v] = job[v]
      BY <1>1, <2>2, <3>1, GotoOthers
    <3>3. <<"DISCOVERED", "OBSERVING">> \in Moves /\ "OBSERVING" \notin Accepted
      BY DEF Moves, Edges, Accepted
    <3>4. KnowsMove(pc[w], job[w])' /\ KnowsRow(pc[w], job[w])'
      BY <1>3, <2>2, <3>2, <3>3 DEF KnowsMove, KnowsRow
    <3> QED
      BY <1>1, <2>2, <3>2, <3>4 DEF TypeOK, JobRow
  <2> QED
    BY <2>1, <2>2 DEF InsertObservation
<1>7. TypeOK'
  BY <1>1, <1>2, <1>4, <1>6 DEF TypeOK, JobRow
<1>8. JobEvidence'
  BY <1>1, <1>2, <1>5, <1>6, EvidenceKept
<1>9. EventExplainsStatus'
  BY <1>1, <1>2, <1>6, QuietExplained
<1>10. AcceptedWasObserved' /\ LegacyMirrors' /\ RowEvidence'
  BY <1>2, <1>5 DEF IInv, AcceptedWasObserved, LegacyMirrors, RowEvidence
<1> QED
  BY <1>7, <1>8, <1>9, <1>10 DEF IInv

(* The version of a promoted older row. *)
LEMMA PersistVersionInv ==
    ASSUME IInv, NEW w \in Workers, PersistVersion(w)
    PROVE  IInv'
<1>1. TypeOK /\ JobEvidence /\ pc[w] = "version" /\ job[w].cand \in Candidates
  BY JobParts DEF IInv, PersistVersion
<1>2. /\ versions' = versions \cup {job[w].cand} /\ Goto(w, "promotion")
      /\ UNCHANGED <<status, legacy, promotedAt, promotions, observation, config,
                     events, reviews, job, writer, unlogged, begun>>
  BY DEF PersistVersion
<1>3. "promotion" \in Labels
  BY DEF Labels
<1>4. /\ pc' \in [Workers -> Labels] /\ pc'[w] = "promotion" /\ job'[w] = job[w]
      /\ \A v \in Workers : v # w => pc'[v] = pc[v] /\ job'[v] = job[v]
  BY <1>1, <1>2, <1>3, GotoOthers
<1>5. TypeOK'
  BY <1>1, <1>2, <1>4 DEF TypeOK
<1>6. KnowsMove(pc[w], job[w])' /\ KnowsRow(pc[w], job[w])'
  BY <1>2, <1>4 DEF KnowsMove, KnowsRow
<1>7. JobEvidence'
  BY <1>1, <1>2, <1>4, <1>6, EvidenceKept
<1>8. EventExplainsStatus'
  BY <1>1, <1>2, <1>4, QuietExplained
<1>9. AcceptedWasObserved' /\ LegacyMirrors' /\ RowEvidence'
  BY <1>2 DEF IInv, AcceptedWasObserved, LegacyMirrors, RowEvidence
<1> QED
  BY <1>5, <1>7, <1>8, <1>9 DEF IInv

(* Its promotion, of which the unique index admits one. *)
LEMMA InsertPromotionInv ==
    ASSUME IInv, NEW w \in Workers, InsertPromotion(w)
    PROVE  IInv'
<1> DEFINE new == [id |-> job[w].id, cand |-> job[w].cand]
<1>1. /\ TypeOK /\ JobEvidence /\ KnowsRow(pc[w], job[w]) /\ pc[w] = "promotion"
      /\ job[w].cand \in Candidates /\ job[w].id \in Nat
  BY JobParts DEF IInv, JobEvidence, InsertPromotion
<1>2. /\ promotions' = promotions \cup {new} /\ Goto(w, "mark")
      /\ \A p \in promotions : p.cand # job[w].cand
      /\ UNCHANGED <<status, legacy, promotedAt, versions, observation,
                     config, events, reviews, job, writer, unlogged, begun>>
  BY DEF InsertPromotion, Unpromoted
<1>3. new \in [id : Nat, cand : Candidates] /\ new.cand = job[w].cand
  BY <1>1
<1>4. "mark" \in Labels
  BY DEF Labels
<1>5. /\ pc' \in [Workers -> Labels] /\ pc'[w] = "mark" /\ job'[w] = job[w]
      /\ \A v \in Workers : v # w => pc'[v] = pc[v] /\ job'[v] = job[v]
  BY <1>1, <1>2, <1>4, GotoOthers
<1> HIDE DEF new
<1>6. TypeOK'
  BY <1>1, <1>2, <1>3, <1>5 DEF TypeOK
<1>7. KnowsMove(pc[w], job[w])' /\ KnowsRow(pc[w], job[w])'
  BY <1>2, <1>3, <1>5 DEF KnowsMove, KnowsRow
<1>8. JobEvidence'
  BY <1>1, <1>2, <1>5, <1>7, EvidenceKept
<1>9. EventExplainsStatus'
  BY <1>1, <1>2, <1>5, QuietExplained
<1>10. AcceptedWasObserved' /\ RowEvidence'
  BY <1>2 DEF IInv, AcceptedWasObserved, RowEvidence
<1>11. LegacyMirrors'
  <2>1. job[w].cand \in versions
    BY <1>1 DEF KnowsRow
  <2>2. \A p \in promotions' : p.cand \in versions
    BY <1>2, <1>3, <2>1 DEF IInv, LegacyMirrors
  <2>3. \A p, q \in promotions' : p.cand = q.cand => p = q
    BY <1>2, <1>3 DEF IInv, LegacyMirrors
  <2> QED
    BY <1>2, <2>2, <2>3 DEF IInv, LegacyMirrors
<1> QED
  BY <1>6, <1>8, <1>9, <1>10, <1>11 DEF IInv

(* And the mark in the older table, which has its promotion by then. *)
LEMMA MarkPromotedInv ==
    ASSUME IInv, NEW w \in Workers, MarkPromoted(w)
    PROVE  IInv'
<1> DEFINE c == job[w].cand
<1>1. /\ TypeOK /\ JobEvidence /\ KnowsRow(pc[w], job[w]) /\ pc[w] = "mark"
      /\ c \in Candidates
  BY JobParts DEF IInv, JobEvidence, MarkPromoted
<1>2. /\ legacy' = [legacy EXCEPT ![c] = "PROMOTED"]
      /\ promotedAt' = [promotedAt EXCEPT ![c] = TRUE] /\ Done(w)
      /\ UNCHANGED <<status, promotions, versions, observation, config,
                     events, reviews, writer, unlogged, begun>>
  BY DEF MarkPromoted
<1>3. /\ pc' \in [Workers -> Labels] /\ job' \in [Workers -> JobRow]
      /\ \A v \in Workers : v # w => pc'[v] = pc[v] /\ job'[v] = job[v]
      /\ KnowsMove(pc[w], job[w])' /\ KnowsRow(pc[w], job[w])'
  BY <1>1, <1>2, DoneKnows
<1>4. /\ legacy' \in [Candidates -> LegacyStatus \cup {"none"}]
      /\ promotedAt' \in [Candidates -> BOOLEAN]
  BY <1>1, <1>2 DEF TypeOK, LegacyStatus
<1>5. TypeOK'
  BY <1>1, <1>2, <1>3, <1>4 DEF TypeOK, JobRow
<1>6. JobEvidence'
  BY <1>1, <1>2, <1>3, EvidenceKept
<1>7. EventExplainsStatus'
  BY <1>1, <1>2, <1>3, QuietExplained
<1>8. legacy'[c] = "PROMOTED" /\ promotedAt'[c] = TRUE
  BY <1>1, <1>2 DEF TypeOK
<1>9. \A d \in Candidates : d # c => legacy'[d] = legacy[d] /\ promotedAt'[d] = promotedAt[d]
  BY <1>1, <1>2 DEF TypeOK
<1>10. AcceptedWasObserved' /\ RowEvidence'
  BY <1>2, <1>8, <1>9 DEF IInv, AcceptedWasObserved, RowEvidence
<1>11. LegacyMirrors'
  <2>1. ASSUME NEW d \in Candidates
        PROVE  /\ status[d] # "none" /\ legacy'[d] # LegacyOf(status[d])
                     => legacy'[d] = "PROMOTED" /\ \E p \in promotions : p.cand = d
               /\ legacy'[d] = "PROMOTED" => promotedAt'[d]
    <3>1. CASE d = c
      BY <1>1, <1>8, <3>1 DEF KnowsRow
    <3>2. CASE d # c
      BY <1>9, <3>2 DEF IInv, LegacyMirrors
    <3> QED
      BY <3>1, <3>2
  <2> QED
    BY <1>2, <2>1 DEF IInv, LegacyMirrors
<1> QED
  BY <1>5, <1>6, <1>7, <1>10, <1>11 DEF IInv

(***************************************************************************)
(* The inductive invariant and the theorems.                               *)
(***************************************************************************)

(* The first requests of the history left typed rows. *)
LEMMA InitTypes == Init => TypeOK
<1> SUFFICES ASSUME Init PROVE TypeOK
  OBVIOUS
<1>1. config \in RunnerConfig
  BY DEF Init
<1>2. PICK accepted \in SUBSET Candidates, pass \in BOOLEAN :
         /\ status = [c \in Candidates |->
                        IF c \in accepted THEN "ACCEPTED_FOR_SHADOW" ELSE "none"]
         /\ legacy = [c \in Candidates |->
                        IF c \in accepted THEN "REGISTERED" ELSE "none"]
         /\ observation = [c \in Candidates |->
               LET aligned == KeyOf[c] \in config.keys
               IN  IF c \in accepted
                   THEN Observation(2, aligned, pass /\ aligned, TRUE, TRUE, config)
                   ELSE NoObservation(config)]
         /\ events = {[id |-> 1, cand |-> c, prev |-> "none", next |-> "DISCOVERED"]
                         : c \in accepted}
                     \cup {[id |-> 3, cand |-> c, prev |-> "DISCOVERED",
                            next |-> "ACCEPTED_FOR_SHADOW"] : c \in accepted}
         /\ writer = [c \in Candidates |-> IF c \in accepted THEN 3 ELSE 0]
  BY DEF Init
<1>3. status \in [Candidates -> Status \cup {"none"}]
  BY <1>2 DEF Status, Active, Closed
<1>4. legacy \in [Candidates -> LegacyStatus \cup {"none"}] /\ writer \in [Candidates -> Nat]
  BY <1>2 DEF LegacyStatus
<1>5. observation \in [Candidates -> ObservationType]
  <2> DEFINE seen(c) == LET aligned == KeyOf[c] \in config.keys
                        IN  Observation(2, aligned, pass /\ aligned, TRUE, TRUE, config)
  <2>1. NoObservation(config) \in ObservationType
    BY <1>1, NoObservationTyped
  <2>2. \A c \in Candidates : seen(c) \in ObservationType
    BY <1>1 DEF Observation, ObservationType
  <2>3. observation = [c \in Candidates |->
                         IF c \in accepted THEN seen(c) ELSE NoObservation(config)]
    BY <1>2
  <2> HIDE DEF seen
  <2> QED
    BY <2>1, <2>2, <2>3
<1>6. events \subseteq EventRow
  BY <1>2 DEF EventRow, Status, Active, Closed
<1>7. job \in [Workers -> JobRow]
  BY <1>1, IdleTyped DEF Init
<1>8. pc \in [Workers -> Labels]
  BY DEF Init, Labels
<1>9. /\ promotedAt \in [Candidates -> BOOLEAN]
      /\ promotions = {} /\ versions = {} /\ reviews = {} /\ unlogged = {} /\ begun = 3
  BY DEF Init
<1> QED
  BY <1>1, <1>3, <1>4, <1>5, <1>6, <1>7, <1>8, <1>9 DEF TypeOK, EventRow, JobRow

(* And the rest of the invariant. *)
LEMMA InitInv == Init => IInv
<1> SUFFICES ASSUME Init PROVE IInv
  OBVIOUS
<1>1. TypeOK
  BY InitTypes
<1>2. PICK accepted \in SUBSET Candidates, pass \in BOOLEAN :
         /\ status = [c \in Candidates |->
                        IF c \in accepted THEN "ACCEPTED_FOR_SHADOW" ELSE "none"]
         /\ legacy = [c \in Candidates |->
                        IF c \in accepted THEN "REGISTERED" ELSE "none"]
         /\ observation = [c \in Candidates |->
               LET aligned == KeyOf[c] \in config.keys
               IN  IF c \in accepted
                   THEN Observation(2, aligned, pass /\ aligned, TRUE, TRUE, config)
                   ELSE NoObservation(config)]
         /\ events = {[id |-> 1, cand |-> c, prev |-> "none", next |-> "DISCOVERED"]
                         : c \in accepted}
                     \cup {[id |-> 3, cand |-> c, prev |-> "DISCOVERED",
                            next |-> "ACCEPTED_FOR_SHADOW"] : c \in accepted}
         /\ writer = [c \in Candidates |-> IF c \in accepted THEN 3 ELSE 0]
  BY DEF Init
<1>3. AcceptedWasObserved
  BY <1>2 DEF AcceptedWasObserved, Observation
<1>4. promotions = {} /\ pc = [w \in Workers |-> "idle"]
  BY DEF Init
<1>5. LegacyMirrors /\ RowEvidence
  BY <1>2, <1>4 DEF LegacyMirrors, RowEvidence, LegacyOf, Closed
<1>6. EventExplainsStatus
  <2> SUFFICES ASSUME NEW c \in Candidates, status[c] # "none"
               PROVE  \E e \in events : /\ e.id = writer[c] /\ e.cand = c
                                        /\ e.next = status[c]
    BY DEF EventExplainsStatus
  <2> DEFINE e == [id |-> 3, cand |-> c, prev |-> "DISCOVERED",
                   next |-> "ACCEPTED_FOR_SHADOW"]
  <2>1. c \in accepted /\ writer[c] = 3 /\ status[c] = "ACCEPTED_FOR_SHADOW"
    BY <1>2
  <2>2. e \in events
    BY <1>2, <2>1
  <2>3. e.id = 3 /\ e.cand = c /\ e.next = "ACCEPTED_FOR_SHADOW"
    OBVIOUS
  <2> HIDE DEF e
  <2> QED
    BY <2>1, <2>2, <2>3
<1>7. JobEvidence
  BY <1>4 DEF JobEvidence, KnowsMove, KnowsRow
<1> QED
  BY <1>1, <1>3, <1>5, <1>6, <1>7 DEF IInv

(* The inductive invariant holds in every reachable state. *)
LEMMA Invariance == Spec => []IInv
<1>1. IInv /\ [Next]_vars => IInv'
  <2> SUFFICES ASSUME IInv, [Next]_vars PROVE IInv'
    OBVIOUS
  <2>1. CASE UNCHANGED vars
    <3>1. UNCHANGED <<status, legacy, promotedAt, promotions, versions, observation,
                      config, events, reviews, pc, job, writer, unlogged, begun>>
      BY <2>1 DEF vars, tables
    <3>2. JobEvidence'
      BY <3>1, OthersKnow DEF IInv, JobEvidence
    <3>3. TypeOK'
      BY <3>1 DEF IInv, TypeOK
    <3> QED
      BY <3>1, <3>2, <3>3 DEF IInv, AcceptedWasObserved, LegacyMirrors,
         EventExplainsStatus, RowEvidence
  <2>2. ASSUME NEW c \in Candidates, Create(c) \/ Register(c) \/ Expire(c) PROVE IInv'
    BY <2>2, CreateInv, ExpireInv
  <2>3. CASE SaveConfig
    BY <2>3, SaveConfigInv
  <2>4. ASSUME NEW w \in Workers, DecideStep(w) PROVE IInv'
    BY <2>4, DecideInv, BeginInv, AcceptChecksInv, PreviewInv, PersistRunnerInv,
       WriteStatusInv, AppendEventInv DEF DecideStep
  <2>5. ASSUME NEW w \in Workers, ReviewStep(w) PROVE IInv'
    BY <2>5, BeginInv, CommitReviewInv, AlignInv, InsertObservationInv DEF ReviewStep
  <2>6. ASSUME NEW w \in Workers, LegacyStep(w) PROVE IInv'
    BY <2>6, BeginInv, PersistVersionInv, InsertPromotionInv, MarkPromotedInv
    DEF LegacyStep
  <2>7. ASSUME NEW w \in Workers, GiveUp(w) PROVE IInv'
    BY <2>7, GiveUpInv
  <2> QED
    BY <2>1, <2>2, <2>3, <2>4, <2>5, <2>6, <2>7 DEF Next
<1> QED
  BY <1>1, InitInv, PTL DEF Spec

(* Every request keeps the types of the tables: in particular it only      *)
(* writes a status of the lifecycle.                                       *)
THEOREM TypeCorrect == Spec => []TypeOK
<1>1. IInv => TypeOK
  BY DEF IInv
<1> QED
  BY <1>1, Invariance, PTL

(* An accepted or promoted candidate has an observation, whatever requests *)
(* overlap: an observation is only replaced by a later one.                *)
THEOREM AcceptedObserved == Spec => []AcceptedWasObserved
<1>1. IInv => AcceptedWasObserved
  BY DEF IInv
<1> QED
  BY <1>1, Invariance, PTL

(* strategy_research_candidates mirrors research_candidates, or has been   *)
(* promoted itself, once.                                                  *)
THEOREM LegacyMirrored == Spec => []LegacyMirrors
<1>1. IInv => LegacyMirrors
  BY DEF IInv
<1> QED
  BY <1>1, Invariance, PTL

(* Whoever wrote a status has logged it, is about to or ended in between. *)
THEOREM StatusExplained == Spec => []EventExplainsStatus
<1>1. IInv => EventExplainsStatus
  BY DEF IInv
<1> QED
  BY <1>1, Invariance, PTL

(* A step changes a status along an edge of the lifecycle, or its task     *)
(* writes a decision that was made on another status.                      *)
THEOREM LifecycleEdges == Spec => EdgesKept
<1> DEFINE Kept(c) ==
      status'[c] # status[c] /\ status[c] # "none" =>
         \/ <<status[c], status'[c]>> \in Edges
         \/ \E w \in Workers : /\ pc[w] \in {"write", "review"} /\ pc'[w] # pc[w]
                               /\ job[w].cand = c /\ job[w].from # status[c]
<1>1. ASSUME IInv, [Next]_vars, NEW c \in Candidates
      PROVE  Kept(c)
  <2>1. TypeOK
    BY <1>1 DEF IInv
  <2>2. ASSUME NEW w \in Workers, WriteStatus(w)
        PROVE  Kept(c)
    <3>1. /\ pc[w] = "write" /\ SetStatus(job[w].cand, job[w].next, job[w].id)
          /\ pc'[w] = "append"
      BY <2>1, <2>2 DEF WriteStatus, Goto, TypeOK
    <3>2. <<job[w].from, job[w].next>> \in Moves
      BY <1>1, <3>1 DEF IInv, JobEvidence, KnowsMove
    <3>3. CASE c # job[w].cand
      BY <2>1, <3>1, <3>3 DEF SetStatus, TypeOK
    <3>4. CASE c = job[w].cand
      <4>1. status'[c] = job[w].next
        BY <2>1, <3>1, <3>4 DEF SetStatus, TypeOK
      <4>2. CASE job[w].from = status[c]
        BY <3>2, <4>1, <4>2, MovesAreEdges
      <4>3. CASE job[w].from # status[c]
        BY <3>1, <3>4, <4>3
      <4> QED
        BY <4>2, <4>3
    <3> QED
      BY <3>3, <3>4
  <2>3. ASSUME NEW w \in Workers, CommitReview(w)
        PROVE  Kept(c)
    <3>1. pc[w] = "review" /\ pc'[w] = "idle"
      BY <2>1, <2>3, DoneTyped DEF CommitReview
    <3>2. CASE job[w].next = "none"
      BY <2>3, <3>2 DEF CommitReview
    <3>3. CASE job[w].next # "none"
      <4>1. SetStatus(job[w].cand, job[w].next, job[w].id)
        BY <2>3, <3>3 DEF CommitReview
      <4>2. <<job[w].from, job[w].next>> \in Moves
        BY <1>1, <3>1, <3>3 DEF IInv, JobEvidence, KnowsRow
      <4>3. CASE c # job[w].cand
        BY <2>1, <4>1, <4>3 DEF SetStatus, TypeOK
      <4>4. CASE c = job[w].cand
        <5>1. status'[c] = job[w].next
          BY <2>1, <4>1, <4>4 DEF SetStatus, TypeOK
        <5>2. CASE job[w].from = status[c]
          BY <4>2, <5>1, <5>2, MovesAreEdges
        <5>3. CASE job[w].from # status[c]
          BY <3>1, <4>4, <5>3
        <5> QED
          BY <5>2, <5>3
      <4> QED
        BY <4>3, <4>4
    <3> QED
      BY <3>2, <3>3
  <2>4. ASSUME NEW d \in Candidates, Create(d)
        PROVE  Kept(c)
    <3>1. status[d] = "none" /\ status' = [status EXCEPT ![d] = "DISCOVERED"]
      BY <1>1, <2>4 DEF IInv, RowEvidence, Create
    <3> QED
      BY <2>1, <3>1 DEF TypeOK
  <2>5. CASE UNCHANGED status
    BY <2>5
  <2>6. ASSUME NEW w \in Workers, DecideStep(w), ~WriteStatus(w)
        PROVE  UNCHANGED status
    BY <2>6 DEF DecideStep, Decide, ReadObservation, CompareRunner, AcceptApply,
       PreviewAccept, ShadowPromote, PreviewRunner, PreviewObservation,
       PersistRunner, SkipStatus, AppendEvent, tables
  <2>7. ASSUME NEW w \in Workers, ReviewStep(w), ~CommitReview(w)
        PROVE  UNCHANGED status
    BY <2>7 DEF ReviewStep, Review, Observe, Align, InsertObservation, tables
  <2>8. ASSUME NEW w \in Workers, LegacyStep(w) \/ GiveUp(w)
        PROVE  UNCHANGED status
    BY <2>8 DEF LegacyStep, LegacyPromote, PersistVersion, InsertPromotion,
       MarkPromoted, GiveUp, tables
  <2>9. ASSUME NEW d \in Candidates, Register(d) \/ Expire(d)
        PROVE  UNCHANGED status
    BY <2>9 DEF Register, Expire
  <2>10. CASE SaveConfig
    BY <2>10, <2>5 DEF SaveConfig
  <2>11. CASE UNCHANGED vars
    BY <2>11, <2>5 DEF vars, tables
  <2> HIDE DEF Kept
  <2> QED
    BY <1>1, <2>2, <2>3, <2>4, <2>5, <2>6, <2>7, <2>8, <2>9, <2>10, <2>11 DEF Next
<1>2. IInv /\ [Next]_vars => [\A c \in Candidates : Kept(c)]_vars
  BY <1>1
<1> QED
  BY <1>2, Invariance, PTL DEF Spec, EdgesKept
=============================================================================
