----------------------- MODULE ScheduledResearch_proof -----------------------
(***************************************************************************)
(* IInv of ScheduledResearch is an invariant for any number of runners and *)
(* requests and any policy, and with it no two runs overlap, an enabled    *)
(* job has a next run, and a pause that interrupted nothing holds.         *)
(***************************************************************************)
EXTENDS ScheduledResearch, TLAPS

USE DurationsAssumption, CountsAssumption, WorkersAssumption

(* The row a run leaves has its type, and a time if it is enabled. *)
LEMMA CompletionTimed ==
    ASSUME NEW enabled \in BOOLEAN, NEW failures \in 0..Saturation, NEW failed \in BOOLEAN
    PROVE  LET done == job_completion_update(enabled, failures, failed) IN
           /\ done \in [enabled : BOOLEAN, status : Status, next : Int, backoff : Int,
                        failures : 0..Saturation]
           /\ done.enabled => enabled /\ done.next # Null
<1> DEFINE count == saturating_add(failures)
           back  == scheduled_research_backoff(count)
<1>1. count \in 0..Saturation
  BY DEF saturating_add
<1>2. back \in Int
  BY <1>1 DEF scheduled_research_backoff, minimum, Null
<1> HIDE DEF count, back
<1>3. CASE ~failed
  BY <1>3 DEF job_completion_update, Status, Null
<1>4. CASE failed
  <2>1. job_completion_update(enabled, failures, failed) =
            IF count >= MaxFailures
            THEN [enabled |-> FALSE, status |-> "AUTO_PAUSED",
                  next |-> Null, backoff |-> Null, failures |-> count]
            ELSE [enabled |-> enabled,
                  status |-> IF back = Null THEN "ERROR" ELSE "BACKING_OFF",
                  next |-> IF back = Null THEN Interval ELSE back,
                  backoff |-> back, failures |-> count]
    BY <1>4 DEF job_completion_update, count, back
  <2> QED BY <1>1, <1>2, <2>1 DEF Status, Null
<1> QED BY <1>3, <1>4

(* What a worker does after a pass: it lists or idles, and runs nothing. *)
LEMMA Rests ==
    ASSUME TypeOK, NEW w \in Workers,
           worker_rests(w) \/ worker_goes(w, "idle", 0, FALSE, 0)
    PROVE  /\ worker' \in [Workers -> [pc : {"idle", "listed", "running"},
                                       left : 0..RunsPerTick,
                                       enabled : BOOLEAN, failures : 0..Saturation]]
           /\ \A v \in Workers : running(v)' => v # w /\ running(v) /\ worker'[v] = worker[v]
<1>1. PICK pc \in {"idle", "listed"}, left \in 0..RunsPerTick :
          worker' = [worker EXCEPT ![w] = [pc |-> pc, left |-> left,
                                           enabled |-> FALSE, failures |-> 0]]
  BY DEF TypeOK, worker_rests, worker_goes
<1> QED BY <1>1 DEF TypeOK, running

(* A new job, and no worker. *)
LEMMA InitIInv == Init => IInv
<1> SUFFICES ASSUME Init PROVE IInv
  OBVIOUS
<1>1. PICK on \in BOOLEAN, asked \in {Null} \cup 0..Interval :
          job = [enabled |-> on, status |-> IF on THEN "ENABLED" ELSE "DISABLED",
                 next |-> IF asked # Null THEN asked ELSE IF on THEN 0 ELSE Null,
                 backoff |-> Null, failures |-> 0]
  BY DEF Init
<1>2. /\ job \in [enabled : BOOLEAN, status : Status, next : Int, backoff : Int,
                  failures : 0..Saturation]
      /\ job.enabled => job.next # Null
  BY <1>1 DEF Status, Null
<1>3. worker = [w \in Workers |-> [pc |-> "idle", left |-> 0, enabled |-> FALSE, failures |-> 0]]
  BY DEF Init, Idle
<1>4. /\ worker \in [Workers -> [pc : {"idle", "listed", "running"}, left : 0..RunsPerTick,
                                 enabled : BOOLEAN, failures : 0..Saturation]]
      /\ \A w \in Workers : ~running(w)
  BY <1>3 DEF running
<1>5. meddled = FALSE /\ pausing = "no"
  BY DEF Init
<1> QED BY <1>2, <1>4, <1>5
        DEF IInv, TypeOK, OneRun, EnabledIsTimed, RunEvidence, PauseEvidence

(* A step of a runner or a request that leaves the row alone. *)
LEMMA ReadsIInv ==
    ASSUME IInv, NEW w \in Workers, RunnerLists(w) \/ RequestReads(w) \/ Skips(w) \/ Abandons(w)
    PROVE  IInv'
<1>1. UNCHANGED <<job, meddled, pausing>>
  BY DEF RunnerLists, RequestReads, Skips, Abandons
<1>2. /\ worker' \in [Workers -> [pc : {"idle", "listed", "running"}, left : 0..RunsPerTick,
                                  enabled : BOOLEAN, failures : 0..Saturation]]
      /\ \A v \in Workers : running(v)' => running(v) /\ worker'[v] = worker[v]
  <2>1. CASE Skips(w) \/ Abandons(w)
    BY <2>1, Rests DEF IInv, Skips, Abandons
  <2>2. CASE RunnerLists(w) \/ RequestReads(w)
    <3>1. PICK left \in 0..RunsPerTick :
              worker' = [worker EXCEPT ![w] = [pc |-> "listed", left |-> left,
                                               enabled |-> FALSE, failures |-> 0]]
      <4>1. RunsPerTick \in 0..RunsPerTick /\ 1 \in 0..RunsPerTick
        OBVIOUS
      <4>2. CASE RunnerLists(w)
        BY <4>1, <4>2 DEF RunnerLists, worker_goes
      <4>3. CASE RequestReads(w)
        BY <4>1, <4>3 DEF RequestReads, worker_goes
      <4> QED BY <2>2, <4>2, <4>3
    <3> QED BY <3>1 DEF IInv, TypeOK, running
  <2> QED BY <2>1, <2>2
<1>3. TypeOK'
  BY <1>1, <1>2 DEF IInv, TypeOK
<1> QED BY <1>1, <1>2, <1>3 DEF IInv, OneRun, EnabledIsTimed, RunEvidence, PauseEvidence

(* The claim: nobody else runs, or somebody meddled; and a runner claims   *)
(* only an enabled job.                                                    *)
LEMMA ClaimsIInv ==
    ASSUME IInv, NEW w \in Workers, Claims(w)
    PROVE  /\ IInv'
           /\ pausing = "idle" => w \in Requests
<1>1. /\ job' = [enabled |-> job.enabled, status |-> "RUNNING", next |-> job.next,
                 backoff |-> job.backoff, failures |-> job.failures]
      /\ worker' = [worker EXCEPT ![w] = [pc |-> "running", left |-> worker[w].left,
                                          enabled |-> job.enabled, failures |-> job.failures]]
      /\ UNCHANGED <<meddled, pausing>>
      /\ job.status # "RUNNING"
      /\ w \in Requests \/ job.enabled
  BY DEF Claims, worker_goes, claimable
<1>2. /\ job \in [enabled : BOOLEAN, status : Status, next : Int, backoff : Int,
                  failures : 0..Saturation]
      /\ worker \in [Workers -> [pc : {"idle", "listed", "running"}, left : 0..RunsPerTick,
                                 enabled : BOOLEAN, failures : 0..Saturation]]
  BY DEF IInv, TypeOK
<1>3. TypeOK'
  BY <1>1, <1>2 DEF IInv, TypeOK, Status
<1>4. \A v \in Workers : running(v)' => v = w \/ (running(v) /\ worker'[v] = worker[v])
  BY <1>1, <1>2 DEF running
<1>5. OneRun' /\ RunEvidence'
  BY <1>1, <1>4 DEF IInv, OneRun, RunEvidence
<1>6. EnabledIsTimed'
  BY <1>1 DEF IInv, EnabledIsTimed
<1>7. pausing = "idle" => w \in Requests /\ ~job.enabled
  BY <1>1 DEF IInv, PauseEvidence
<1>8. worker'[w].enabled = job.enabled /\ job'.enabled = job.enabled
  BY <1>1, <1>2
<1>9. PauseEvidence'
  BY <1>1, <1>4, <1>7, <1>8 DEF IInv, PauseEvidence
<1> QED BY <1>3, <1>5, <1>6, <1>7, <1>9 DEF IInv

(* The end of a run overwrites the row with what the claim had returned. *)
LEMMA FinishesIInv ==
    ASSUME IInv, NEW w \in Workers, NEW failed \in BOOLEAN, Finishes(w, failed)
    PROVE  IInv'
<1>1. /\ running(w)
      /\ job' = job_completion_update(worker[w].enabled, worker[w].failures, failed)
      /\ UNCHANGED <<meddled, pausing>>
  BY DEF Finishes
<1>2. /\ worker' \in [Workers -> [pc : {"idle", "listed", "running"}, left : 0..RunsPerTick,
                                  enabled : BOOLEAN, failures : 0..Saturation]]
      /\ \A v \in Workers : running(v)' => v # w /\ running(v) /\ worker'[v] = worker[v]
  BY Rests DEF IInv, Finishes
<1>3. /\ job' \in [enabled : BOOLEAN, status : Status, next : Int, backoff : Int,
                   failures : 0..Saturation]
      /\ job'.enabled => worker[w].enabled /\ job'.next # Null
  BY <1>1, CompletionTimed DEF IInv, TypeOK
<1>4. TypeOK' /\ EnabledIsTimed'
  BY <1>1, <1>2, <1>3 DEF IInv, TypeOK, EnabledIsTimed
<1>5. OneRun' /\ RunEvidence'
  BY <1>1, <1>2 DEF IInv, OneRun, RunEvidence
<1>6. PauseEvidence'
  BY <1>1, <1>2, <1>3 DEF IInv, PauseEvidence
<1> QED BY <1>4, <1>5, <1>6 DEF IInv

(* Time passes. *)
LEMMA TimeIInv ==
    ASSUME IInv, TimePasses
    PROVE  IInv'
<1>1. /\ job' = [enabled |-> job.enabled, status |-> job.status, next |-> less(job.next),
                 backoff |-> less(job.backoff), failures |-> job.failures]
      /\ UNCHANGED <<worker, meddled, pausing>>
  BY DEF TimePasses
<1>2. /\ job \in [enabled : BOOLEAN, status : Status, next : Int, backoff : Int,
                  failures : 0..Saturation]
  BY DEF IInv, TypeOK
<1>3. /\ less(job.next) \in Int /\ less(job.backoff) \in Int
      /\ job.next # Null => less(job.next) # Null
  BY <1>2 DEF less, Null
<1>4. TypeOK'
  BY <1>1, <1>2, <1>3 DEF IInv, TypeOK
<1>5. job'.enabled = job.enabled /\ job'.status = job.status /\ job'.next = less(job.next)
  BY <1>1
<1> QED BY <1>1, <1>3, <1>4, <1>5
        DEF IInv, OneRun, EnabledIsTimed, RunEvidence, PauseEvidence, running

(* Operators who set the status of the job. *)
LEMMA SetsIInv ==
    ASSUME IInv,
           \/ Pauses
           \/ Resumes
           \/ \E on \in BOOLEAN :
                 BootstrapSwitches(on) \/ update_scheduled_research_job_definition(on)
    PROVE  IInv'
<1>1. /\ job' \in [enabled : BOOLEAN, status : Status, next : Int, backoff : Int,
                   failures : 0..Saturation]
      /\ job'.enabled => job'.next # Null
      /\ meddled' = (meddled \/ in_progress)
      /\ pausing' = IF job'.enabled THEN "no" ELSE IF in_progress THEN "busy" ELSE "idle"
      /\ worker' = worker
  <2>1. job.failures \in 0..Saturation /\ 0 \in 0..Saturation
    BY DEF IInv, TypeOK
  <2>2. CASE Pauses
    BY <2>1, <2>2 DEF Pauses, set_scheduled_research_job_status, Status, Null
  <2>3. CASE Resumes
    BY <2>1, <2>3 DEF Resumes, set_scheduled_research_job_status, Status, Null
  <2>4. ASSUME NEW on \in BOOLEAN, BootstrapSwitches(on)
        PROVE  <1>1!:
    BY <2>1, <2>4 DEF BootstrapSwitches, set_scheduled_research_job_status, Status, Null
  <2>5. ASSUME NEW on \in BOOLEAN, update_scheduled_research_job_definition(on)
        PROVE  <1>1!:
    BY <2>1, <2>5 DEF update_scheduled_research_job_definition, Status, Null
  <2> QED BY <2>2, <2>3, <2>4, <2>5
<1>2. TypeOK'
  BY <1>1 DEF IInv, TypeOK
<1>3. EnabledIsTimed'
  BY <1>1 DEF EnabledIsTimed
<1>4. OneRun' /\ RunEvidence'
  BY <1>1 DEF OneRun, RunEvidence, in_progress, running
<1>5. PauseEvidence'
  BY <1>1 DEF PauseEvidence, in_progress, running
<1> QED BY <1>2, <1>3, <1>4, <1>5 DEF IInv

(* Operators who reset the failures: RUNNING stays RUNNING. *)
LEMMA ResetsIInv ==
    ASSUME IInv, reset_scheduled_research_job_failures
    PROVE  IInv'
<1>1. /\ job \in [enabled : BOOLEAN, status : Status, next : Int, backoff : Int,
                  failures : 0..Saturation]
      /\ UNCHANGED <<worker, meddled, pausing>>
  BY DEF IInv, TypeOK, reset_scheduled_research_job_failures
<1>2. /\ job' \in [enabled : BOOLEAN, status : Status, next : Int, backoff : Int,
                   failures : 0..Saturation]
      /\ job'.enabled => job.enabled
      /\ job'.next = 0 \/ job'.next = job.next
      /\ job.status = "RUNNING" => job'.status = "RUNNING"
  BY <1>1 DEF reset_scheduled_research_job_failures, Status, Null
<1>3. TypeOK'
  BY <1>1, <1>2 DEF IInv, TypeOK
<1> QED BY <1>1, <1>2, <1>3
        DEF IInv, OneRun, EnabledIsTimed, RunEvidence, PauseEvidence, running, Null

(* The same, for a step of the whole system. *)
LEMMA NextIInv == IInv /\ [Next]_vars => IInv'
<1> SUFFICES ASSUME IInv, [Next]_vars PROVE IInv'
  OBVIOUS
<1>1. CASE TimePasses
  BY <1>1, TimeIInv
<1>2. CASE Operator
  BY <1>2, SetsIInv, ResetsIInv DEF Operator
<1>3. ASSUME NEW w \in Workers, RunnerLists(w) \/ RequestReads(w) \/ Work(w) PROVE IInv'
  BY <1>3, ReadsIInv, ClaimsIInv, FinishesIInv DEF Work
<1>4. CASE UNCHANGED vars
  BY <1>4 DEF vars, IInv, TypeOK, OneRun, EnabledIsTimed, RunEvidence, PauseEvidence, running
<1> QED BY <1>1, <1>2, <1>3, <1>4 DEF Next, Workers

(* IInv is an invariant of the scheduled job. *)
THEOREM Invariant == Spec => []IInv
BY InitIInv, NextIInv, PTL DEF Spec

(* Every column keeps its type; the failure count does not overflow. *)
THEOREM TypeCorrect == Spec => []TypeOK
<1>1. IInv => TypeOK BY DEF IInv
<1> QED BY <1>1, Invariant, PTL

(* No two runs overlap unless an operator wrote the status during one. *)
THEOREM RunsDoNotOverlap == Spec => []OneRun
<1>1. IInv => OneRun BY DEF IInv
<1> QED BY <1>1, Invariant, PTL

(* An enabled job always has a time for its next run. *)
THEOREM EnabledJobsAreTimed == Spec => []EnabledIsTimed
<1>1. IInv => EnabledIsTimed BY DEF IInv
<1> QED BY <1>1, Invariant, PTL

(* A runner does not start a job that was paused while nothing ran. *)
THEOREM IdlePausesHold == Spec => PauseHolds
<1>1. IInv /\ [Next]_vars =>
          [\A w \in Runners : pausing = "idle" => running(w) \/ ~running(w)']_vars
  <2> SUFFICES ASSUME IInv, [Next]_vars, NEW w \in Runners, pausing = "idle",
                      ~running(w), running(w)'
               PROVE  FALSE
    BY DEF vars
  <2>1. \E v \in Workers : Claims(v) /\ worker' = [worker EXCEPT ![v] = worker'[v]]
    <3>1. ~(TimePasses \/ Operator \/ UNCHANGED vars)
      BY DEF TimePasses, Operator, Pauses, Resumes, BootstrapSwitches,
             set_scheduled_research_job_status, update_scheduled_research_job_definition,
             reset_scheduled_research_job_failures, vars, running
    <3>2. \A v \in Workers : ~(RunnerLists(v) \/ RequestReads(v))
      BY DEF RunnerLists, RequestReads, worker_goes, running, IInv, TypeOK, Workers
    <3>3. \A v \in Workers : ~(Skips(v) \/ Abandons(v) \/ \E failed \in BOOLEAN : Finishes(v, failed))
      BY Rests DEF Skips, Abandons, Finishes, IInv, Workers
    <3>4. PICK v \in Workers : Claims(v)
      BY <3>1, <3>2, <3>3 DEF Next, Work, Workers
    <3> QED BY <3>4 DEF Claims, worker_goes, IInv, TypeOK
  <2>2. PICK v \in Workers : Claims(v) /\ worker' = [worker EXCEPT ![v] = worker'[v]]
    BY <2>1
  <2>3. v \in Requests
    BY <2>2, ClaimsIInv
  <2>4. w # v
    BY <2>3
  <2> QED BY <2>2, <2>4 DEF IInv, TypeOK, running, Workers
<1> QED BY <1>1, Invariant, PTL DEF Spec, PauseHolds
=============================================================================
