-------------------------- MODULE ScheduledResearch --------------------------
(***************************************************************************)
(* One row of scheduled_research_jobs, the runner daemons that list, claim *)
(* and run it, the run-once requests that do the same by hand, and the     *)
(* operators who pause, resume, reset and replace it meanwhile.  The claim *)
(* is one conditional UPDATE; everything else is overwritten: when a run   *)
(* ends, the row is computed from the row AS IT WAS CLAIMED.  Jobs share   *)
(* no state, so one row is the whole component.  Times are kept as the     *)
(* seconds that are left: 0 is a time that has come, Null is no time.      *)
(***************************************************************************)
EXTENDS Integers

CONSTANTS
    Runners,        \* scheduled-research-runner processes
    Requests,       \* run-once requests
    Interval,       \* interval_seconds
    RunsPerTick,    \* max_runs_per_tick
    MaxFailures,    \* SCHEDULED_RESEARCH_MAX_CONSECUTIVE_FAILURES
    BackoffBase,    \* SCHEDULED_RESEARCH_BACKOFF_BASE_SECONDS
    BackoffMax,     \* SCHEDULED_RESEARCH_BACKOFF_MAX_SECONDS
    Saturation      \* i32::MAX

Workers == Runners \cup Requests
Null == -1

ASSUME DurationsAssumption ==
    /\ Interval \in Nat \ {0}
    /\ BackoffBase \in Nat \ {0}
    /\ BackoffMax \in Nat \ {0}
ASSUME CountsAssumption ==
    /\ RunsPerTick \in Nat \ {0}
    /\ MaxFailures \in Nat \ {0}
    /\ Saturation \in Nat
    /\ MaxFailures <= Saturation
ASSUME WorkersAssumption == Runners \cap Requests = {}

VARIABLES
    job,        \* the row
    worker,     \* runners and requests
    meddled,    \* history: an operator wrote the status during a run
    pausing     \* history: the operator's last word on the job

vars == <<job, worker, meddled, pausing>>

Status == {"DISABLED", "ENABLED", "PAUSED", "RUNNING", "BACKING_OFF", "ERROR", "AUTO_PAUSED"}
Schedulable == {"ENABLED", "ERROR", "BACKING_OFF"}

Idle == [pc |-> "idle", left |-> 0, enabled |-> FALSE, failures |-> 0]

(* insert_scheduled_research_job, with the first run asked for, if any. *)
Init ==
    /\ \E on \in BOOLEAN, asked \in {Null} \cup 0..Interval :
          job = [enabled |-> on, status |-> IF on THEN "ENABLED" ELSE "DISABLED",
                 next |-> IF asked # Null THEN asked ELSE IF on THEN 0 ELSE Null,
                 backoff |-> Null, failures |-> 0]
    /\ worker = [w \in Workers |-> Idle]
    /\ meddled = FALSE
    /\ pausing = "no"

running(w) == worker[w].pc = "running"
in_progress == \E w \in Workers : running(w)

-----------------------------------------------------------------------------
(* Time. *)

less(t) == IF t > 0 THEN t - 1 ELSE t

TimePasses ==
    /\ job' = [enabled |-> job.enabled, status |-> job.status, next |-> less(job.next),
               backoff |-> less(job.backoff), failures |-> job.failures]
    /\ job' # job
    /\ UNCHANGED <<worker, meddled, pausing>>

-----------------------------------------------------------------------------
(* Runners and requests. *)

(* Variant: a comparison with NULL, which is never true. *)
passed_unless_null(t) == t = 0

passed(t) == t = Null \/ t = 0

worker_goes(w, pc, left, enabled, failures) ==
    worker' = [worker EXCEPT ![w] =
                 [pc |-> pc, left |-> left, enabled |-> enabled, failures |-> failures]]

(* After one pass, the loop over max_runs_per_tick or the end. *)
worker_rests(w) ==
    IF worker[w].left > 1
    THEN worker_goes(w, "listed", worker[w].left - 1, FALSE, 0)
    ELSE worker_goes(w, "idle", 0, FALSE, 0)

(* list_due_scheduled_research_jobs, at the start of a tick. *)
due ==
    /\ job.enabled
    /\ job.status \in Schedulable
    /\ job.next = 0
    /\ passed(job.backoff)

RunnerLists(w) ==
    /\ worker[w].pc = "idle"
    /\ due
    /\ worker_goes(w, "listed", RunsPerTick, FALSE, 0)
    /\ UNCHANGED <<job, meddled, pausing>>

(* A run-once request reads the job, whatever its state. *)
RequestReads(w) ==
    /\ worker[w].pc = "idle"
    /\ worker_goes(w, "listed", 1, FALSE, 0)
    /\ UNCHANGED <<job, meddled, pausing>>

(* The claim does not ask whether the job is still due.  The two checks of *)
(* the listed row that come before it repeat those of the list query.      *)
(* Variants: the row that was listed decides; RUNNING may be claimed. *)
claimable_as_listed(w) == job.status # "RUNNING"

claimable_again(w) ==
    w \in Requests \/ (job.enabled /\ passed(job.backoff))

claimable(w) ==
    /\ job.status # "RUNNING"
    /\ \/ w \in Requests
       \/ job.enabled /\ job.status \in Schedulable /\ passed(job.backoff)

Claims(w) ==
    /\ worker[w].pc = "listed"
    /\ claimable(w)
    /\ job' = [enabled |-> job.enabled, status |-> "RUNNING", next |-> job.next,
               backoff |-> job.backoff, failures |-> job.failures]
    /\ worker_goes(w, "running", worker[w].left, job.enabled, job.failures)
    /\ UNCHANGED <<meddled, pausing>>

(* A claim that fails is recorded as a skipped run. *)
Skips(w) ==
    /\ worker[w].pc = "listed"
    /\ ~claimable(w)
    /\ worker_rests(w)
    /\ UNCHANGED <<job, meddled, pausing>>

(* i32::saturating_add(1). *)
(* Variant: a count that is not capped. *)
saturating_add_unbounded(n) == n + 1

saturating_add(n) == IF n < Saturation THEN n + 1 ELSE Saturation

(* How long a job backs off after so many failures in a row. *)
minimum(m, n) == IF m < n THEN m ELSE n
scheduled_research_backoff(count) ==
    IF count < 2 THEN Null
    ELSE minimum(BackoffBase * (IF count = 2 THEN 1 ELSE 3 * 2^(count - 3)), BackoffMax)

(* The row after a run, from what the claim returned. *)
job_completion_update(enabled, failures, failed) ==
    LET count == saturating_add(failures)
        back  == scheduled_research_backoff(count)
    IN IF ~failed
       THEN [enabled |-> enabled, status |-> IF enabled THEN "ENABLED" ELSE "DISABLED",
             next |-> Interval, backoff |-> Null, failures |-> 0]
       ELSE IF count >= MaxFailures
       THEN [enabled |-> FALSE, status |-> "AUTO_PAUSED",
             next |-> Null, backoff |-> Null, failures |-> count]
       ELSE [enabled |-> enabled, status |-> IF back = Null THEN "ERROR" ELSE "BACKING_OFF",
             next |-> IF back = Null THEN Interval ELSE back,
             backoff |-> back, failures |-> count]

(* The run is recorded and the row overwritten.  A run fails when its work *)
(* fails, and when any execution table grew while it ran.                  *)
Finishes(w, failed) ==
    /\ running(w)
    /\ job' = job_completion_update(worker[w].enabled, worker[w].failures, failed)
    /\ worker_rests(w)
    /\ UNCHANGED <<meddled, pausing>>

(* A query fails after the claim, or the process stops: nobody writes the  *)
(* row, which stays RUNNING.                                               *)
Abandons(w) ==
    /\ worker[w].pc # "idle"
    /\ worker_rests(w) \/ worker_goes(w, "idle", 0, FALSE, 0)
    /\ UNCHANGED <<job, meddled, pausing>>

-----------------------------------------------------------------------------
(* Operators. *)

(* update_scheduled_research_job_status, for pause, resume and bootstrap. *)
set_scheduled_research_job_status(enabled, status, next) ==
    /\ job' = [enabled |-> enabled, status |-> status, next |-> next,
               backoff |-> Null, failures |-> job.failures]
    /\ meddled' = (meddled \/ in_progress)
    /\ pausing' = IF enabled THEN "no" ELSE IF in_progress THEN "busy" ELSE "idle"
    /\ UNCHANGED worker

Pauses == set_scheduled_research_job_status(FALSE, "PAUSED", Null)
Resumes == set_scheduled_research_job_status(TRUE, "ENABLED", 0)

(* The safe bootstrap turns an existing job on or off, *)
BootstrapSwitches(on) ==
    /\ job.enabled # on
    /\ set_scheduled_research_job_status(
          on, IF on THEN "ENABLED" ELSE "DISABLED", IF on THEN 0 ELSE Null)

(* or replaces its definition and forgets its failures. *)
update_scheduled_research_job_definition(on) ==
    /\ job' = [enabled |-> on, status |-> IF on THEN "ENABLED" ELSE "DISABLED",
               next |-> IF on THEN 0 ELSE Null, backoff |-> Null, failures |-> 0]
    /\ meddled' = (meddled \/ in_progress)
    /\ pausing' = IF on THEN "no" ELSE IF in_progress THEN "busy" ELSE "idle"
    /\ UNCHANGED worker

reset_scheduled_research_job_failures ==
    /\ job' = [enabled  |-> job.enabled /\ job.status # "AUTO_PAUSED",
               status   |-> IF job.status = "AUTO_PAUSED" THEN "PAUSED"
                            ELSE IF job.status \in {"BACKING_OFF", "ERROR"} THEN "ENABLED"
                            ELSE job.status,
               next     |-> IF job.status \in {"BACKING_OFF", "ERROR"} /\ job.enabled
                            THEN 0 ELSE job.next,
               backoff  |-> Null,
               failures |-> 0]
    /\ UNCHANGED <<worker, meddled, pausing>>

Operator ==
    \/ Pauses
    \/ Resumes
    \/ \E on \in BOOLEAN : BootstrapSwitches(on) \/ update_scheduled_research_job_definition(on)
    \/ reset_scheduled_research_job_failures

Work(w) ==
    \/ Claims(w)
    \/ Skips(w)
    \/ \E failed \in BOOLEAN : Finishes(w, failed)
    \/ Abandons(w)

Next ==
    \/ TimePasses
    \/ \E w \in Runners : RunnerLists(w)
    \/ \E w \in Requests : RequestReads(w)
    \/ \E w \in Workers : Work(w)
    \/ Operator

Spec == Init /\ [][Next]_vars

(* Time goes on, a runner's loop lists what is due and works through what  *)
(* it listed, an execution comes to its end, and a runner that keeps       *)
(* coming back is not stopped before its claim every time.                 *)
LiveSpec ==
    /\ Spec
    /\ WF_vars(TimePasses)
    /\ \A w \in Runners :
          /\ WF_vars(RunnerLists(w))
          /\ SF_vars(Claims(w))
          /\ WF_vars(Skips(w) \/ \E failed \in BOOLEAN : Finishes(w, failed))

-----------------------------------------------------------------------------
(* Properties. *)

(* Every column and every worker's copy of the claimed row has its type. *)
TypeOK ==
    /\ job \in [enabled : BOOLEAN, status : Status, next : Int, backoff : Int,
                failures : 0..Saturation]
    /\ worker \in [Workers -> [pc : {"idle", "listed", "running"}, left : 0..RunsPerTick,
                               enabled : BOOLEAN, failures : 0..Saturation]]
    /\ meddled \in BOOLEAN
    /\ pausing \in {"no", "idle", "busy"}

(* Unless an operator wrote the job's status during one of its runs, no    *)
(* two runs of the job overlap, however many runners list it and however   *)
(* many requests ask for it.                                               *)
OneRun ==
    ~meddled => \A v, w \in Workers : running(v) /\ running(w) => v = w

(* A job that a runner would pick up has a time for its next run: no       *)
(* sequence of failures, resets, pauses and late completions leaves it     *)
(* enabled and forgotten.                                                  *)
EnabledIsTimed == job.enabled => job.next # Null

(* A job paused while nothing ran is not started by a runner until an      *)
(* operator enables it, whatever runners had listed it before and whatever *)
(* run-once requests write in the meantime.                                *)
PauseHolds ==
    [][\A w \in Runners : pausing = "idle" => running(w) \/ ~running(w)']_vars

(* An enabled job that waits for its turn gets it, or is disabled. *)
EnabledJobsRun ==
    (job.enabled /\ job.status \in Schedulable) ~> (job.status = "RUNNING" \/ ~job.enabled)

-----------------------------------------------------------------------------
(* The inductive strengthening. *)

(* While no operator meddles, the row says RUNNING for whoever runs; after *)
(* a pause that interrupted nothing, the row and every claimed copy of it  *)
(* are disabled and every run was asked for.                               *)
RunEvidence == ~meddled => \A w \in Workers : running(w) => job.status = "RUNNING"
PauseEvidence ==
    pausing = "idle" =>
        /\ ~job.enabled
        /\ \A w \in Workers : running(w) => w \in Requests /\ ~worker[w].enabled

IInv == TypeOK /\ OneRun /\ EnabledIsTimed /\ RunEvidence /\ PauseEvidence
=============================================================================
