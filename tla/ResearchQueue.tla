---------------------------- MODULE ResearchQueue ----------------------------
(***************************************************************************)
(* The AI Lab's durable queue: the steps of one research run, the job row   *)
(* that makes each step restartable, and the processes that drain it.       *)
(*                                                                         *)
(* Three kinds of process execute steps: the scheduler's ai_lab_execution   *)
(* job (one instance, no run lease, recovers stale jobs before each batch), *)
(* the /worker/lgbm/schedule endpoint (leased) and the /worker/lgbm         *)
(* endpoint (no lease).  All of them go through execute_next_step: claim    *)
(* and commit, run the adapter with no lock held, then persist.  The result *)
(* row is inserted with the step's closing status and adds no state here.   *)
(*                                                                         *)
(* A database session keeps the rows it has loaded (expire_on_commit is     *)
(* False, and neither session.get nor SELECT ... FOR UPDATE refreshes a     *)
(* loaded row).  So what a worker tests when it persists is the step, the   *)
(* job and the run as they were when it claimed: `w' holds those copies.    *)
(*                                                                         *)
(* One flag, `old', stands for both ages recover_stale_jobs looks at: a     *)
(* claim stamps started_at and heartbeat_at together and nothing in these   *)
(* processes renews the heartbeat afterwards.                               *)
(***************************************************************************)
EXTENDS Naturals, FiniteSets

CONSTANTS
    Scheduler,      \* the scheduler container's execution job
    Leased,         \* calls of the leased /schedule endpoint
    Unleased,       \* calls of the plain /worker/lgbm endpoint
    NumSteps,       \* the run's planned steps, in step_index order
    Invalid,        \* steps whose config row is missing
    MaxRetry,       \* MAX_RETRY_ATTEMPTS
    BatchSize,      \* max_steps
    MaxFaults,      \* bound: crashes and failed result writes
    NoOne           \* the lease table has no row for the run

Workers == {Scheduler} \cup Leased \cup Unleased
Steps == 1..NumSteps

ASSUME QueueAssumption ==
    /\ NumSteps \in Nat \ {0} /\ MaxRetry \in Nat \ {0} /\ BatchSize \in Nat \ {0}
    /\ MaxFaults \in Nat
    /\ Invalid \subseteq 1..NumSteps
    /\ Scheduler \notin Leased \cup Unleased /\ Leased \cap Unleased = {}
    /\ NoOne \notin Leased

VARIABLES
    run,        \* the run row's status
    step,       \* step[s]: the step row's status
    job,        \* job[s]: status and attempt of the step's job row
    old,        \* old[s]: started_at / heartbeat_at is behind the cutoff
    lease,      \* the run's AIWorkerLease row
    w,          \* w[x]: where worker x is and the rows its session holds
    late,       \* history: steps whose live attempt recovery gave away
    faults

vars == <<run, step, job, old, lease, w, late, faults>>

RunStates == {"PLANNING", "RUNNING", "PAUSED", "CANCELLED"}
Executable == {"PLANNING", "RUNNING"}
TerminalStep == {"SUCCEEDED", "FAILED", "SKIPPED"}
StepStates == {"PENDING", "RUNNING"} \cup TerminalStep
TerminalJob == {"SUCCEEDED", "FAILED", "CANCELLED"}
ClaimableJob == {"QUEUED", "RETRY_WAIT", "STALE"}
\* NONE: ensure_job has not inserted the row yet.
JobStates == {"NONE", "RUNNING"} \cup TerminalJob \cup ClaimableJob
\* TRANSIENT is a FAILED result whose message is_retryable_error recognises.
Outcomes == {"SUCCEEDED", "INSUFFICIENT_DATA", "FAILED", "TRANSIENT"}

Idle == [pc |-> "idle", run |-> "none", step |-> 0, attempt |-> 0,
         left |-> 0, clean |-> TRUE]

Init ==
    /\ run = "PLANNING"                          \* plan_run has just committed
    /\ step = [s \in Steps |-> "PENDING"]
    /\ job = [s \in Steps |-> [status |-> "NONE", attempt |-> 0]]
    /\ old = [s \in Steps |-> FALSE]
    /\ lease = [holder |-> NoOne, live |-> FALSE]
    /\ w = [x \in Workers |-> Idle]
    /\ late = {}
    /\ faults = 0

-----------------------------------------------------------------------------
(* Starting and ending a batch.                                             *)

Pending == {s \in Steps : step[s] = "PENDING"}

\* acquire_worker_lease: every call has a token of its own, so a row left by
\* a crashed call blocks until it expires.
LeaseFree == lease.holder = NoOne \/ ~lease.live

Started(x) == [w EXCEPT ![x] = [Idle EXCEPT !.pc = "ready", !.run = run, !.left = BatchSize]]

\* The scheduler's queue scan joins runs with PENDING steps; the run row is
\* then loaded again by run_lgbm_scheduler, which refuses other statuses.
SchedulerBegins ==
    /\ w[Scheduler].pc = "idle"
    /\ run \in Executable
    /\ Pending # {}
    /\ w' = Started(Scheduler)
    /\ UNCHANGED <<run, step, job, old, lease, late, faults>>

UnleasedBegins(x) ==
    /\ w[x].pc = "idle"
    /\ run \in Executable
    /\ w' = Started(x)
    /\ UNCHANGED <<run, step, job, old, lease, late, faults>>

LeasedBegins(x) ==
    /\ w[x].pc = "idle"
    /\ run \in Executable
    /\ LeaseFree
    /\ lease' = [holder |-> x, live |-> TRUE]
    /\ w' = Started(x)
    /\ UNCHANGED <<run, step, job, old, late, faults>>

\* release_worker_lease deletes only the caller's own row.
LeaseWithout(x) == IF lease.holder = x THEN [holder |-> NoOne, live |-> FALSE] ELSE lease

Stops(x) ==
    /\ w' = [w EXCEPT ![x] = Idle]
    /\ lease' = LeaseWithout(x)

BatchEnds(x) ==
    /\ w[x].pc = "ready" /\ w[x].left = 0
    /\ Stops(x)
    /\ UNCHANGED <<run, step, job, old, late, faults>>

\* The leased endpoint's next iteration: only after a batch of successes, and
\* only if renew_worker_lease still finds its own token in the row.
NextBatch(x) ==
    /\ w[x].pc = "ready" /\ w[x].left = 0 /\ w[x].clean
    /\ lease.holder = x
    /\ lease' = [lease EXCEPT !.live = TRUE]
    /\ w' = [w EXCEPT ![x].left = BatchSize]
    /\ UNCHANGED <<run, step, job, old, late, faults>>

LeaseExpires ==
    /\ lease.holder # NoOne /\ lease.live
    /\ lease' = [lease EXCEPT !.live = FALSE]
    /\ UNCHANGED <<run, step, job, old, w, late, faults>>

-----------------------------------------------------------------------------
(* execute_next_step: the claim transaction.                                *)

IsNext(s) == s \in Pending /\ \A t \in Pending : s <= t

\* ensure_job inserts a missing row as QUEUED; claim_job tests the status.
Claimable_NotStale(s) == job[s].status \in {"NONE", "QUEUED", "RETRY_WAIT"}
Claimable(s) == job[s].status \in ClaimableJob \cup {"NONE"}

\* claim_next_step found nothing, or the step's job is terminal or taken: the
\* transaction is rolled back (a claimed step is PENDING again), the session
\* drops its copies and the batch is over.
ClaimsNothing(x) ==
    /\ w[x].pc = "ready" /\ w[x].left > 0
    /\ \/ Pending = {}
       \/ \E s \in Steps \ Invalid : IsNext(s) /\ ~Claimable(s)
    /\ IF x \in Leased /\ w[x].left < BatchSize
       THEN /\ w' = [w EXCEPT ![x].left = 0, ![x].run = run]
            /\ UNCHANGED lease
       ELSE Stops(x)
    /\ UNCHANGED <<run, step, job, old, late, faults>>

\* The run row is written from the session's copy: PLANNING becomes RUNNING
\* whatever another session has stored since, a cancellation included.
RunAfterClaim_Always(x) == "RUNNING"
RunAfterClaim(x) == IF w[x].run = "PLANNING" THEN "RUNNING" ELSE run

\* The claimed step's config cannot be loaded: FAILED, without a job.  A step
\* without an action is another matter (authorize_run_action raises on it and
\* it stays PENDING), but plan_run stores an action in every step.
ClaimsInvalid(x, s) ==
    /\ w[x].pc = "ready" /\ w[x].left > 0
    /\ IsNext(s) /\ s \in Invalid
    /\ step' = [step EXCEPT ![s] = "FAILED"]
    /\ run' = RunAfterClaim(x)
    /\ w' = [w EXCEPT ![x].left = @ - 1, ![x].clean = FALSE,
                      ![x].run = IF @ = "PLANNING" THEN "RUNNING" ELSE @]
    /\ UNCHANGED <<job, old, lease, late, faults>>

Claims_Unmarked(x, s) ==
    /\ w[x].pc = "ready" /\ w[x].left > 0
    /\ IsNext(s) /\ s \notin Invalid
    /\ Claimable(s)
    /\ w' = [w EXCEPT ![x].pc = "exec", ![x].step = s, ![x].attempt = job[s].attempt + 1]
    /\ UNCHANGED <<run, step, job, old, lease, late, faults>>
Claims(x, s) ==
    /\ w[x].pc = "ready" /\ w[x].left > 0
    /\ IsNext(s) /\ s \notin Invalid
    /\ Claimable(s)
    /\ step' = [step EXCEPT ![s] = "RUNNING"]
    /\ job' = [job EXCEPT ![s] = [status |-> "RUNNING", attempt |-> @.attempt + 1]]
    /\ old' = [old EXCEPT ![s] = FALSE]
    /\ run' = RunAfterClaim(x)
    /\ w' = [w EXCEPT ![x].pc = "exec", ![x].step = s, ![x].attempt = job[s].attempt + 1,
                      ![x].run = IF @ = "PLANNING" THEN "RUNNING" ELSE @]
    /\ UNCHANGED <<lease, late, faults>>

-----------------------------------------------------------------------------
(* execute_next_step: the adapter has returned and the result is persisted. *)

ShouldRetry_OffByOne(x, o) == o = "TRANSIENT" /\ w[x].attempt <= MaxRetry
ShouldRetry(x, o) == o = "TRANSIENT" /\ w[x].attempt < MaxRetry

StepAfter(o) ==
    CASE o = "SUCCEEDED" -> "SUCCEEDED"
      [] o = "INSUFFICIENT_DATA" -> "SKIPPED"
      [] o \in {"FAILED", "TRANSIENT"} -> "FAILED"

JobAfter(o) == IF o \in {"SUCCEEDED", "INSUFFICIENT_DATA"} THEN "SUCCEEDED" ELSE "FAILED"

\* record_result, complete_job and the retry's reset are one transaction.  Its
\* guards (step not terminal, job owned by this worker) read the session's own
\* copies of both rows, which say RUNNING and mine, so they never refuse.
StepRowAfter(x, o) == IF ShouldRetry(x, o) THEN "PENDING" ELSE StepAfter(o)
JobRowAfter(x, o) == IF ShouldRetry(x, o) THEN "RETRY_WAIT" ELSE JobAfter(o)

Persists(x, o) ==
    LET s == w[x].step IN
    /\ w[x].pc = "exec"
    /\ step' = [step EXCEPT ![s] = StepRowAfter(x, o)]
    /\ job' = [job EXCEPT ![s].status = JobRowAfter(x, o)]
    /\ w' = [w EXCEPT ![x].pc = "ready", ![x].step = 0, ![x].attempt = 0,
                      ![x].left = @ - 1, ![x].clean = @ /\ o = "SUCCEEDED"]
    /\ UNCHANGED <<run, old, lease, late, faults>>

\* The result could not be stored: everything is rolled back and the job is
\* closed in a second transaction, without the owner test and best effort.
\* The step row stays RUNNING; ExecutionBatchError ends the batch.
PersistFails(x) ==
    LET s == w[x].step IN
    /\ w[x].pc = "exec" /\ faults < MaxFaults
    /\ faults' = faults + 1
    /\ \/ job' = [job EXCEPT ![s].status = "FAILED"]
       \/ UNCHANGED job
    /\ Stops(x)
    /\ UNCHANGED <<run, step, old, late>>

\* The process dies (a deploy, the OOM killer, a dropped request).
Crashes(x) ==
    /\ w[x].pc # "idle" /\ faults < MaxFaults
    /\ faults' = faults + 1
    /\ w' = [w EXCEPT ![x] = Idle]
    /\ UNCHANGED <<run, step, job, old, lease, late>>

-----------------------------------------------------------------------------
(* recover_stale_jobs, run at the start of every scheduler tick.            *)

\* stale_after_seconds pass since the step was claimed.
GrowsOld(s) ==
    /\ step[s] = "RUNNING" /\ ~old[s]
    /\ old' = [old EXCEPT ![s] = TRUE]
    /\ UNCHANGED <<run, step, job, lease, w, late, faults>>

StaleJobs == {s \in Steps : job[s].status = "RUNNING" /\ old[s]}
\* A step older than the cutoff whose job is not running either.
Orphans_AnyStatus == {s \in Steps : old[s] /\ job[s].status # "RUNNING"}
Orphans == {s \in Steps : step[s] = "RUNNING" /\ old[s] /\ job[s].status # "RUNNING"}
Executing(x, s) == w[x].pc = "exec" /\ w[x].step = s
OutOfAttempts(s) == job[s].attempt >= MaxRetry

StepRecovered(s) ==
    IF s \in StaleJobs /\ step[s] = "RUNNING"
    THEN IF OutOfAttempts(s) THEN "FAILED" ELSE "PENDING"
    ELSE IF s \in Orphans THEN "PENDING" ELSE step[s]

JobRecovered(s) ==
    IF s \in StaleJobs
    THEN [job[s] EXCEPT !.status = IF OutOfAttempts(s) THEN "FAILED" ELSE "STALE"]
    ELSE job[s]

\* max_instances = 1: recovery and the batch are one job, so the scheduler
\* never recovers while it is itself executing.
SchedulerRecovers ==
    /\ w[Scheduler].pc = "idle"
    /\ StaleJobs \cup Orphans # {}
    /\ job' = [s \in Steps |-> JobRecovered(s)]
    /\ step' = [s \in Steps |-> StepRecovered(s)]
    /\ late' = late \cup {s \in StaleJobs \cup Orphans : \E x \in Workers : Executing(x, s)}
    /\ UNCHANGED <<run, old, lease, w, faults>>

-----------------------------------------------------------------------------
(* The operator.                                                            *)

OperatorSets(from, to) ==
    /\ run \in from
    /\ run' = to
    /\ UNCHANGED <<step, job, old, lease, w, late, faults>>

Pause == OperatorSets({"PLANNING", "RUNNING"}, "PAUSED")
Resume == OperatorSets({"PAUSED"}, "RUNNING")
Cancel == OperatorSets({"PLANNING", "RUNNING", "PAUSED"}, "CANCELLED")

Next ==
    \/ SchedulerBegins \/ SchedulerRecovers \/ LeaseExpires
    \/ Pause \/ Resume \/ Cancel
    \/ \E x \in Unleased : UnleasedBegins(x)
    \/ \E x \in Leased : LeasedBegins(x) \/ NextBatch(x)
    \/ \E x \in Workers :
         \/ BatchEnds(x) \/ ClaimsNothing(x)
         \/ \E s \in Steps : ClaimsInvalid(x, s) \/ Claims(x, s)
         \/ \E o \in Outcomes : Persists(x, o)
         \/ PersistFails(x) \/ Crashes(x)
    \/ \E s \in Steps : GrowsOld(s)

Spec == Init /\ [][Next]_vars

(***************************************************************************)
(* Fairness: the scheduler's job fires on an interval trigger for as long   *)
(* as the container runs, a started batch is an ordinary loop, an adapter   *)
(* returns or raises, and time passes.  Nothing is assumed of endpoint      *)
(* calls starting, of the operator, or of faults.                           *)
(***************************************************************************)
Fairness ==
    /\ WF_vars(SchedulerBegins) /\ WF_vars(SchedulerRecovers)
    /\ \A x \in Workers :
         /\ WF_vars(\/ BatchEnds(x) \/ ClaimsNothing(x)
                    \/ \E s \in Steps : ClaimsInvalid(x, s) \/ Claims(x, s))
         /\ WF_vars(\E o \in Outcomes : Persists(x, o))
    /\ \A s \in Steps : WF_vars(GrowsOld(s))

FairSpec == Spec /\ Fairness

-----------------------------------------------------------------------------
(* Properties.                                                              *)

TypeOK ==
    /\ run \in RunStates
    /\ step \in [Steps -> StepStates]
    /\ job \in [Steps -> [status : JobStates, attempt : Nat]]
    /\ old \in [Steps -> BOOLEAN]
    /\ lease \in [holder : Leased \cup {NoOne}, live : BOOLEAN]
    /\ w \in [Workers -> [pc : {"idle", "ready", "exec"}, run : Executable \cup {"none", "PAUSED", "CANCELLED"},
                          step : 0..NumSteps, attempt : Nat, left : 0..BatchSize, clean : BOOLEAN]]
    /\ late \subseteq Steps
    /\ faults \in 0..MaxFaults

\* Two processes run one step at the same time only if recovery took the step
\* from an attempt that was still alive: the claim's row lock, the job's
\* claimable states and the single scheduler instance leave no other way.
ExclusiveUnlessLate ==
    \A s \in Steps \ late : Cardinality({x \in Workers : Executing(x, s)}) <= 1

\* The retry budget.  A step no live attempt was taken from is attempted at
\* most MAX_RETRY_ATTEMPTS times; an overtaken attempt that fails transiently
\* puts the step back on its own stale count, so the general bound is the
\* budget plus one claim for each attempt below it.
AttemptsBounded ==
    \A s \in Steps :
        job[s].attempt <= IF s \in late THEN 2 * MaxRetry - 1 ELSE MaxRetry

\* A finished step is never reopened or re-decided, unless its attempt had
\* been given away while it was alive.
FinishedStepStays ==
    [][\A s \in Steps \ late' : step[s] \in TerminalStep => step'[s] = step[s]]_vars

\* A step put back to PENDING by the orphan sweep although a failed result
\* write has already closed its job: claim_job will refuse it for ever.
Wedged(s) == step[s] = "PENDING" /\ job[s].status \in TerminalJob

\* If the run stays executable, crashes, lost results and transient failures
\* notwithstanding, every step is finished, or the queue stands before a
\* wedged one.
QueueDrains ==
    <>[](run \in Executable) =>
        <>((\A s \in Steps : step[s] \in TerminalStep) \/ (\E s \in Steps : Wedged(s)))

\* A session that loaded the run before its first claim and has claimed nothing
\* yet: its first claim will write RUNNING over whatever is stored.
StaleCopy == \E x \in Workers : w[x].run = "PLANNING"

\* When cancelling takes hold.  A claim does not look at the run's row again, so
\* a cancelled run is put back to RUNNING by a session that still holds it as
\* PLANNING (claim_next_step), and workers go on with their batches.  Those are
\* the only ways: cancelled with no such session left, the run stays cancelled,
\* no new batch starts, and the batches under way come to an end.
CancelTakesHold ==
    (run = "CANCELLED" /\ ~StaleCopy)
        ~> [](run = "CANCELLED" /\ \A x \in Workers : w[x].pc = "idle")
=============================================================================
