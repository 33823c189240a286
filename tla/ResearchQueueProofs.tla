------------------------- MODULE ResearchQueueProofs -------------------------
(***************************************************************************)
(* Theorems about ResearchQueue for any number of steps, endpoint calls,   *)
(* faults and any retry budget.                                            *)
(***************************************************************************)
EXTENDS ResearchQueue, FiniteSetTheorems, TLAPS

\* A worker in the adapter has a step of the run, a place left in its batch and
\* an attempt that the job row has counted.
AttemptInHand ==
    \A x \in Workers : w[x].pc = "exec" =>
        /\ w[x].step \in Steps /\ w[x].left >= 1
        /\ w[x].attempt >= 1 /\ w[x].attempt <= job[w[x].step].attempt

\* Every claim counts: no two attempts at a step have the same number.
AttemptsDistinct ==
    \A x, y \in Workers, s \in Steps :
        Executing(x, s) /\ Executing(y, s) /\ w[x].attempt = w[y].attempt => x = y

\* Unless recovery gave its step away, an executing worker still owns both rows.
OwnsRows ==
    \A s \in Steps \ late, x \in Workers : Executing(x, s) =>
        step[s] = "RUNNING" /\ job[s].status = "RUNNING" /\ w[x].attempt = job[s].attempt

\* A step nobody lost can be claimed only below the budget.
WithinRetries ==
    \A s \in Steps \ late :
        job[s].attempt <= MaxRetry /\ (Claimable(s) => job[s].attempt < MaxRetry)

\* The attempts below the budget that are still running.
Overtaken(s) == {a \in 1..(MaxRetry - 1) : \E x \in Workers : Executing(x, s) /\ w[x].attempt = a}

\* Each claim of step s at or beyond the budget is paid for by an overtaken attempt that
\* came back with a transient failure.
PaidFor(s) ==
    job[s].attempt >= MaxRetry =>
        job[s].attempt + (IF Claimable(s) THEN 1 ELSE 0) + Cardinality(Overtaken(s))
            <= 2 * MaxRetry - 1

ClaimsPaidFor == \A s \in Steps : PaidFor(s)

QInv ==
    /\ TypeOK
    /\ AttemptInHand
    /\ AttemptsDistinct
    /\ OwnsRows
    /\ WithinRetries
    /\ ClaimsPaidFor

-----------------------------------------------------------------------------
(* Facts about the sets the invariant counts.                               *)

\* There are at most MaxRetry - 1 attempts below the budget, so at most that
\* many of them are running.
LEMMA OvertakenIsFinite ==
    ASSUME NEW s \in Steps
    PROVE  /\ IsFiniteSet(Overtaken(s))
           /\ Cardinality(Overtaken(s)) \in Nat
           /\ Cardinality(Overtaken(s)) <= MaxRetry - 1
<1>1. 1 \in Int /\ MaxRetry - 1 \in Int /\ MaxRetry - 1 >= 0
  BY QueueAssumption
<1>2. IsFiniteSet(1..(MaxRetry - 1)) /\ Cardinality(1..(MaxRetry - 1)) = MaxRetry - 1
  BY <1>1, FS_Interval
<1>3. Overtaken(s) \subseteq 1..(MaxRetry - 1)
  BY DEF Overtaken
<1>4. /\ IsFiniteSet(Overtaken(s))
      /\ Cardinality(Overtaken(s)) <= Cardinality(1..(MaxRetry - 1))
  BY <1>2, <1>3, FS_Subset
<1>5. Cardinality(Overtaken(s)) \in Nat
  BY <1>4, FS_CardinalityType
<1> QED
  BY <1>2, <1>4, <1>5

\* The same in the next state.
LEMMA OvertakenIsFiniteNext ==
    ASSUME NEW s \in Steps
    PROVE  /\ IsFiniteSet(Overtaken(s)')
           /\ Cardinality(Overtaken(s)') \in Nat
           /\ Cardinality(Overtaken(s)') <= MaxRetry - 1
<1>1. 1 \in Int /\ MaxRetry - 1 \in Int /\ MaxRetry - 1 >= 0
  BY QueueAssumption
<1>2. IsFiniteSet(1..(MaxRetry - 1)) /\ Cardinality(1..(MaxRetry - 1)) = MaxRetry - 1
  BY <1>1, FS_Interval
<1>3. Overtaken(s)' \subseteq 1..(MaxRetry - 1)
  BY DEF Overtaken
<1>4. /\ IsFiniteSet(Overtaken(s)')
      /\ Cardinality(Overtaken(s)') <= Cardinality(1..(MaxRetry - 1))
  BY <1>2, <1>3, FS_Subset
<1>5. Cardinality(Overtaken(s)') \in Nat
  BY <1>4, FS_CardinalityType
<1> QED
  BY <1>2, <1>4, <1>5

\* No attempt starts in a step that leaves the executing workers where they are
\* or takes them out of the adapter.
NoNewAttempt ==
    \A x \in Workers : w'[x].pc = "exec" =>
        /\ w[x].pc = "exec" /\ w'[x].step = w[x].step
        /\ w'[x].attempt = w[x].attempt /\ w'[x].left = w[x].left

\* If no attempt starts, no more attempts are overtaken than before.
LEMMA OvertakenShrinks ==
    ASSUME NEW s \in Steps, NoNewAttempt
    PROVE  Cardinality(Overtaken(s)') <= Cardinality(Overtaken(s))
<1>1. Overtaken(s)' \subseteq Overtaken(s)
  BY DEF Overtaken, NoNewAttempt, Executing
<1> QED
  BY <1>1, OvertakenIsFinite, FS_Subset

\* The accounting of a step survives whatever starts no attempt, counts no
\* attempt and makes the step claimable only below the budget.
LEMMA PaidForKept ==
    ASSUME QInv, NEW s \in Steps, NoNewAttempt,
           job'[s].attempt = job[s].attempt,
           Claimable(s)' => Claimable(s) \/ job[s].attempt < MaxRetry
    PROVE  PaidFor(s)'
<1>1. PaidFor(s)
  BY DEF QInv, ClaimsPaidFor
<1>2. Cardinality(Overtaken(s)') <= Cardinality(Overtaken(s))
  BY OvertakenShrinks
<1>3. Cardinality(Overtaken(s)) \in Nat /\ Cardinality(Overtaken(s)') \in Nat
  BY OvertakenIsFinite, OvertakenIsFiniteNext
<1>4. job[s].attempt \in Nat /\ MaxRetry \in Nat
  BY QueueAssumption DEF QInv, TypeOK
<1> DEFINE c == Cardinality(Overtaken(s))
           d == Cardinality(Overtaken(s)')
           p == Claimable(s)
           q == Claimable(s)'
<1>5. /\ PaidFor(s) <=> (job[s].attempt >= MaxRetry =>
            job[s].attempt + (IF p THEN 1 ELSE 0) + c <= 2 * MaxRetry - 1)
      /\ PaidFor(s)' <=> (job'[s].attempt >= MaxRetry =>
            job'[s].attempt + (IF q THEN 1 ELSE 0) + d <= 2 * MaxRetry - 1)
  BY DEF PaidFor
<1> HIDE DEF c, d, p, q
<1>6. c \in Nat /\ d \in Nat /\ d <= c
  BY <1>2, <1>3 DEF c, d
<1>7. q => p \/ job[s].attempt < MaxRetry
  BY DEF p, q
<1> QED
  BY <1>1, <1>4, <1>5, <1>6, <1>7

\* The other parts of the invariant survive a step that starts and counts no
\* attempt, if it keeps the rows of the attempts still owned and lets nobody
\* claim a step that is out of attempts.
LEMMA OwnersKept ==
    ASSUME QInv, TypeOK', NoNewAttempt, late \subseteq late',
           \A s \in Steps : job'[s].attempt = job[s].attempt,
           \A s \in Steps \ late' : Claimable(s)' => Claimable(s) \/ job[s].attempt < MaxRetry,
           \A s \in Steps \ late', x \in Workers : Executing(x, s)' =>
               step'[s] = "RUNNING" /\ job'[s].status = "RUNNING"
    PROVE  AttemptInHand' /\ AttemptsDistinct' /\ OwnsRows' /\ WithinRetries'
<1>1. AttemptInHand'
  BY DEF QInv, AttemptInHand, NoNewAttempt
<1>2. AttemptsDistinct'
  BY DEF QInv, AttemptsDistinct, NoNewAttempt, Executing
<1>3. OwnsRows'
  BY DEF QInv, OwnsRows, NoNewAttempt, Executing
<1>4. WithinRetries'
  BY DEF QInv, WithinRetries
<1> QED
  BY <1>1, <1>2, <1>3, <1>4

\* Steps that touch no step or job row keep the invariant.
LEMMA RowsUntouched ==
    ASSUME QInv, TypeOK', NoNewAttempt, UNCHANGED <<step, job, late>>
    PROVE  QInv'
<1>1. \A s \in Steps : Claimable(s)' <=> Claimable(s)
  BY DEF Claimable
<1>2. \A s \in Steps \ late', x \in Workers : Executing(x, s)' =>
               step'[s] = "RUNNING" /\ job'[s].status = "RUNNING"
  BY DEF QInv, OwnsRows, NoNewAttempt, Executing
<1>3. AttemptInHand' /\ AttemptsDistinct' /\ OwnsRows' /\ WithinRetries'
  BY <1>1, <1>2, OwnersKept
<1>4. ClaimsPaidFor'
  BY <1>1, PaidForKept DEF ClaimsPaidFor
<1> QED
  BY <1>3, <1>4 DEF QInv

-----------------------------------------------------------------------------
(* The actions that leave the step and job rows alone.                      *)

\* A row a worker can have.
WorkerRow == [pc : {"idle", "ready", "exec"}, run : Executable \cup {"none", "PAUSED", "CANCELLED"},
              step : 0..NumSteps, attempt : Nat, left : 0..BatchSize, clean : BOOLEAN]

\* Idle workers, and workers that start a batch, have such a row.
LEMMA IdleRow ==
    ASSUME TypeOK, NEW x \in Workers
    PROVE  Idle \in WorkerRow /\ Started(x) \in [Workers -> WorkerRow]
<1>1. Idle \in WorkerRow
  BY QueueAssumption DEF Idle, WorkerRow
<1>2. [Idle EXCEPT !.pc = "ready", !.run = run, !.left = BatchSize] \in WorkerRow
  <2>1. run \in Executable \cup {"none", "PAUSED", "CANCELLED"}
    BY DEF TypeOK, RunStates, Executable
  <2>2. BatchSize \in 0..BatchSize
    BY QueueAssumption
  <2> QED
    BY <1>1, <2>1, <2>2 DEF WorkerRow
<1>3. w \in [Workers -> WorkerRow]
  BY DEF TypeOK, WorkerRow
<1> QED
  BY <1>1, <1>2, <1>3 DEF Started

\* Starting a batch, whoever starts it.
LEMMA BeginsInv ==
    ASSUME QInv, NEW x \in Workers, w' = Started(x),
           UNCHANGED <<run, step, job, old, late, faults>>,
           lease' \in [holder : Leased \cup {NoOne}, live : BOOLEAN]
    PROVE  QInv'
<1>1. w' \in [Workers -> WorkerRow]
  BY IdleRow DEF QInv
<1>2. TypeOK'
  BY <1>1 DEF QInv, TypeOK, WorkerRow
<1>3. NoNewAttempt
  BY DEF NoNewAttempt, Started, Idle, QInv, TypeOK
<1> QED
  BY <1>2, <1>3, RowsUntouched

\* Stopping, whoever stops, keeps the worker rows and the lease well typed.
LEMMA StopsType ==
    ASSUME QInv, NEW x \in Workers, Stops(x)
    PROVE  /\ w' \in [Workers -> WorkerRow]
           /\ lease' \in [holder : Leased \cup {NoOne}, live : BOOLEAN]
           /\ NoNewAttempt
           /\ w'[x].pc = "idle"
<1>1. w \in [Workers -> WorkerRow] /\ Idle \in WorkerRow
  BY IdleRow DEF QInv, TypeOK, WorkerRow
<1>2. w' \in [Workers -> WorkerRow] /\ w'[x] = Idle
  BY <1>1 DEF Stops
<1>3. lease' \in [holder : Leased \cup {NoOne}, live : BOOLEAN]
  BY DEF Stops, LeaseWithout, QInv, TypeOK
<1>4. NoNewAttempt
  BY <1>1 DEF Stops, NoNewAttempt, Idle
<1> QED
  BY <1>2, <1>3, <1>4 DEF Idle

\* The scheduler starts a batch of a run its scan found.
LEMMA SchedulerBeginsInv == QInv /\ SchedulerBegins => QInv'
BY BeginsInv DEF SchedulerBegins, Workers, QInv, TypeOK

\* The plain endpoint starts a batch without a lease.
LEMMA UnleasedBeginsInv ==
    ASSUME NEW x \in Unleased
    PROVE  QInv /\ UnleasedBegins(x) => QInv'
BY BeginsInv DEF UnleasedBegins, Workers, QInv, TypeOK

\* The leased endpoint takes the lease and starts.
LEMMA LeasedBeginsInv ==
    ASSUME NEW x \in Leased
    PROVE  QInv /\ LeasedBegins(x) => QInv'
BY BeginsInv DEF LeasedBegins, Workers

\* A batch that has used its places ends.
LEMMA BatchEndsInv ==
    ASSUME NEW x \in Workers
    PROVE  QInv /\ BatchEnds(x) => QInv'
<1> SUFFICES ASSUME QInv, BatchEnds(x) PROVE QInv'
  OBVIOUS
<1>1. Stops(x) /\ UNCHANGED <<run, step, job, old, late, faults>>
  BY DEF BatchEnds
<1>2. TypeOK' /\ NoNewAttempt
  BY <1>1, StopsType DEF QInv, TypeOK, WorkerRow
<1> QED
  BY <1>1, <1>2, RowsUntouched

\* A leased call whose lease is still its own goes on with another batch.
LEMMA NextBatchInv ==
    ASSUME NEW x \in Leased
    PROVE  QInv /\ NextBatch(x) => QInv'
<1> SUFFICES ASSUME QInv, NextBatch(x) PROVE QInv'
  OBVIOUS
<1>1. w \in [Workers -> WorkerRow] /\ x \in Workers
  BY DEF QInv, TypeOK, WorkerRow, Workers
<1>2. w' = [w EXCEPT ![x].left = BatchSize] /\ w[x].pc = "ready"
  BY DEF NextBatch
<1>3. w' \in [Workers -> WorkerRow] /\ NoNewAttempt
  BY <1>1, <1>2, QueueAssumption DEF WorkerRow, NoNewAttempt
<1>4. lease' \in [holder : Leased \cup {NoOne}, live : BOOLEAN]
  BY DEF NextBatch, QInv, TypeOK
<1>5. TypeOK' /\ UNCHANGED <<step, job, late>>
  BY <1>3, <1>4 DEF NextBatch, QInv, TypeOK, WorkerRow
<1> QED
  BY <1>3, <1>5, RowsUntouched

\* A step that changes no worker starts no attempt.
LEMMA WorkersStay ==
    ASSUME QInv, UNCHANGED <<step, job, late, w>>, TypeOK'
    PROVE  QInv'
<1>1. NoNewAttempt
  BY DEF NoNewAttempt
<1> QED
  BY <1>1, RowsUntouched

\* The lease runs out; its holder does not notice.
LEMMA LeaseExpiresInv == QInv /\ LeaseExpires => QInv'
<1> SUFFICES ASSUME QInv, LeaseExpires PROVE QInv'
  OBVIOUS
<1>1. lease' \in [holder : Leased \cup {NoOne}, live : BOOLEAN]
  BY DEF LeaseExpires, QInv, TypeOK
<1>2. TypeOK' /\ UNCHANGED <<step, job, late, w>>
  BY <1>1 DEF LeaseExpires, QInv, TypeOK
<1> QED
  BY <1>2, WorkersStay

\* Time passes over a claimed step.
LEMMA GrowsOldInv ==
    ASSUME NEW s \in Steps
    PROVE  QInv /\ GrowsOld(s) => QInv'
<1> SUFFICES ASSUME QInv, GrowsOld(s) PROVE QInv'
  OBVIOUS
<1>1. old' \in [Steps -> BOOLEAN]
  BY DEF GrowsOld, QInv, TypeOK
<1>2. TypeOK' /\ UNCHANGED <<step, job, late, w>>
  BY <1>1 DEF GrowsOld, QInv, TypeOK
<1> QED
  BY <1>2, WorkersStay

\* The operator pauses, resumes or cancels the run row only.
LEMMA OperatorInv == QInv /\ (Pause \/ Resume \/ Cancel) => QInv'
<1> SUFFICES ASSUME QInv, Pause \/ Resume \/ Cancel PROVE QInv'
  OBVIOUS
<1>1. TypeOK' /\ UNCHANGED <<step, job, late, w>>
  BY DEF Pause, Resume, Cancel, OperatorSets, QInv, TypeOK, RunStates
<1> QED
  BY <1>1, WorkersStay

\* A claim transaction that is rolled back leaves no trace in the rows.
LEMMA ClaimsNothingInv ==
    ASSUME NEW x \in Workers
    PROVE  QInv /\ ClaimsNothing(x) => QInv'
<1> SUFFICES ASSUME QInv, ClaimsNothing(x) PROVE QInv'
  OBVIOUS
<1>1. UNCHANGED <<run, step, job, old, late, faults>>
  BY DEF ClaimsNothing
<1>2. CASE Stops(x)
  <2>1. TypeOK' /\ NoNewAttempt
    BY <1>1, <1>2, StopsType DEF QInv, TypeOK, WorkerRow
  <2> QED
    BY <1>1, <2>1, RowsUntouched
<1>3. CASE w' = [w EXCEPT ![x].left = 0, ![x].run = run] /\ UNCHANGED lease
  <2>1. w \in [Workers -> WorkerRow] /\ w[x].pc = "ready" /\ run \in RunStates
    BY DEF QInv, TypeOK, WorkerRow, ClaimsNothing
  <2>2. run \in Executable \cup {"none", "PAUSED", "CANCELLED"}
    BY <2>1 DEF RunStates, Executable
  <2>3. [w[x] EXCEPT !.left = 0, !.run = run] \in WorkerRow
    <3>1. 0 \in 0..BatchSize
      BY QueueAssumption
    <3>2. w[x] \in WorkerRow
      BY <2>1
    <3> QED
      BY <2>2, <3>1, <3>2 DEF WorkerRow
  <2>4. w' = [w EXCEPT ![x] = [w[x] EXCEPT !.left = 0, !.run = run]]
    BY <1>3, <2>1 DEF WorkerRow
  <2>5. w' \in [Workers -> WorkerRow]
    BY <2>1, <2>3, <2>4
  <2>6. NoNewAttempt
    BY <1>3, <2>1 DEF WorkerRow, NoNewAttempt
  <2>7. TypeOK'
    BY <1>1, <1>3, <2>5 DEF QInv, TypeOK, WorkerRow
  <2> QED
    BY <1>1, <2>6, <2>7, RowsUntouched
<1> QED
  BY <1>2, <1>3 DEF ClaimsNothing

\* A dead process leaves its rows as they were.
LEMMA CrashesInv ==
    ASSUME NEW x \in Workers
    PROVE  QInv /\ Crashes(x) => QInv'
<1> SUFFICES ASSUME QInv, Crashes(x) PROVE QInv'
  OBVIOUS
<1>1. w' \in [Workers -> WorkerRow] /\ NoNewAttempt
  <2>1. w \in [Workers -> WorkerRow] /\ Idle \in WorkerRow
    BY IdleRow DEF QInv, TypeOK, WorkerRow
  <2> QED
    BY <2>1 DEF Crashes, NoNewAttempt, Idle
<1>2. faults' \in 0..MaxFaults
  BY QueueAssumption DEF Crashes, QInv, TypeOK
<1>3. TypeOK' /\ UNCHANGED <<step, job, late>>
  BY <1>1, <1>2 DEF Crashes, QInv, TypeOK, WorkerRow
<1> QED
  BY <1>1, <1>3, RowsUntouched

-----------------------------------------------------------------------------
(* The actions that write the rows.                                         *)

\* Of the workers executing a step nobody lost, only one exists.
LEMMA SoleExecutor ==
    ASSUME QInv, NEW s \in Steps \ late, NEW x \in Workers, NEW y \in Workers,
           Executing(x, s), Executing(y, s)
    PROVE  x = y
<1>1. w[x].attempt = job[s].attempt /\ w[y].attempt = job[s].attempt
  BY DEF QInv, OwnsRows
<1> QED
  BY <1>1 DEF QInv, AttemptsDistinct

\* An unusable step is failed before it is ever claimed.
LEMMA ClaimsInvalidInv ==
    ASSUME NEW x \in Workers, NEW s \in Steps
    PROVE  QInv /\ ClaimsInvalid(x, s) => QInv'
<1> SUFFICES ASSUME QInv, ClaimsInvalid(x, s) PROVE QInv'
  OBVIOUS
<1>1. w \in [Workers -> WorkerRow] /\ w[x].pc = "ready" /\ w[x].left > 0 /\ step[s] = "PENDING"
  BY DEF QInv, TypeOK, WorkerRow, ClaimsInvalid, IsNext, Pending
<1> DEFINE r == IF w[x].run = "PLANNING" THEN "RUNNING" ELSE w[x].run
<1>2. w' = [w EXCEPT ![x] = [w[x] EXCEPT !.left = w[x].left - 1, !.clean = FALSE, !.run = r]]
  BY <1>1 DEF ClaimsInvalid, WorkerRow
<1>3. [w[x] EXCEPT !.left = w[x].left - 1, !.clean = FALSE, !.run = r] \in WorkerRow
  <2>1. w[x] \in WorkerRow
    BY <1>1
  <2>2. w[x].left - 1 \in 0..BatchSize
    BY <1>1, <2>1, QueueAssumption DEF WorkerRow
  <2>3. r \in Executable \cup {"none", "PAUSED", "CANCELLED"}
    BY <2>1 DEF WorkerRow, Executable
  <2> HIDE DEF r
  <2> QED
    BY <2>1, <2>2, <2>3 DEF WorkerRow
<1>4. w' \in [Workers -> WorkerRow]
  BY <1>1, <1>2, <1>3
<1>5. NoNewAttempt
  BY <1>1, <1>2 DEF NoNewAttempt, WorkerRow
<1>6. run' \in RunStates /\ step' \in [Steps -> StepStates]
  BY DEF ClaimsInvalid, RunAfterClaim, RunStates, QInv, TypeOK, StepStates, TerminalStep
<1>7. TypeOK'
  BY <1>4, <1>6 DEF ClaimsInvalid, QInv, TypeOK, WorkerRow
<1>8. \A t \in Steps : Claimable(t)' <=> Claimable(t)
  BY DEF Claimable, ClaimsInvalid
<1>9. \A t \in Steps \ late', y \in Workers : Executing(y, t)' =>
               step'[t] = "RUNNING" /\ job'[t].status = "RUNNING"
  BY <1>1, <1>5 DEF QInv, TypeOK, OwnsRows, NoNewAttempt, Executing, ClaimsInvalid
<1>10. UNCHANGED <<job, late>>
  BY DEF ClaimsInvalid
<1>11. AttemptInHand' /\ AttemptsDistinct' /\ OwnsRows' /\ WithinRetries'
  BY <1>5, <1>7, <1>8, <1>9, <1>10, OwnersKept
<1>12. ClaimsPaidFor'
  BY <1>5, <1>8, <1>10, PaidForKept DEF ClaimsPaidFor
<1> QED
  BY <1>7, <1>11, <1>12 DEF QInv

\* A result that could not be stored: the job may be closed, nobody can claim.
LEMMA PersistFailsInv ==
    ASSUME NEW x \in Workers
    PROVE  QInv /\ PersistFails(x) => QInv'
<1> SUFFICES ASSUME QInv, PersistFails(x) PROVE QInv'
  OBVIOUS
<1> DEFINE s == w[x].step
<1>1. w[x].pc = "exec" /\ s \in Steps /\ Executing(x, s)
  BY DEF QInv, AttemptInHand, PersistFails, Executing
<1>2. /\ w' \in [Workers -> WorkerRow]
      /\ lease' \in [holder : Leased \cup {NoOne}, live : BOOLEAN]
      /\ NoNewAttempt /\ w'[x].pc = "idle"
  BY StopsType DEF PersistFails
<1>3. faults' \in 0..MaxFaults
  BY QueueAssumption DEF PersistFails, QInv, TypeOK
<1>4. UNCHANGED <<run, step, old, late>>
  BY DEF PersistFails
<1>5. job' = [job EXCEPT ![s].status = "FAILED"] \/ UNCHANGED job
  BY DEF PersistFails
<1> HIDE DEF s
<1>6. job \in [Steps -> [status : JobStates, attempt : Nat]]
  BY DEF QInv, TypeOK
<1>7. /\ job' \in [Steps -> [status : JobStates, attempt : Nat]]
      /\ \A t \in Steps : /\ job'[t].attempt = job[t].attempt
                          /\ job'[t].status \in {job[t].status, "FAILED"}
                          /\ t # s => job'[t] = job[t]
  BY <1>1, <1>5, <1>6 DEF JobStates, TerminalJob
<1>8. TypeOK'
  BY <1>2, <1>3, <1>4, <1>7 DEF QInv, TypeOK, WorkerRow
<1>9. \A t \in Steps : Claimable(t)' => Claimable(t)
  BY <1>7 DEF Claimable, ClaimableJob
<1>10. \A t \in Steps \ late', y \in Workers : Executing(y, t)' =>
               step'[t] = "RUNNING" /\ job'[t].status = "RUNNING"
  <2> SUFFICES ASSUME NEW t \in Steps \ late', NEW y \in Workers, Executing(y, t)'
               PROVE  step'[t] = "RUNNING" /\ job'[t].status = "RUNNING"
    OBVIOUS
  <2>1. Executing(y, t) /\ y # x
    BY <1>2 DEF NoNewAttempt, Executing
  <2>2. t # s
    BY <1>1, <1>4, <2>1, SoleExecutor
  <2> QED
    BY <1>4, <1>7, <2>1, <2>2 DEF QInv, OwnsRows
<1>11. AttemptInHand' /\ AttemptsDistinct' /\ OwnsRows' /\ WithinRetries'
  BY <1>2, <1>4, <1>7, <1>8, <1>9, <1>10, OwnersKept
<1>12. ClaimsPaidFor'
  BY <1>2, <1>7, <1>9, PaidForKept DEF ClaimsPaidFor
<1> QED
  BY <1>8, <1>11, <1>12 DEF QInv

\* Recovery takes rows only from the attempts it records as late, and offers
\* a step again only while it has attempts left.
LEMMA SchedulerRecoversInv == QInv /\ SchedulerRecovers => QInv'
<1> SUFFICES ASSUME QInv, SchedulerRecovers PROVE QInv'
  OBVIOUS
<1>1. /\ job' = [s \in Steps |-> JobRecovered(s)]
      /\ step' = [s \in Steps |-> StepRecovered(s)]
      /\ late' = late \cup {s \in StaleJobs \cup Orphans : \E x \in Workers : Executing(x, s)}
      /\ UNCHANGED <<run, old, lease, w, faults>>
  BY DEF SchedulerRecovers
<1>2. NoNewAttempt
  BY <1>1 DEF NoNewAttempt
<1>3. job \in [Steps -> [status : JobStates, attempt : Nat]] /\ step \in [Steps -> StepStates]
  BY DEF QInv, TypeOK
<1>4. \A s \in Steps : JobRecovered(s) \in [status : JobStates, attempt : Nat]
  BY <1>3 DEF JobRecovered, JobStates, TerminalJob, ClaimableJob
<1>5. \A s \in Steps : StepRecovered(s) \in StepStates
  BY <1>3 DEF StepRecovered, StepStates, TerminalStep
<1>6. late' \subseteq Steps /\ late \subseteq late'
  BY <1>1 DEF QInv, TypeOK, StaleJobs, Orphans
<1>7. TypeOK'
  BY <1>1, <1>4, <1>5, <1>6 DEF QInv, TypeOK
<1>8. \A s \in Steps : job'[s].attempt = job[s].attempt
  BY <1>1, <1>3 DEF JobRecovered
<1>9. \A s \in Steps : Claimable(s)' => Claimable(s) \/ job[s].attempt < MaxRetry
  BY <1>1, <1>3, QueueAssumption
  DEF Claimable, JobRecovered, ClaimableJob, OutOfAttempts
<1>10. \A s \in Steps \ late', x \in Workers : Executing(x, s)' =>
               step'[s] = "RUNNING" /\ job'[s].status = "RUNNING"
  <2> SUFFICES ASSUME NEW s \in Steps \ late', NEW x \in Workers, Executing(x, s)'
               PROVE  step'[s] = "RUNNING" /\ job'[s].status = "RUNNING"
    OBVIOUS
  <2>1. Executing(x, s)
    BY <1>2 DEF NoNewAttempt, Executing
  <2>2. s \notin late /\ s \notin StaleJobs /\ s \notin Orphans
    BY <1>1, <2>1
  <2> QED
    BY <1>1, <2>1, <2>2 DEF QInv, OwnsRows, JobRecovered, StepRecovered
<1>11. AttemptInHand' /\ AttemptsDistinct' /\ OwnsRows' /\ WithinRetries'
  BY <1>2, <1>6, <1>7, <1>8, <1>9, <1>10, OwnersKept
<1>12. ClaimsPaidFor'
  BY <1>2, <1>8, <1>9, PaidForKept DEF ClaimsPaidFor
<1> QED
  BY <1>7, <1>11, <1>12 DEF QInv

\* The accounting as arithmetic, in this state and in the next.
LEMMA PaidForUnfolded ==
    ASSUME NEW s \in Steps
    PROVE  /\ PaidFor(s) <=> (job[s].attempt >= MaxRetry =>
                 job[s].attempt + (IF Claimable(s) THEN 1 ELSE 0) + Cardinality(Overtaken(s))
                     <= 2 * MaxRetry - 1)
           /\ PaidFor(s)' <=> (job'[s].attempt >= MaxRetry =>
                 job'[s].attempt + (IF Claimable(s)' THEN 1 ELSE 0) + Cardinality(Overtaken(s)')
                     <= 2 * MaxRetry - 1)
BY DEF PaidFor

\* An overtaken attempt that asks for a retry stops being counted itself: its
\* claim is paid for.
LEMMA RetryIsPaidFor ==
    ASSUME QInv, NEW x \in Workers, NEW s \in Steps, Executing(x, s),
           NoNewAttempt, w'[x].pc # "exec", w[x].attempt < MaxRetry,
           job'[s].attempt = job[s].attempt
    PROVE  PaidFor(s)'
<1> DEFINE a == w[x].attempt
           n == job[s].attempt
           c == Cardinality(Overtaken(s))
           d == Cardinality(Overtaken(s)')
           p == Claimable(s)
           q == Claimable(s)'
<1>1. a \in 1..(MaxRetry - 1) /\ n \in Nat /\ MaxRetry \in Nat
  BY QueueAssumption DEF QInv, TypeOK, AttemptInHand, Executing
<1>2. a \in Overtaken(s)
  BY <1>1 DEF Overtaken
<1>3. Overtaken(s)' \subseteq Overtaken(s) \ {a}
  <2> SUFFICES ASSUME NEW b \in Overtaken(s)' PROVE b \in Overtaken(s) \ {a}
    OBVIOUS
  <2>1. PICK y \in Workers : Executing(y, s)' /\ w'[y].attempt = b
    BY DEF Overtaken
  <2>2. y # x /\ Executing(y, s) /\ w[y].attempt = b
    BY <2>1 DEF NoNewAttempt, Executing
  <2>3. b # a
    BY <2>2 DEF QInv, AttemptsDistinct
  <2> QED
    BY <2>2, <2>3 DEF Overtaken
<1>4. IsFiniteSet(Overtaken(s)) /\ c \in Nat /\ d \in Nat
  BY OvertakenIsFinite, OvertakenIsFiniteNext
<1>5. IsFiniteSet(Overtaken(s) \ {a}) /\ Cardinality(Overtaken(s) \ {a}) = c - 1
  BY <1>2, <1>4, FS_RemoveElement
<1>6. d <= c - 1
  BY <1>3, <1>5, FS_Subset
<1>7. /\ PaidFor(s) <=> (n >= MaxRetry => n + (IF p THEN 1 ELSE 0) + c <= 2 * MaxRetry - 1)
      /\ PaidFor(s)' <=> (n >= MaxRetry => n + (IF q THEN 1 ELSE 0) + d <= 2 * MaxRetry - 1)
  BY PaidForUnfolded
<1>8. PaidFor(s)
  BY DEF QInv, ClaimsPaidFor
<1> HIDE DEF a, n, c, d, p, q
<1> QED
  BY <1>1, <1>4, <1>6, <1>7, <1>8

\* Persisting a result, the retry's reset included.
LEMMA PersistsInv ==
    ASSUME NEW x \in Workers, NEW o \in Outcomes
    PROVE  QInv /\ Persists(x, o) => QInv'
<1> SUFFICES ASSUME QInv, Persists(x, o) PROVE QInv'
  OBVIOUS
<1>0. PICK s \in Steps : s = w[x].step
  BY DEF QInv, AttemptInHand, Persists
<1> DEFINE ok == w[x].clean /\ o = "SUCCEEDED"
           row == [w[x] EXCEPT !.pc = "ready", !.step = 0, !.attempt = 0,
                               !.left = w[x].left - 1, !.clean = ok]
<1>1. w \in [Workers -> WorkerRow] /\ w[x] \in WorkerRow
  BY DEF QInv, TypeOK, WorkerRow
<1>2. /\ w[x].pc = "exec" /\ s \in Steps /\ Executing(x, s)
      /\ w[x].left >= 1 /\ w[x].attempt \in Nat
  BY <1>0, <1>1 DEF QInv, AttemptInHand, Persists, Executing, WorkerRow
<1>3. w' = [w EXCEPT ![x] = row]
  BY <1>1 DEF Persists, WorkerRow
<1>4. row \in WorkerRow
  <2>1. w[x].left - 1 \in 0..BatchSize /\ 0 \in 0..NumSteps /\ 0 \in Nat
    BY <1>1, <1>2, QueueAssumption DEF WorkerRow
  <2>2. ok \in BOOLEAN
    OBVIOUS
  <2> HIDE DEF ok
  <2> QED
    BY <1>1, <2>1, <2>2 DEF WorkerRow
<1>5. w' \in [Workers -> WorkerRow]
  BY <1>1, <1>3, <1>4
<1>6. w'[x].pc = "ready" /\ NoNewAttempt
  BY <1>1, <1>3 DEF NoNewAttempt, WorkerRow
<1>7. /\ step' = [step EXCEPT ![s] = StepRowAfter(x, o)]
      /\ job' = [job EXCEPT ![s].status = JobRowAfter(x, o)]
      /\ UNCHANGED <<run, old, lease, late, faults>>
  BY <1>0 DEF Persists
<1> HIDE DEF row, ok
<1>8. StepRowAfter(x, o) \in StepStates
  BY DEF StepRowAfter, StepAfter, StepStates, TerminalStep, Outcomes
<1>9. /\ JobRowAfter(x, o) \in JobStates
      /\ JobRowAfter(x, o) \in ClaimableJob \cup {"NONE"} => w[x].attempt < MaxRetry
  BY DEF JobRowAfter, ShouldRetry, JobAfter, JobStates, TerminalJob, ClaimableJob
<1>10. /\ job \in [Steps -> [status : JobStates, attempt : Nat]]
       /\ step \in [Steps -> StepStates]
  BY DEF QInv, TypeOK
<1>11. /\ step' \in [Steps -> StepStates]
       /\ job' \in [Steps -> [status : JobStates, attempt : Nat]]
       /\ \A t \in Steps : /\ job'[t].attempt = job[t].attempt
                           /\ t # s => job'[t] = job[t] /\ step'[t] = step[t]
       /\ job'[s].status = JobRowAfter(x, o)
  BY <1>2, <1>7, <1>8, <1>9, <1>10
<1>12. TypeOK'
  BY <1>5, <1>7, <1>11 DEF QInv, TypeOK, WorkerRow
<1>13. \A t \in Steps : t # s => (Claimable(t)' <=> Claimable(t))
  BY <1>11 DEF Claimable
<1>14. Claimable(s)' => w[x].attempt < MaxRetry
  BY <1>9, <1>11 DEF Claimable
<1>15. \A t \in Steps \ late' : Claimable(t)' => Claimable(t) \/ job[t].attempt < MaxRetry
  <2> SUFFICES ASSUME NEW t \in Steps \ late', Claimable(t)'
               PROVE  Claimable(t) \/ job[t].attempt < MaxRetry
    OBVIOUS
  <2>1. CASE t # s
    BY <1>13, <2>1
  <2>2. CASE t = s
    BY <1>2, <1>7, <1>14, <2>2 DEF QInv, OwnsRows
  <2> QED
    BY <2>1, <2>2
<1>16. \A t \in Steps \ late', y \in Workers : Executing(y, t)' =>
               step'[t] = "RUNNING" /\ job'[t].status = "RUNNING"
  <2> SUFFICES ASSUME NEW t \in Steps \ late', NEW y \in Workers, Executing(y, t)'
               PROVE  step'[t] = "RUNNING" /\ job'[t].status = "RUNNING"
    OBVIOUS
  <2>1. Executing(y, t) /\ y # x
    BY <1>6 DEF NoNewAttempt, Executing
  <2>2. t # s
    BY <1>2, <1>7, <2>1, SoleExecutor
  <2> QED
    BY <1>7, <1>11, <2>1, <2>2 DEF QInv, OwnsRows
<1>17. AttemptInHand' /\ AttemptsDistinct' /\ OwnsRows' /\ WithinRetries'
  BY <1>6, <1>7, <1>11, <1>12, <1>15, <1>16, OwnersKept
<1>18. ASSUME NEW t \in Steps PROVE PaidFor(t)'
  <2>1. CASE t # s \/ ~Claimable(t)'
    BY <1>6, <1>11, <1>13, <2>1, PaidForKept
  <2>2. CASE t = s /\ Claimable(t)'
    BY <1>2, <1>6, <1>11, <1>14, <2>2, RetryIsPaidFor
  <2> QED
    BY <2>1, <2>2
<1> QED
  BY <1>12, <1>17, <1>18 DEF QInv, ClaimsPaidFor

\* A claim: the row lock and the claimable states admit it only where no owner
\* is left, and its number is new.
LEMMA ClaimsInv ==
    ASSUME NEW x \in Workers, NEW s \in Steps
    PROVE  QInv /\ Claims(x, s) => QInv'
<1> SUFFICES ASSUME QInv, Claims(x, s) PROVE QInv'
  OBVIOUS
<1> DEFINE r == IF w[x].run = "PLANNING" THEN "RUNNING" ELSE w[x].run
           row == [w[x] EXCEPT !.pc = "exec", !.step = s,
                               !.attempt = job[s].attempt + 1, !.run = r]
<1>1. /\ w \in [Workers -> WorkerRow] /\ w[x] \in WorkerRow
      /\ job \in [Steps -> [status : JobStates, attempt : Nat]]
      /\ step \in [Steps -> StepStates]
  BY DEF QInv, TypeOK, WorkerRow
<1>2. /\ w[x].pc = "ready" /\ w[x].left > 0
      /\ step[s] = "PENDING" /\ Claimable(s)
      /\ step' = [step EXCEPT ![s] = "RUNNING"]
      /\ job' = [job EXCEPT ![s] = [status |-> "RUNNING", attempt |-> @.attempt + 1]]
      /\ old' = [old EXCEPT ![s] = FALSE]
      /\ run' = RunAfterClaim(x)
      /\ UNCHANGED <<lease, late, faults>>
  BY DEF Claims, IsNext, Pending
<1>3. w' = [w EXCEPT ![x] = row]
  BY <1>1 DEF Claims, WorkerRow
<1>4. row \in WorkerRow
  <2>1. s \in 0..NumSteps /\ job[s].attempt + 1 \in Nat
    BY <1>1, QueueAssumption DEF Steps
  <2>2. r \in Executable \cup {"none", "PAUSED", "CANCELLED"}
    BY <1>1 DEF WorkerRow, Executable
  <2> HIDE DEF r
  <2> QED
    BY <1>1, <2>1, <2>2 DEF WorkerRow
<1>5. w' \in [Workers -> WorkerRow]
  BY <1>1, <1>3, <1>4
<1>6. /\ w'[x].pc = "exec" /\ w'[x].step = s /\ w'[x].attempt = job[s].attempt + 1
      /\ w'[x].left = w[x].left
      /\ \A y \in Workers : y # x => w'[y] = w[y]
  BY <1>1, <1>3 DEF WorkerRow
<1> HIDE DEF row, r
<1>7. /\ job'[s].status = "RUNNING" /\ job'[s].attempt = job[s].attempt + 1
      /\ step'[s] = "RUNNING"
      /\ \A t \in Steps : t # s => job'[t] = job[t] /\ step'[t] = step[t]
  BY <1>1, <1>2
<1>8. job' \in [Steps -> [status : JobStates, attempt : Nat]] /\ step' \in [Steps -> StepStates]
  BY <1>1, <1>2 DEF JobStates, StepStates
<1>9. run' \in RunStates /\ old' \in [Steps -> BOOLEAN]
  BY <1>2 DEF RunAfterClaim, RunStates, QInv, TypeOK
<1>10. TypeOK'
  BY <1>2, <1>5, <1>8, <1>9 DEF QInv, TypeOK, WorkerRow
<1>11. AttemptInHand'
  <2>1. w[x].left \in Nat /\ job[s].attempt \in Nat
    BY <1>1 DEF WorkerRow
  <2>2. \A y \in Workers : w[y].attempt \in Nat
    BY <1>1 DEF WorkerRow
  <2> SUFFICES ASSUME NEW y \in Workers, w'[y].pc = "exec"
               PROVE  /\ w'[y].step \in Steps /\ w'[y].left >= 1
                      /\ w'[y].attempt >= 1 /\ w'[y].attempt <= job'[w'[y].step].attempt
    BY DEF AttemptInHand
  <2>3. CASE y = x
    BY <1>2, <1>6, <1>7, <2>1, <2>3
  <2>4. CASE y # x
    <3>1. /\ w[y].step \in Steps /\ w[y].left >= 1 /\ w'[y] = w[y]
          /\ w[y].attempt >= 1 /\ w[y].attempt <= job[w[y].step].attempt
      BY <1>6, <2>4 DEF QInv, AttemptInHand
    <3>2. job'[w[y].step].attempt >= job[w[y].step].attempt
      BY <1>1, <1>7, <3>1
    <3> QED
      BY <1>1, <1>7, <2>1, <2>2, <3>1, <3>2
  <2> QED
    BY <2>3, <2>4
<1>12. AttemptsDistinct'
  <2> SUFFICES ASSUME NEW y \in Workers, NEW z \in Workers, NEW t \in Steps,
                      Executing(y, t)', Executing(z, t)', w'[y].attempt = w'[z].attempt
               PROVE  y = z
    BY DEF AttemptsDistinct
  <2>1. CASE y # x /\ z # x
    BY <1>6, <2>1 DEF QInv, AttemptsDistinct, Executing
  <2>2. ASSUME NEW v \in Workers, v # x, Executing(v, s)'
        PROVE  w'[v].attempt # w'[x].attempt
    <3>1. w[v].attempt <= job[s].attempt /\ w'[v] = w[v]
      BY <1>6, <2>2 DEF QInv, AttemptInHand, Executing
    <3>2. w[v].attempt \in Nat /\ job[s].attempt \in Nat
      BY <1>1 DEF WorkerRow
    <3> QED
      BY <1>6, <3>1, <3>2
  <2>3. CASE y = x /\ z # x
    BY <1>6, <2>2, <2>3 DEF Executing
  <2>4. CASE z = x /\ y # x
    BY <1>6, <2>2, <2>4 DEF Executing
  <2> QED
    BY <2>1, <2>3, <2>4
<1>13. OwnsRows'
  <2> SUFFICES ASSUME NEW t \in Steps \ late', NEW y \in Workers, Executing(y, t)'
               PROVE  /\ step'[t] = "RUNNING" /\ job'[t].status = "RUNNING"
                      /\ w'[y].attempt = job'[t].attempt
    BY DEF OwnsRows
  <2>1. CASE y = x
    BY <1>6, <1>7, <2>1 DEF Executing
  <2>2. CASE y # x
    <3>1. Executing(y, t) /\ w'[y] = w[y]
      BY <1>6, <2>2 DEF Executing
    <3>2. /\ step[t] = "RUNNING" /\ job[t].status = "RUNNING"
          /\ w[y].attempt = job[t].attempt
      BY <1>2, <3>1 DEF QInv, OwnsRows
    <3> QED
      BY <1>2, <1>7, <3>1, <3>2
  <2> QED
    BY <2>1, <2>2
<1>14. ~Claimable(s)'
  BY <1>7 DEF Claimable, ClaimableJob
<1>15. \A t \in Steps : t # s => (Claimable(t)' <=> Claimable(t))
  BY <1>7 DEF Claimable
<1>16. WithinRetries'
  BY <1>1, <1>2, <1>7, <1>14, <1>15, QueueAssumption DEF QInv, WithinRetries
<1>17. ASSUME NEW t \in Steps PROVE PaidFor(t)'
  <2> DEFINE m == job[t].attempt
             n == job'[t].attempt
             c == Cardinality(Overtaken(t))
             d == Cardinality(Overtaken(t)')
             p == Claimable(t)
             q == Claimable(t)'
  <2>1. /\ m \in Nat /\ n \in Nat /\ MaxRetry \in Nat /\ c \in Nat /\ d \in Nat
        /\ d <= MaxRetry - 1
    BY <1>1, <1>8, QueueAssumption, OvertakenIsFinite, OvertakenIsFiniteNext
  <2>2. /\ PaidFor(t) <=> (m >= MaxRetry => m + (IF p THEN 1 ELSE 0) + c <= 2 * MaxRetry - 1)
        /\ PaidFor(t)' <=> (n >= MaxRetry => n + (IF q THEN 1 ELSE 0) + d <= 2 * MaxRetry - 1)
    BY PaidForUnfolded
  <2>3. PaidFor(t)
    BY DEF QInv, ClaimsPaidFor
  <2>4. t # s => n = m /\ (q <=> p)
    BY <1>7, <1>15
  <2>5. t = s => n = m + 1 /\ p /\ ~q
    BY <1>2, <1>7, <1>14
  <2>6. t # s \/ n >= MaxRetry => d <= c
    <3> SUFFICES ASSUME t # s \/ n >= MaxRetry PROVE d <= c
      OBVIOUS
    <3>1. Overtaken(t)' \subseteq Overtaken(t)
      <4> SUFFICES ASSUME NEW b \in Overtaken(t)' PROVE b \in Overtaken(t)
        OBVIOUS
      <4>1. PICK y \in Workers : Executing(y, t)' /\ w'[y].attempt = b
        BY DEF Overtaken
      <4>2. b \in 1..(MaxRetry - 1)
        BY DEF Overtaken
      <4>3. y # x
        BY <1>6, <1>7, <2>1, <4>1, <4>2 DEF Executing
      <4> QED
        BY <1>6, <4>1, <4>2, <4>3 DEF Overtaken, Executing
    <3> QED
      BY <3>1, OvertakenIsFinite, FS_Subset
  <2> HIDE DEF m, n, c, d, p, q
  <2> QED
    BY <2>1, <2>2, <2>3, <2>4, <2>5, <2>6
<1> QED
  BY <1>10, <1>11, <1>12, <1>13, <1>16, <1>17 DEF QInv, ClaimsPaidFor

-----------------------------------------------------------------------------
(* The theorems.                                                            *)

\* A run that has just been planned satisfies the invariant.
LEMMA QInvInit == Init => QInv
<1> SUFFICES ASSUME Init PROVE QInv
  OBVIOUS
<1>1. TypeOK
  <2>1. w \in [Workers -> WorkerRow]
    <3>1. Idle \in WorkerRow
      BY QueueAssumption DEF Idle, WorkerRow
    <3> QED
      BY <3>1 DEF Init
  <2>2. /\ run \in RunStates /\ step \in [Steps -> StepStates]
        /\ job \in [Steps -> [status : JobStates, attempt : Nat]]
        /\ late \subseteq Steps
    BY DEF Init, RunStates, StepStates, JobStates
  <2>3. faults \in 0..MaxFaults
    BY QueueAssumption DEF Init
  <2>4. old \in [Steps -> BOOLEAN] /\ lease \in [holder : Leased \cup {NoOne}, live : BOOLEAN]
    BY DEF Init
  <2> QED
    BY <2>1, <2>2, <2>3, <2>4 DEF TypeOK, WorkerRow
<1>2. \A x \in Workers : w[x].pc = "idle"
  BY DEF Init, Idle
<1>3. AttemptInHand /\ AttemptsDistinct /\ OwnsRows
  BY <1>2 DEF AttemptInHand, AttemptsDistinct, OwnsRows, Executing
<1>4. \A s \in Steps : job[s].attempt = 0
  BY DEF Init
<1>5. WithinRetries
  BY <1>4, QueueAssumption DEF WithinRetries
<1>6. ClaimsPaidFor
  BY <1>4, QueueAssumption DEF ClaimsPaidFor, PaidFor
<1> QED
  BY <1>1, <1>3, <1>5, <1>6 DEF QInv

\* Every step of the queue keeps the invariant.
LEMMA QInvNext == QInv /\ [Next]_vars => QInv'
<1> SUFFICES ASSUME QInv, [Next]_vars PROVE QInv'
  OBVIOUS
<1>1. CASE SchedulerBegins \/ SchedulerRecovers \/ LeaseExpires \/ Pause \/ Resume \/ Cancel
  BY <1>1, SchedulerBeginsInv, SchedulerRecoversInv, LeaseExpiresInv, OperatorInv
<1>2. CASE \E x \in Unleased : UnleasedBegins(x)
  BY <1>2, UnleasedBeginsInv
<1>3. CASE \E x \in Leased : LeasedBegins(x) \/ NextBatch(x)
  BY <1>3, LeasedBeginsInv, NextBatchInv
<1>4. ASSUME NEW x \in Workers, BatchEnds(x) \/ ClaimsNothing(x) \/ PersistFails(x) \/ Crashes(x)
      PROVE  QInv'
  BY <1>4, BatchEndsInv, ClaimsNothingInv, PersistFailsInv, CrashesInv
<1>5. ASSUME NEW x \in Workers, NEW s \in Steps, ClaimsInvalid(x, s) \/ Claims(x, s)
      PROVE  QInv'
  BY <1>5, ClaimsInvalidInv, ClaimsInv
<1>6. ASSUME NEW x \in Workers, NEW o \in Outcomes, Persists(x, o)
      PROVE  QInv'
  BY <1>6, PersistsInv
<1>7. CASE \E s \in Steps : GrowsOld(s)
  BY <1>7, GrowsOldInv
<1>8. CASE UNCHANGED vars
  <2>1. TypeOK'
    BY <1>8 DEF QInv, TypeOK, vars
  <2> QED
    BY <1>8, <2>1, WorkersStay DEF vars
<1> QED
  BY <1>1, <1>2, <1>3, <1>4, <1>5, <1>6, <1>7, <1>8 DEF Next

\* The inductive invariant holds of every reachable state.
LEMMA QInvHolds == Spec => []QInv
BY QInvInit, QInvNext, PTL DEF Spec

\* Two processes run one step at once only if recovery gave the step away
\* while its attempt was alive, however many endpoint calls drain the run.
THEOREM StepsRunExclusively == Spec => []ExclusiveUnlessLate
<1>1. QInv => ExclusiveUnlessLate
  <2> SUFFICES ASSUME QInv, NEW s \in Steps \ late
               PROVE  Cardinality({x \in Workers : Executing(x, s)}) <= 1
    BY DEF ExclusiveUnlessLate
  <2> DEFINE E == {x \in Workers : Executing(x, s)}
  <2>1. CASE E = {}
    BY <2>1, FS_EmptySet
  <2>2. CASE E # {}
    <3>1. PICK x \in E : TRUE
      BY <2>2
    <3>2. E = {x}
      BY <3>1, SoleExecutor
    <3> QED
      BY <3>2, FS_Singleton
  <2> QED
    BY <2>1, <2>2
<1> QED
  BY <1>1, QInvHolds, PTL

\* The retry budget: MAX_RETRY_ATTEMPTS claims of a step whose attempts were
\* never given away, and at most one more for each attempt below the budget
\* that was.
THEOREM RetriesAreBounded == Spec => []AttemptsBounded
<1>1. QInv => AttemptsBounded
  <2> SUFFICES ASSUME QInv, NEW s \in Steps
               PROVE  job[s].attempt <= IF s \in late THEN 2 * MaxRetry - 1 ELSE MaxRetry
    BY DEF AttemptsBounded
  <2>1. CASE s \notin late
    BY <2>1 DEF QInv, WithinRetries
  <2>2. CASE s \in late
    <3> DEFINE c == Cardinality(Overtaken(s))
               p == Claimable(s)
               n == job[s].attempt
    <3>1. c \in Nat /\ n \in Nat /\ MaxRetry \in Nat \ {0}
      BY OvertakenIsFinite, QueueAssumption DEF QInv, TypeOK
    <3>2. n >= MaxRetry => n + (IF p THEN 1 ELSE 0) + c <= 2 * MaxRetry - 1
      BY DEF QInv, ClaimsPaidFor, PaidFor
    <3> HIDE DEF c, p, n
    <3>3. n <= 2 * MaxRetry - 1
      BY <3>1, <3>2
    <3> QED
      BY <2>2, <3>3 DEF n
  <2> QED
    BY <2>1, <2>2
<1> QED
  BY <1>1, QInvHolds, PTL

\* A finished step is never reopened or decided again, unless its attempt was
\* given away while it was alive.
THEOREM FinishedStepsStay == Spec => FinishedStepStays
<1>1. QInv /\ [Next]_vars =>
        [\A s \in Steps \ late' : step[s] \in TerminalStep => step'[s] = step[s]]_vars
  <2> SUFFICES ASSUME QInv, Next, NEW s \in Steps \ late', step[s] \in TerminalStep
               PROVE  step'[s] = step[s]
    OBVIOUS
  <2>1. step[s] # "PENDING" /\ step[s] # "RUNNING" /\ step \in [Steps -> StepStates]
    BY DEF TerminalStep, QInv, TypeOK
  <2>2. CASE SchedulerRecovers
    BY <2>1, <2>2 DEF SchedulerRecovers, StepRecovered, Orphans
  <2>3. ASSUME NEW x \in Workers, NEW t \in Steps, ClaimsInvalid(x, t) \/ Claims(x, t)
        PROVE  step'[s] = step[s]
    BY <2>1, <2>3 DEF ClaimsInvalid, Claims, IsNext, Pending
  <2>4. ASSUME NEW x \in Workers, NEW o \in Outcomes, Persists(x, o)
        PROVE  step'[s] = step[s]
    <3>1. s \notin late /\ Executing(x, w[x].step)
      BY <2>4 DEF Persists, Executing
    <3>2. s # w[x].step
      BY <2>1, <3>1 DEF QInv, OwnsRows
    <3> QED
      BY <2>1, <2>4, <3>2 DEF Persists
  <2>5. CASE UNCHANGED step
    BY <2>5
  <2> QED
    BY <2>2, <2>3, <2>4, <2>5
    DEF Next, SchedulerBegins, LeaseExpires, Pause, Resume, Cancel, OperatorSets,
        UnleasedBegins, LeasedBegins, NextBatch, BatchEnds, ClaimsNothing, PersistFails,
        Crashes, GrowsOld
<1> QED
  BY <1>1, QInvHolds, PTL DEF Spec, FinishedStepStays
=============================================================================
