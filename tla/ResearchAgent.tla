---------------------------- MODULE ResearchAgent ----------------------------
(***************************************************************************)
(* The external research agent and the API it works through.               *)
(*                                                                         *)
(* An agent process claims a run (a lease with a secret token), asks the    *)
(* server for the phase of the current iteration and does what the phase    *)
(* calls for: propose a hypothesis, wait for the queue to produce a result, *)
(* decide on the result, complete or requeue the run.  Every request can be *)
(* delayed, its answer can be lost, the process can die with the request on *)
(* the way, the lease can run out under it, and the operator can move the   *)
(* run at any moment.  The handlers lock the run row, so each is one step.  *)
(*                                                                         *)
(* The queue itself is the module ResearchQueue; here an experiment's steps *)
(* are one unit of work that ends with a result, without one, or is retried *)
(* after a transient failure that already left a FAILED result row.         *)
(***************************************************************************)
EXTENDS Naturals, Sequences, FiniteSets

CONSTANTS
    Agents,         \* agent containers; a restarted one keeps its worker_id
    Budget,         \* budget_experiments
    MaxLoops,       \* the phase loop's safety bound (20 in the code)
    Sessions,       \* queue workers: the scheduler's job and endpoint calls
    MaxTrouble,     \* bound: faults, overtaken attempts and operator calls together
    NoOne

ASSUME AgentAssumption ==
    /\ Budget \in Nat /\ MaxLoops \in Nat \ {0}
    /\ MaxTrouble \in Nat
    /\ NoOne \notin Agents

VARIABLES
    run,        \* the run row's status
    completed,  \* the run row's experiments_completed
    requeues,   \* number of ITERATION_REQUEUED steps
    props,      \* the PROPOSAL steps in step_index order
    work,       \* work[i]: the queue's steps for proposal i
    batch,      \* batch[q]: the run's status as queue session q has loaded it
    res,        \* res[i]: how many result rows of each kind proposal i has
    decs,       \* the DECISION steps
    lease,      \* the AIWorkerLease row
    net,        \* requests sent and not yet handled
    ag,         \* ag[a]: the agent process
    op,         \* the operator's call in progress: what it read, what it will write
    trouble,    \* faults, overtaken attempts and operator calls so far
    overtaken,  \* history: an attempt recovery gave away stored a result
    refused,    \* history: a proposal was answered with a server error
    iterated    \* history: the operator used /iterate

vars == <<run, completed, requeues, props, work, res, decs, lease, batch, net, ag, op,
          trouble, overtaken, refused, iterated>>
server == <<run, completed, requeues, props, work, res, decs, lease, batch>>
history == <<overtaken, refused, iterated>>

Claimable == {"QUEUED", "PLANNING", "RUNNING", "EVALUATING"}
\* SHADOW and INSUFFICIENT_DATA stand for every status finalize_run may leave
\* that /complete only acknowledges.
Settled == {"SHADOW", "INSUFFICIENT_DATA"}
Final == {"COMPLETED", "FAILED", "CANCELLED"} \cup Settled
RunStates == Claimable \cup {"PAUSED"} \cup Final
\* CONTINUE: CONTINUE_RESEARCH and MUTATE_HYPOTHESIS.  STOP: the decisions
\* without an effect on the run row.
Decisions == {"CONTINUE", "STOP", "SHADOW"}

Off == [pc |-> "idle", tok |-> 0, known |-> 0, round |-> 0, about |-> <<>>,
        loops |-> 0, tries |-> 0, msg |-> <<>>, after |-> "idle"]

Init ==
    /\ run = "QUEUED" /\ completed = 0 /\ requeues = 0
    /\ props = <<>> /\ work = <<>> /\ res = <<>> /\ decs = {}
    /\ lease = [tok |-> 0, owner |-> NoOne, live |-> FALSE, last |-> 0]
    /\ batch = [q \in Sessions |-> "none"]
    /\ net = {}
    /\ ag = [a \in Agents |-> Off]
    /\ op = [pc |-> "idle", to |-> "none"]
    /\ trouble = 0
    /\ overtaken = FALSE /\ refused = FALSE /\ iterated = FALSE

-----------------------------------------------------------------------------
(* What the server derives from the rows: _current_iteration, _agent_phase. *)

\* The newest proposal after the last requeue boundary, or 0.
Cur == IF props # <<>> /\ props[Len(props)].iter = requeues THEN Len(props) ELSE 0

\* A SUCCEEDED result is preferred to a newer failed one; <<>> is none.
TerminalResult(i) ==
    IF res[i].ok > 0 THEN <<i, "ok", res[i].ok>>
    ELSE IF res[i].fail > 0 THEN <<i, "fail", res[i].fail>> ELSE <<>>
CurResult == IF Cur = 0 THEN <<>> ELSE TerminalResult(Cur)
Decided(r) == \E d \in decs : d.res = r

Phase ==
    CASE Cur = 0 -> "NEEDS_PROPOSAL"
      [] Cur # 0 /\ work[Cur] # "done" -> "WAITING_RESULT"
      [] Cur # 0 /\ work[Cur] = "done" /\ CurResult = <<>> -> "WAITING_RESULT"
      [] Cur # 0 /\ work[Cur] = "done" /\ CurResult # <<>> ->
            IF Decided(CurResult) THEN "NEEDS_COMPLETION" ELSE "NEEDS_DECISION"

\* The decision the phase answer carries: the current one.
CurAct == (CHOOSE d \in decs : d.res = CurResult).act

Holds(tok) == tok # 0 /\ lease.tok = tok /\ lease.live
Released == [lease EXCEPT !.tok = 0, !.owner = NoOne, !.live = FALSE]

-----------------------------------------------------------------------------
(* The agent process: claiming, and one turn of the phase loop.             *)

\* mutant: the agent starts its experiment counter at zero with every claim.
Working_FromZero(a, tok) == [Off EXCEPT !.pc = "look", !.tok = tok]

Working(a, tok) == [Off EXCEPT !.pc = "look", !.tok = tok, !.known = completed]

Trouble == trouble < MaxTrouble /\ trouble' = trouble + 1

\* /claim gives a worker its own live lease back, without touching the run;
\* otherwise a run nobody holds gets a lease with a new token.
OwnLease(a) == lease.tok # 0 /\ lease.live /\ lease.owner = a
\* mutant: an expired lease row is not taken over.
LeaseOpen_NoTakeover == lease.tok = 0

LeaseOpen == lease.tok = 0 \/ ~lease.live
NewLease(a) == [tok |-> lease.last + 1, owner |-> a, live |-> TRUE, last |-> lease.last + 1]

Resumes(a) ==
    /\ ag[a].pc = "idle"
    /\ OwnLease(a) /\ run \in Claimable
    /\ ag' = [ag EXCEPT ![a] = Working(a, lease.tok)]
    /\ UNCHANGED <<server, net, op, trouble, history>>

Claims(a) ==
    /\ ag[a].pc = "idle"
    /\ LeaseOpen /\ run \in Claimable
    /\ lease' = NewLease(a)
    /\ run' = IF run = "QUEUED" THEN "RUNNING" ELSE run
    /\ \/ ag' = [ag EXCEPT ![a] = Working(a, lease.last + 1)] /\ UNCHANGED trouble
       \/ Trouble /\ UNCHANGED ag     \* answer lost
    /\ UNCHANGED <<completed, requeues, props, work, res, decs, batch, net, op, history>>

Sends(a, m, after) ==
    /\ net' = net \cup {m}
    /\ ag' = [ag EXCEPT ![a].pc = "sent", ![a].msg = m, ![a].after = after]

\* after: where the agent goes if the answer is a server error.
Complete(a, act) == [kind |-> "complete", from |-> a, tok |-> ag[a].tok, act |-> act]

\* get_phase reports a lost lease: the process gives the run up.
LosesLease(a) ==
    /\ ag[a].pc \in {"look", "wait"} /\ ~Holds(ag[a].tok)
    /\ ag' = [ag EXCEPT ![a] = Off]
    /\ UNCHANGED <<server, net, op, trouble, history>>

\* The loop bound is used up: the run goes back to the queue.
RunsOutOfLoops(a) ==
    /\ ag[a].pc = "look" /\ Holds(ag[a].tok) /\ ag[a].loops = MaxLoops
    /\ Sends(a, Complete(a, "REQUEUE"), "idle")
    /\ UNCHANGED <<server, op, trouble, history>>

\* The action /complete is asked for once the iteration is decided.
FinalAct(a) == IF CurAct = "CONTINUE" /\ ag[a].known < Budget THEN "REQUEUE" ELSE "COMPLETED"

Looks(a) ==
    /\ ag[a].pc = "look" /\ Holds(ag[a].tok) /\ ag[a].loops < MaxLoops
    /\ LET turn == [ag EXCEPT ![a].loops = @ + 1] IN
       \/ /\ Phase = "NEEDS_PROPOSAL" /\ ag[a].known < Budget
          /\ ag' = [turn EXCEPT ![a].pc = "propose", ![a].round = requeues]
          /\ UNCHANGED net
       \/ /\ Phase = "NEEDS_PROPOSAL" /\ ag[a].known >= Budget
          /\ Sends(a, Complete(a, "COMPLETED"), "requeue")
       \/ /\ Phase = "WAITING_RESULT"
          /\ ag' = [turn EXCEPT ![a].pc = "wait"]
          /\ UNCHANGED net
       \/ /\ Phase = "NEEDS_DECISION"
          /\ ag' = [turn EXCEPT ![a].pc = "decide", ![a].about = CurResult]
          /\ UNCHANGED net
       \/ /\ Phase = "NEEDS_COMPLETION"
          /\ net' = net \cup {Complete(a, FinalAct(a))}
          /\ ag' = [turn EXCEPT ![a].pc = "sent", ![a].msg = Complete(a, FinalAct(a)),
                                ![a].after = "look"]
    /\ UNCHANGED <<server, op, trouble, history>>

\* The client_request_id is built from what identifies the attempt: the
\* experiments the agent knows of, the requeue count and the try.
ProposalKey(a) == <<ag[a].known, ag[a].round, ag[a].tries + 1>>

Proposes(a) ==
    /\ ag[a].pc = "propose"
    /\ LET m == [kind |-> "proposal", from |-> a, tok |-> ag[a].tok, key |-> ProposalKey(a)] IN
       /\ net' = net \cup {m}
       /\ ag' = [ag EXCEPT ![a].pc = "sent", ![a].msg = m, ![a].after = "look", ![a].tries = @ + 1]
    /\ UNCHANGED <<server, op, trouble, history>>

Decides(a, act) ==
    /\ ag[a].pc = "decide"
    /\ Sends(a, [kind |-> "decision", from |-> a, tok |-> ag[a].tok, key |-> ag[a].about, act |-> act], "look")
    /\ UNCHANGED <<server, op, trouble, history>>

\* wait_for_experiment_result returns on the first result row it sees, also
\* when the step behind it is about to be retried.
SeesResult(a) ==
    /\ ag[a].pc = "wait" /\ Holds(ag[a].tok) /\ CurResult # <<>>
    /\ ag' = [ag EXCEPT ![a].pc = "look"]
    /\ UNCHANGED <<server, net, op, trouble, history>>

WaitTimesOut(a) ==
    /\ ag[a].pc = "wait" /\ Holds(ag[a].tok) /\ CurResult = <<>>
    /\ Sends(a, Complete(a, "FAILED"), "look")
    /\ UNCHANGED <<server, op, trouble, history>>

\* The LLM call raises: a retryable HTTP status requeues the run, anything
\* else fails it (_requeue_after_worker_error).
ThinkingFails(a) ==
    /\ ag[a].pc \in {"propose", "decide"} /\ Trouble
    /\ \E act \in {"REQUEUE", "FAILED"} : Sends(a, Complete(a, act), "idle")
    /\ UNCHANGED <<server, op, history>>

\* The HTTP client gives up on the answer.  The last words of a failing
\* worker are not repeated.
TransportError(a) ==
    IF ag[a].after = "idle"
    THEN ag' = [ag EXCEPT ![a] = Off] /\ UNCHANGED net
    ELSE Sends(a, Complete(a, "FAILED"), "idle")

\* The answer is lost ...
GivesUp(a) ==
    /\ ag[a].pc = "sent" /\ ag[a].msg \notin net
    /\ TransportError(a)
    /\ UNCHANGED <<server, op, trouble, history>>

\* ... or the request is still on its way.
TimesOut(a) ==
    /\ ag[a].pc = "sent" /\ ag[a].msg \in net /\ Trouble
    /\ TransportError(a)
    /\ UNCHANGED <<server, op, history>>

Crashes(a) ==
    /\ ag[a].pc # "idle" /\ Trouble
    /\ ag' = [ag EXCEPT ![a] = Off]
    /\ UNCHANGED <<server, net, op, history>>

\* The heartbeat task renews the lease every POLL_SECONDS, well inside the
\* TTL.  Behind a dead process the lease runs out ...
HeldByWorking == \E a \in Agents : ag[a].pc # "idle" /\ ag[a].tok = lease.tok
Lapsed == [lease EXCEPT !.live = FALSE]

LeaseRunsOut ==
    /\ lease.tok # 0 /\ lease.live /\ ~HeldByWorking
    /\ lease' = Lapsed
    /\ UNCHANGED <<run, completed, requeues, props, work, res, decs, batch, net, ag, op, trouble, history>>

\* ... and under a working one only when its heartbeats fail.
HeartbeatsFail ==
    /\ lease.tok # 0 /\ lease.live /\ HeldByWorking /\ Trouble
    /\ lease' = Lapsed
    /\ UNCHANGED <<run, completed, requeues, props, work, res, decs, batch, net, ag, op, history>>

-----------------------------------------------------------------------------
(* The handlers.  Reply moves the sender, if it still waits for m, or is    *)
(* lost.  A stale lease is answered LEASE_LOST and the client drops it.     *)

Waiting(m) == ag[m.from].pc = "sent" /\ ag[m.from].msg = m

AgentAfter(m, answer) ==
    LET a == m.from
        me == ag[a] IN
    CASE answer = "LEASE_LOST" \/ me.after = "idle" \/ (answer = "ok" /\ m.kind = "complete") -> Off
      [] answer = "ok" /\ me.after # "idle" /\ m.kind = "proposal" -> [me EXCEPT !.pc = "look", !.msg = <<>>, !.round = 0, !.about = <<>>]
      [] answer = "ok" /\ me.after # "idle" /\ m.kind = "decision" ->
            [me EXCEPT !.pc = "look", !.msg = <<>>, !.about = <<>>, !.known = @ + 1]
      [] answer = "5xx" /\ me.after = "look" -> [me EXCEPT !.pc = "look", !.msg = <<>>, !.round = 0, !.about = <<>>]
      [] OTHER -> \* a refusal, or a server error outside the inner handlers
            [me EXCEPT !.pc = "sent", !.after = "idle",
                       !.msg = Complete(a, IF answer = "5xx" THEN "REQUEUE" ELSE "FAILED")]

Reply(m, answer) ==
    \/ /\ ~Waiting(m)
       /\ net' = net \ {m}
       /\ UNCHANGED <<ag, trouble>>
    \/ /\ Waiting(m)
       /\ LET next == AgentAfter(m, answer) IN
          /\ ag' = [ag EXCEPT ![m.from] = next]
          /\ net' = (net \ {m}) \cup (IF next.pc = "sent" THEN {next.msg} ELSE {})
       /\ UNCHANGED trouble
    \/ /\ Waiting(m) /\ Trouble
       /\ net' = net \ {m}
       /\ UNCHANGED ag

Refuses(m) ==
    /\ m \in net /\ ~Holds(m.tok)
    /\ Reply(m, "LEASE_LOST")
    /\ UNCHANGED <<server, op, history>>

\* mutant: the client_request_id of a proposal is not looked up.
KeyUsed_Ignored(k) == FALSE

KeyUsed(k) == \E i \in 1..Len(props) : props[i].key = k
KeyOfThisIteration(k) == \E i \in 1..Len(props) : props[i].key = k /\ props[i].iter = requeues

\* A repeated proposal is answered with what the first one created.
ProposalRepeated(m) ==
    /\ m \in net /\ m.kind = "proposal" /\ Holds(m.tok)
    /\ KeyUsed(m.key)
    /\ Reply(m, IF KeyOfThisIteration(m.key) THEN "ok" ELSE "4xx")
    /\ UNCHANGED <<server, op, history>>

\* plan_run accepts a run that is queued, planning or running; its error is
\* not caught by the handler, so the client sees a server error.
Plannable == {"QUEUED", "PLANNING", "RUNNING"}

ProposalAccepted(m) ==
    /\ m \in net /\ m.kind = "proposal" /\ Holds(m.tok)
    /\ ~KeyUsed(m.key) /\ run \in Plannable
    /\ props' = Append(props, [key |-> m.key, iter |-> requeues])
    /\ work' = Append(work, "pending")
    /\ res' = Append(res, [ok |-> 0, fail |-> 0])
    /\ run' = IF run = "QUEUED" THEN "PLANNING" ELSE run
    /\ Reply(m, "ok")
    /\ UNCHANGED <<completed, requeues, decs, lease, batch, op, history>>

ProposalFails(m) ==
    /\ m \in net /\ m.kind = "proposal" /\ Holds(m.tok)
    /\ ~KeyUsed(m.key) /\ run \notin Plannable
    /\ Reply(m, "5xx")
    /\ refused' = TRUE
    /\ UNCHANGED <<server, op, overtaken, iterated>>

DecisionKeyUsed(k) == \E d \in decs : d.key = k

\* RESULT_NOT_READY, or the request id belongs to another result's decision.
DecisionRefused(m) ==
    /\ m \in net /\ m.kind = "decision" /\ Holds(m.tok)
    /\ \/ CurResult = <<>>
       \/ \E d \in decs : d.key = m.key /\ d.res # CurResult
    /\ Reply(m, "4xx")
    /\ UNCHANGED <<server, op, history>>

\* mutant: only the request id is compared, not the result it is about.
AlreadyDecided_ById(m) == DecisionKeyUsed(m.key)

AlreadyDecided(m) == Decided(CurResult)

DecisionRepeated(m) ==
    /\ m \in net /\ m.kind = "decision" /\ Holds(m.tok)
    /\ CurResult # <<>>
    /\ IF DecisionKeyUsed(m.key)
       THEN \A d \in decs : d.key = m.key => d.res = CurResult
       ELSE AlreadyDecided(m)
    /\ Reply(m, "ok")
    /\ UNCHANGED <<server, op, history>>

\* RECOMMEND_SHADOW finalizes: from RUNNING or EVALUATING only, and the
\* report may say anything.  A rejected candidate has no legal transition
\* out of EVALUATING, so the whole decision is rolled back.
Finalizes(m) == m.act = "SHADOW"
RunAfterDecision == IF run = "RUNNING" THEN "EVALUATING" ELSE run

DecisionAccepted(m) ==
    /\ m \in net /\ m.kind = "decision" /\ Holds(m.tok)
    /\ CurResult # <<>> /\ ~DecisionKeyUsed(m.key) /\ ~AlreadyDecided(m)
    /\ \/ run' = RunAfterDecision                 \* no effect, or autonomy too low
       \/ Finalizes(m) /\ run \in {"RUNNING", "EVALUATING"} /\ run' \in Settled
    /\ decs' = decs \cup {[key |-> m.key, res |-> CurResult, act |-> m.act]}
    /\ completed' = completed + 1
    /\ Reply(m, "ok")
    /\ UNCHANGED <<requeues, props, work, res, lease, batch, op, history>>

DecisionRolledBack(m) ==
    /\ m \in net /\ m.kind = "decision" /\ Holds(m.tok)
    /\ CurResult # <<>> /\ ~DecisionKeyUsed(m.key) /\ ~AlreadyDecided(m)
    /\ Finalizes(m)
    /\ Reply(m, "4xx")
    /\ UNCHANGED <<server, op, history>>

\* /complete walks the run through transition_run and deletes the lease.
\* mutant: /complete writes the status without transition_run.
CompleteFrom_Any(act) == RunStates

CompleteFrom(act) ==
    CASE act = "COMPLETED" -> {"RUNNING", "EVALUATING"}
      [] act = "FAILED" -> {"QUEUED", "PLANNING", "RUNNING", "EVALUATING", "PAUSED"}
      [] act = "REQUEUE" -> {"PLANNING", "RUNNING", "EVALUATING"}
CompleteTo(act) == IF act = "REQUEUE" THEN "QUEUED" ELSE act

CompleteAccepted(m) ==
    /\ m \in net /\ m.kind = "complete" /\ Holds(m.tok)
    /\ \/ m.act = "COMPLETED" /\ run \in Settled /\ UNCHANGED run
       \/ run \in CompleteFrom(m.act) /\ run' = CompleteTo(m.act)
    /\ requeues' = IF m.act = "REQUEUE" THEN requeues + 1 ELSE requeues
    /\ lease' = Released
    /\ Reply(m, "ok")
    /\ UNCHANGED <<completed, props, work, res, decs, batch, op, history>>

\* The invalid transition is not caught: the client sees a server error and
\* the lease stays.
CompleteFails(m) ==
    /\ m \in net /\ m.kind = "complete" /\ Holds(m.tok)
    /\ run \notin CompleteFrom(m.act)
    /\ ~(m.act = "COMPLETED" /\ run \in Settled)
    /\ Reply(m, "5xx")
    /\ UNCHANGED <<server, op, history>>

Handles(m) ==
    \/ Refuses(m)
    \/ ProposalRepeated(m) \/ ProposalAccepted(m) \/ ProposalFails(m)
    \/ DecisionRefused(m) \/ DecisionRepeated(m) \/ DecisionAccepted(m) \/ DecisionRolledBack(m)
    \/ CompleteAccepted(m) \/ CompleteFails(m)

-----------------------------------------------------------------------------
(* The queue, as the module ResearchQueue works it off.  A session loads the *)
(* run once and drains what is pending; what it tests and writes afterwards *)
(* is that copy of the run row.                                             *)

Waits == \E i \in 1..Len(work) : work[i] = "pending"

QueueLoads(q) ==
    /\ batch[q] = "none"
    /\ run \in {"PLANNING", "RUNNING"} /\ Waits
    /\ batch' = [batch EXCEPT ![q] = run]
    /\ UNCHANGED <<run, completed, requeues, props, work, res, decs, lease, net, ag, op, trouble, history>>

\* The claim does not look at the stored status: a copy that says PLANNING is
\* written back as RUNNING, over a final status too.  It may be the last claim
\* of the session.
StepsStart(q, i) ==
    /\ batch[q] # "none" /\ work[i] = "pending"
    /\ work' = [work EXCEPT ![i] = "running"]
    /\ run' = IF batch[q] = "PLANNING" THEN "RUNNING" ELSE run
    /\ \E left \in {"RUNNING", "none"} : batch' = [batch EXCEPT ![q] = left]
    /\ UNCHANGED <<completed, requeues, props, res, decs, lease, net, ag, op, trouble, history>>

\* Nothing is left to claim.  (A session that dies leaves nothing behind here;
\* its steps are those ResearchQueue recovers.)
QueueStops(q) ==
    /\ batch[q] # "none" /\ ~Waits
    /\ batch' = [batch EXCEPT ![q] = "none"]
    /\ UNCHANGED <<run, completed, requeues, props, work, res, decs, lease, net, ag, op, trouble, history>>

Stored(i, kind) == [res EXCEPT ![i][kind] = @ + 1]

\* ok and fail end the work with a result; a step that expired or was invalid
\* ends it without one.
StepsEnd(i) ==
    /\ work[i] = "running"
    /\ \/ res' = Stored(i, "ok") /\ work' = [work EXCEPT ![i] = "done"]
       \/ res' = Stored(i, "fail") /\ work' = [work EXCEPT ![i] = "done"]
       \/ res' = res /\ work' = [work EXCEPT ![i] = "done"]
    /\ UNCHANGED <<run, completed, requeues, props, decs, lease, batch, net, ag, op, trouble, history>>

\* A transient failure leaves a failed result and the step pending again.
StepsRetry(i) ==
    /\ work[i] = "running" /\ Trouble
    /\ res' = Stored(i, "fail")
    /\ work' = [work EXCEPT ![i] = "pending"]
    /\ UNCHANGED <<run, completed, requeues, props, decs, lease, batch, net, ag, op, history>>

\* An attempt recovery had given away stores its result after the step ended.
LateResult(i, kind) ==
    /\ work[i] = "done" /\ Trouble
    /\ overtaken' = TRUE
    /\ res' = Stored(i, kind)
    /\ UNCHANGED <<run, completed, requeues, props, work, decs, lease, batch, net, ag, op, refused, iterated>>

-----------------------------------------------------------------------------
(* The operator.  Pause, resume, cancel and evaluate load the run without a *)
(* lock and write the new status in a second statement.                     *)

OperatorFrom(to) ==
    CASE to = "PAUSED" -> {"PLANNING", "RUNNING", "EVALUATING"}
      [] to = "RUNNING" -> {"PAUSED"}
      [] to = "CANCELLED" -> {"QUEUED", "PLANNING", "RUNNING", "EVALUATING", "PAUSED"}
      [] to = "EVALUATING" -> {"RUNNING"}

OperatorReads(to) ==
    /\ op.pc = "idle" /\ Trouble
    /\ run \in OperatorFrom(to)
    /\ op' = [pc |-> "read", to |-> to]
    /\ UNCHANGED <<server, net, ag, history>>

OperatorWrites ==
    /\ op.pc = "read"
    /\ run' = op.to
    /\ op' = [pc |-> "idle", to |-> "none"]
    /\ UNCHANGED <<completed, requeues, props, work, res, decs, lease, batch, net, ag, trouble, history>>

\* /iterate locks the row.
Iterates ==
    /\ Trouble
    /\ run \in {"PLANNING", "RUNNING", "EVALUATING"}
    /\ run' = "QUEUED"
    /\ iterated' = TRUE
    /\ UNCHANGED <<completed, requeues, props, work, res, decs, lease, batch, net, ag, op, overtaken, refused>>

-----------------------------------------------------------------------------

AgentStep(a) ==
    \/ Resumes(a) \/ Claims(a) \/ LosesLease(a) \/ RunsOutOfLoops(a) \/ Looks(a)
    \/ Proposes(a) \/ SeesResult(a) \/ WaitTimesOut(a)
    \/ \E act \in Decisions : Decides(a, act)

Next ==
    \/ \E a \in Agents : AgentStep(a) \/ ThinkingFails(a) \/ GivesUp(a) \/ TimesOut(a) \/ Crashes(a)
    \/ LeaseRunsOut \/ HeartbeatsFail
    \/ \E m \in net : Handles(m)
    \/ \E i \in 1..Len(work) :
         \/ StepsEnd(i) \/ StepsRetry(i)
         \/ \E kind \in {"ok", "fail"} : LateResult(i, kind)
    \/ \E q \in Sessions :
         QueueLoads(q) \/ QueueStops(q) \/ \E i \in 1..Len(work) : StepsStart(q, i)
    \/ \E to \in {"PAUSED", "RUNNING", "CANCELLED", "EVALUATING"} : OperatorReads(to)
    \/ OperatorWrites \/ Iterates

Spec == Init /\ [][Next]_vars

(***************************************************************************)
(* Fairness: the agent's loop and the API keep running, the HTTP client has *)
(* a time-out, a lease behind a dead process runs out, the scheduler drains *)
(* the queue (ResearchQueue!QueueDrains) and an operator call finishes.     *)
(***************************************************************************)
Fairness ==
    /\ \A a \in Agents : WF_vars(AgentStep(a)) /\ WF_vars(GivesUp(a))
    /\ WF_vars(\E m \in net : Handles(m))
    /\ WF_vars(LeaseRunsOut)
    /\ \A q \in Sessions : WF_vars(QueueLoads(q) \/ \E i \in 1..Len(work) : StepsStart(q, i))
    /\ WF_vars(\E i \in 1..Len(work) : StepsEnd(i))
    /\ WF_vars(OperatorWrites)

FairSpec == Spec /\ Fairness

-----------------------------------------------------------------------------
(* Properties.                                                              *)

TypeOK ==
    /\ run \in RunStates
    /\ completed \in Nat /\ requeues \in Nat
    /\ props \in Seq([key : Nat \X Nat \X Nat, iter : Nat])
    /\ work \in Seq({"pending", "running", "done"}) /\ Len(work) = Len(props)
    /\ res \in Seq([ok : Nat, fail : Nat]) /\ Len(res) = Len(props)
    /\ \A d \in decs : d.act \in Decisions /\ d.res[1] \in 1..Len(props)
    /\ batch \in [Sessions -> {"none", "PLANNING", "RUNNING"}]
    /\ lease.owner \in Agents \cup {NoOne} /\ lease.live \in BOOLEAN
    /\ lease.tok \in {0, lease.last}
    /\ \A m \in net : m.kind \in {"proposal", "decision", "complete"} /\ m.from \in Agents
    /\ \A a \in Agents : /\ ag[a].pc \in {"idle", "look", "propose", "wait", "decide", "sent"}
                         /\ ag[a].tok <= lease.last /\ ag[a].loops <= MaxLoops
    /\ op.pc \in {"idle", "read"}

\* One hypothesis per iteration, in spite of lost answers, time-outs, crashes
\* and take-overs: the request id makes the repeated proposal of a restarted
\* agent the same proposal.  (A proposal the server failed is retried under a
\* new id, and then the delayed first one may still arrive: hence `refused'.)
OneProposalPerIteration ==
    ~refused => \A i, j \in 1..Len(props) : props[i].iter = props[j].iter => i = j

\* No result is decided twice, whoever repeats or delays the decision, so its
\* side effects (a SHADOW assignment, an overlay, an approval) happen once.
OneDecisionPerResult ==
    \A d, e \in decs : d.res = e.res => d = e

\* The experiment budget.  The agent tests its own copy of the counter; the
\* server tests nothing.
BudgetRespected ==
    ~refused /\ ~overtaken => completed <= Budget

\* A step of someone who had read the run before: an operator call between its
\* read and its write, or the first claim of a queue session that holds the run
\* as PLANNING.
EarlierReaderWrites ==
    \/ op.pc = "read" /\ op'.pc = "idle" /\ run' = op.to
    \/ \E q \in Sessions : batch[q] = "PLANNING" /\ batch'[q] # "PLANNING" /\ run' = "RUNNING"

\* A final status is left only by someone who read the run before it became
\* final.  No request of an agent, however late or repeated, revives the run.
FinalUnlessReadBefore ==
    [][(run \in Final /\ run' # run) => EarlierReaderWrites]_vars

\* A run that is not left paused and not pushed back by /iterate reaches a
\* final status: an agent always claims it again and gets it to the end.
RunFinishes ==
    [](~iterated) /\ []<>(run # "PAUSED") => <>(run \in Final)
=============================================================================
