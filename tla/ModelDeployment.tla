--------------------------- MODULE ModelDeployment ---------------------------
(***************************************************************************)
(* Which model serves an asset: deployment proposals, approvals, rejections *)
(* and rollbacks of the AI Lab, next to the other writers of the registry's *)
(* is_active flag (the dashboards' activation, the trainers, the deletion   *)
(* of a version).                                                          *)
(*                                                                         *)
(* Every call is a PostgreSQL transaction under READ COMMITTED.  A          *)
(* statement that selects rows FOR UPDATE by a predicate sees the rows      *)
(* committed when it starts, waits for their locks, and keeps the rows that *)
(* still match: such a statement is a Sees step and a Locks step.  A row    *)
(* selected by its id is locked in one step.  Writes appear at the commit,  *)
(* which is the last step of the call.                                      *)
(***************************************************************************)
EXTENDS Naturals, Sequences, FiniteSets

CONSTANTS
    Callers,    \* concurrent API calls
    NumModels,  \* model_registry ids; the last one is what a trainer adds
    Assets,
    Runs,       \* ids of AI Lab runs in SHADOW; run r's candidate is model r + 1
    MaxCalls,   \* bound: calls
    MaxOthers   \* bound: calls outside propose, approve, reject and rollback

ASSUME DeploymentAssumption ==
    /\ NumModels \in Nat /\ MaxCalls \in Nat /\ MaxOthers \in Nat
    /\ NumModels > 1 /\ Runs \subseteq 1..(NumModels - 2)

Models == 1..NumModels
Cand(r) == r + 1

VARIABLES
    assetOf,    \* the asset column of each model, fixed
    exists,     \* model_registry rows
    active,     \* the rows whose is_active is TRUE
    run,        \* run[r]: the run's status
    revs,       \* deployment_revisions, by id
    apprs,      \* ai_approval_requests, by id
    tx,         \* tx[c]: the transaction of caller c
    calls,      \* calls so far
    others,     \* calls outside the four so far
    meddled     \* history: models deleted, or switched outside the deployments

vars == <<assetOf, exists, active, run, revs, apprs, tx, calls, others, meddled>>
tables == <<exists, active, run, revs, apprs>>

RunStates == {"SHADOW", "PENDING_APPROVAL", "ACTIVE", "REJECTED"}
RevStates == {"PENDING_APPROVAL", "ACTIVE", "SUPERSEDED", "REJECTED", "ROLLED_BACK"}
ApprStates == {"PENDING", "APPROVED", "REJECTED"}

\* arg: the id the call is about; saw: what the last predicate read; old: rows
\* to switch off; prev: ACTIVE revisions it will replace; held: row locks; seen:
\* the status of the run that the session has loaded.
Idle == [pc |-> "idle", arg |-> 0, saw |-> {}, rev |-> 0, old |-> {}, prev |-> {}, held |-> {},
         seen |-> "none"]

Init ==
    /\ exists = 1..(NumModels - 1)
    /\ assetOf \in [Models -> Assets]
    /\ active = {1}
    /\ run = [r \in Runs |-> "SHADOW"]
    /\ revs = <<>> /\ apprs = <<>>
    /\ tx = [c \in Callers |-> Idle]
    /\ calls = 0 /\ others = 0 /\ meddled = FALSE

-----------------------------------------------------------------------------
(* Locks and statements.                                                    *)

Free(c, rows) == \A d \in Callers \ {c} : tx[d].held \cap rows = {}

\* Commit or rollback: the locks go.
Ends(c) == tx' = [tx EXCEPT ![c] = Idle]

Moves(c, t) == tx' = [tx EXCEPT ![c] = t]

\* The answer 409 or 422 (AILabError), or 500: nothing is written.
Fails(c) == Ends(c) /\ UNCHANGED <<tables, meddled>>

Locks(c, rows, pc) == [tx[c] EXCEPT !.pc = pc, !.held = @ \cup rows]

Row(kind, ids) == {kind} \X ids
Same(m) == {k \in exists : assetOf[k] = assetOf[m]}
ActiveRevs == {i \in 1..Len(revs) : revs[i].status = "ACTIVE"}
CandOf(i) == Cand(revs[i].run)
Highest(S) == CHOOSE i \in S : \A j \in S : j <= i

\* The unique index on (asset) WHERE is_active, of an uncommitted flag.
Slot(m) == <<"slot", assetOf[m]>>

Begins(c, pc, arg) ==
    /\ tx[c].pc = "idle" /\ calls < MaxCalls
    /\ calls' = calls + 1
    /\ Moves(c, [Idle EXCEPT !.pc = pc, !.arg = arg])
    /\ UNCHANGED <<assetOf, tables, meddled>>

Other == others < MaxOthers /\ others' = others + 1

-----------------------------------------------------------------------------
(* propose_live_deployment.                                                 *)

PendingOf(r) == {i \in 1..Len(apprs) :
                   apprs[i].run = r /\ apprs[i].action = "ACTIVATE" /\ apprs[i].status = "PENDING"}

ProposeLocksRun(c) ==
    LET r == tx[c].arg IN
    /\ tx[c].pc = "p_run" /\ Free(c, Row("run", {r}))
    /\ IF run[r] \in {"SHADOW", "PENDING_APPROVAL"}
       THEN /\ Moves(c, [Locks(c, Row("run", {r}), "p_appr") EXCEPT !.saw = PendingOf(r)])
            /\ UNCHANGED <<tables, meddled>>
       ELSE Fails(c)
    /\ UNCHANGED <<assetOf, calls, others>>

\* A pending request whose revision exists is handed back.
ProposeFindsPending(c) ==
    /\ tx[c].pc = "p_appr"
    /\ \E i \in tx[c].saw :
         /\ Free(c, Row("appr", {i}))
         /\ IF i \in PendingOf(tx[c].arg) /\ apprs[i].target \in 1..Len(revs)
            THEN Ends(c)
            ELSE Moves(c, [Locks(c, Row("appr", {i}), "p_see") EXCEPT !.saw = {}])
    /\ UNCHANGED <<assetOf, tables, calls, others, meddled>>

\* The parent is the newest ACTIVE revision of the statement's snapshot.
ProposeSeesParent(c) ==
    /\ \/ tx[c].pc = "p_see"
       \/ tx[c].pc = "p_appr" /\ tx[c].saw = {}
    /\ Moves(c, [tx[c] EXCEPT !.pc = "p_parent", !.saw = ActiveRevs])
    /\ UNCHANGED <<assetOf, tables, calls, others, meddled>>

\* ORDER BY id DESC LIMIT 1 FOR UPDATE: a row that stopped matching while it was
\* waited for is skipped.
Skips(c) ==
    /\ tx[c].pc \in {"p_parent", "r_cur"} /\ tx[c].saw # {}
    /\ Free(c, Row("rev", {Highest(tx[c].saw)}))
    /\ Highest(tx[c].saw) \notin ActiveRevs
    /\ Moves(c, [tx[c] EXCEPT !.saw = @ \ {Highest(@)}])
    /\ UNCHANGED <<assetOf, tables, calls, others, meddled>>

\* The newest row still ACTIVE, or none.
Newest(c) == IF tx[c].saw = {} THEN 0 ELSE Highest(tx[c].saw)
NewestReady(c) == Newest(c) # 0 => Newest(c) \in ActiveRevs /\ Free(c, Row("rev", {Newest(c)}))

\* create_deployment_revision reuses an open revision with the same manifest.
Reusable(r) == {i \in 1..Len(revs) : revs[i].run = r /\ revs[i].status = "PENDING_APPROVAL"}

Proposes(c) ==
    LET r == tx[c].arg
        new == [run |-> r, parent |-> Newest(c), status |-> "PENDING_APPROVAL"]
        i == IF Reusable(r) = {} THEN Len(revs) + 1 ELSE Highest(Reusable(r)) IN
    /\ tx[c].pc = "p_parent" /\ NewestReady(c)
    /\ revs' = IF Reusable(r) = {} THEN Append(revs, new) ELSE revs
    /\ apprs' = Append(apprs, [run |-> r, target |-> i, action |-> "ACTIVATE", status |-> "PENDING"])
    /\ run' = [run EXCEPT ![r] = "PENDING_APPROVAL"]
    /\ Ends(c)
    /\ UNCHANGED <<assetOf, exists, active, calls, others, meddled>>

\* request_approval, through the same endpoint with a diff or another action:
\* target_id is the caller's, by default the run's id; it is read later as the
\* id of a revision, of any run, perhaps one not yet proposed.
Targets(r) == {r} \cup 1..(Len(revs) + 1)

RequestApproval(r, action, target) ==
    /\ calls < MaxCalls /\ calls' = calls + 1 /\ Other
    /\ run[r] \in IF action = "ACTIVATE" THEN {"SHADOW", "PENDING_APPROVAL"}
                  ELSE {"ACTIVE", "SHADOW", "PENDING_APPROVAL"}
    /\ apprs' = Append(apprs, [run |-> r, target |-> target, action |-> action, status |-> "PENDING"])
    /\ UNCHANGED <<assetOf, exists, active, run, revs, tx, meddled>>

-----------------------------------------------------------------------------
(* approve_and_activate_deployment.                                         *)

ApprOpen(i) == apprs[i].status = "PENDING"

\* The run is loaded here, without a lock, and stays in the session.
ApproveLocksRequest(c) ==
    LET i == tx[c].arg IN
    /\ tx[c].pc = "a_appr" /\ Free(c, Row("appr", {i}))
    /\ IF ApprOpen(i) /\ apprs[i].action = "ACTIVATE"
       THEN /\ Moves(c, [Locks(c, Row("appr", {i}), "a_rev")
                           EXCEPT !.rev = apprs[i].target, !.seen = run[apprs[i].run]])
            /\ UNCHANGED <<tables, meddled>>
       ELSE Fails(c)
    /\ UNCHANGED <<assetOf, calls, others>>

\* mutant: any revision can be activated.
RevOpen_Any(c) == TRUE

\* approve takes an open revision, rollback a superseded one.
RevOpen(c) == revs[tx[c].rev].status = IF tx[c].pc = "a_rev" THEN "PENDING_APPROVAL" ELSE "SUPERSEDED"

\* The artifact's link to the registry (SET NULL on deletion) and its row.
HasModel(m) == m \in exists

LocksRevision(c) ==
    LET i == tx[c].rev IN
    /\ tx[c].pc \in {"a_rev", "r_rev"} /\ Free(c, Row("rev", {i}))
    /\ IF i \in 1..Len(revs) /\ RevOpen(c) /\ HasModel(CandOf(i))
       THEN /\ Moves(c, Locks(c, Row("rev", {i}), IF tx[c].pc = "a_rev" THEN "a_cand" ELSE "r_cand"))
            /\ UNCHANGED <<tables, meddled>>
       ELSE Fails(c)
    /\ UNCHANGED <<assetOf, calls, others>>

LocksCandidate(c) ==
    LET m == CandOf(tx[c].rev) IN
    /\ tx[c].pc \in {"a_cand", "r_cand"} /\ Free(c, Row("model", {m}))
    /\ IF HasModel(m)
       THEN /\ Moves(c, Locks(c, Row("model", {m}), IF tx[c].pc = "a_cand" THEN "a_see" ELSE "r_see"))
            /\ UNCHANGED <<tables, meddled>>
       ELSE Fails(c)
    /\ UNCHANGED <<assetOf, calls, others>>

SeesActiveModels(c) ==
    /\ tx[c].pc \in {"a_see", "r_see"}
    /\ Moves(c, [tx[c] EXCEPT !.pc = IF @ = "a_see" THEN "a_models" ELSE "r_models",
                              !.saw = Same(CandOf(tx[c].rev)) \cap active])
    /\ UNCHANGED <<assetOf, tables, calls, others, meddled>>

LocksActiveModels(c) ==
    /\ tx[c].pc \in {"a_models", "r_models"} /\ Free(c, Row("model", tx[c].saw))
    /\ LET old == tx[c].saw \cap active IN
       Moves(c, [Locks(c, Row("model", old), IF tx[c].pc = "a_models" THEN "a_flush" ELSE "r_flush")
                   EXCEPT !.saw = {}, !.old = old])
    /\ UNCHANGED <<assetOf, tables, calls, others, meddled>>

\* The unique index refuses m's flag when another row of the asset has it: one
\* this transaction did not switch off, or one it switches off later in the same
\* flush, which updates the rows in the order of their ids.
IndexRefuses(m, old) ==
    \E k \in (Same(m) \cap active) \ {m} : k \notin old \/ k > m

\* The next query flushes the flags: approve's reads the ACTIVE revisions.
ApproveFlushes(c) ==
    LET m == CandOf(tx[c].rev) IN
    /\ tx[c].pc = "a_flush" /\ Free(c, {Slot(m)})
    /\ IF IndexRefuses(m, tx[c].old)
       THEN Fails(c)
       ELSE /\ Moves(c, [Locks(c, {Slot(m)}, "a_revs") EXCEPT !.saw = ActiveRevs \ {tx[c].rev}])
            /\ UNCHANGED <<tables, meddled>>
    /\ UNCHANGED <<assetOf, calls, others>>

\* mutant: the revisions that were ACTIVE are left so.
ApproveLocksActive_KeepsThem(c) ==
    /\ tx[c].pc = "a_revs" /\ Free(c, Row("rev", tx[c].saw))
    /\ Moves(c, [tx[c] EXCEPT !.pc = "a_run", !.saw = {}])
    /\ UNCHANGED <<assetOf, tables, calls, others, meddled>>

ApproveLocksActive(c) ==
    /\ tx[c].pc = "a_revs" /\ Free(c, Row("rev", tx[c].saw))
    /\ LET prev == tx[c].saw \cap ActiveRevs IN
       Moves(c, [Locks(c, Row("rev", prev), "a_run") EXCEPT !.saw = {}, !.prev = prev])
    /\ UNCHANGED <<assetOf, tables, calls, others, meddled>>

Switched(c) == (active \ tx[c].old) \cup {CandOf(tx[c].rev)}

\* The run's row is locked but not read again: the test is on the status loaded
\* with the request, and ACTIVE overwrites what is stored.
Approves(c) ==
    LET i == tx[c].arg
        r == apprs[i].run IN
    /\ tx[c].pc = "a_run" /\ Free(c, Row("run", {r}))
    /\ active' = Switched(c)
    /\ revs' = [j \in 1..Len(revs) |->
                  CASE j = tx[c].rev -> [revs[j] EXCEPT !.status = "ACTIVE"]
                    [] j \in tx[c].prev -> [revs[j] EXCEPT !.status = "SUPERSEDED"]
                    [] OTHER -> revs[j]]
    /\ apprs' = [apprs EXCEPT ![i].status = "APPROVED"]
    /\ run' = [run EXCEPT ![r] = IF tx[c].seen = "PENDING_APPROVAL" THEN "ACTIVE" ELSE run[r]]
    /\ Ends(c)
    /\ UNCHANGED <<assetOf, exists, calls, others, meddled>>

-----------------------------------------------------------------------------
(* reject_deployment_approval.                                              *)

RejectLocksRequest(c) ==
    LET i == tx[c].arg IN
    /\ tx[c].pc = "j_appr" /\ Free(c, Row("appr", {i}))
    /\ IF ApprOpen(i)
       THEN /\ Moves(c, [Locks(c, Row("appr", {i}), "j_rev") EXCEPT !.rev = apprs[i].target])
            /\ UNCHANGED <<tables, meddled>>
       ELSE Fails(c)
    /\ UNCHANGED <<assetOf, calls, others>>

\* Without the revision the audit event cannot be written and all is undone.
RejectLocksRevision(c) ==
    LET i == tx[c].rev IN
    /\ tx[c].pc = "j_rev" /\ Free(c, Row("rev", {i}))
    /\ IF i \in 1..Len(revs)
       THEN Moves(c, Locks(c, Row("rev", {i}), "j_run")) /\ UNCHANGED <<tables, meddled>>
       ELSE Fails(c)
    /\ UNCHANGED <<assetOf, calls, others>>

Rejects(c) ==
    LET i == tx[c].arg
        r == apprs[i].run IN
    /\ tx[c].pc = "j_run" /\ Free(c, Row("run", {r}))
    /\ revs' = [revs EXCEPT ![tx[c].rev].status = "REJECTED"]
    /\ apprs' = [apprs EXCEPT ![i].status = "REJECTED"]
    /\ run' = [run EXCEPT ![r] = IF @ = "PENDING_APPROVAL" THEN "REJECTED" ELSE @]
    /\ Ends(c)
    /\ UNCHANGED <<assetOf, exists, active, calls, others, meddled>>

-----------------------------------------------------------------------------
(* rollback_deployment: to the parent (arg 0) or to a chosen revision.      *)

RollbackSeesCurrent(c) ==
    /\ tx[c].pc = "r_see_cur"
    /\ Moves(c, [tx[c] EXCEPT !.pc = "r_cur", !.saw = ActiveRevs])
    /\ UNCHANGED <<assetOf, tables, calls, others, meddled>>

RollbackLocksCurrent(c) ==
    LET cur == Newest(c)
        parent == IF cur = 0 THEN 0 ELSE revs[cur].parent
        target == IF tx[c].arg # 0 THEN tx[c].arg ELSE parent IN
    /\ tx[c].pc = "r_cur" /\ NewestReady(c)
    /\ IF target = 0
       THEN Fails(c)
       ELSE /\ Moves(c, [Locks(c, Row("rev", {cur} \ {0}), "r_rev")
                           EXCEPT !.saw = {}, !.prev = {cur} \ {0}, !.rev = target])
            /\ UNCHANGED <<tables, meddled>>
    /\ UNCHANGED <<assetOf, calls, others>>

RollsBack(c) ==
    LET m == CandOf(tx[c].rev) IN
    /\ tx[c].pc = "r_flush" /\ Free(c, {Slot(m)})
    /\ IF IndexRefuses(m, tx[c].old)
       THEN Fails(c)
       ELSE /\ active' = Switched(c)
            /\ revs' = [j \in 1..Len(revs) |->
                          CASE j = tx[c].rev -> [revs[j] EXCEPT !.status = "ACTIVE"]
                            [] j \in tx[c].prev -> [revs[j] EXCEPT !.status = "ROLLED_BACK"]
                            [] OTHER -> revs[j]]
            /\ Ends(c)
            /\ UNCHANGED <<exists, run, apprs, meddled>>
    /\ UNCHANGED <<assetOf, calls, others>>

-----------------------------------------------------------------------------
(* The other writers: the dashboards' activate and delete, the trainers.    *)

\* UPDATE ... SET is_active = FALSE for the whole asset ...
SwitchSees(c) ==
    /\ tx[c].pc = "s_see"
    /\ Moves(c, [tx[c] EXCEPT !.pc = "s_off", !.saw = Same(tx[c].arg)])
    /\ UNCHANGED <<assetOf, tables, calls, others, meddled>>

SwitchLocks(c) ==
    /\ tx[c].pc = "s_off" /\ Free(c, Row("model", tx[c].saw))
    /\ Moves(c, [Locks(c, Row("model", tx[c].saw), "s_on") EXCEPT !.saw = {}, !.old = tx[c].saw])
    /\ UNCHANGED <<assetOf, tables, calls, others, meddled>>

\* ... then TRUE for the version, which may have been deleted meanwhile, or a
\* trainer's new row.
Trained(m) == m = NumModels /\ m \notin exists

SwitchCommits(c) ==
    LET m == tx[c].arg
        row == IF m \in exists \/ Trained(m) THEN {m} ELSE {} IN
    /\ tx[c].pc = "s_on" /\ Free(c, {Slot(m)})
    /\ IF row # {} /\ ~(Same(m) \cap active \subseteq tx[c].old)
       THEN Fails(c)
       ELSE /\ active' = (active \ tx[c].old) \cup row
            /\ exists' = exists \cup row
            /\ meddled' = TRUE
            /\ Ends(c)
            /\ UNCHANGED <<run, revs, apprs>>
    /\ UNCHANGED <<assetOf, calls, others>>

\* The version was not active when it was looked up.
Deletes(c) ==
    LET m == tx[c].arg IN
    /\ tx[c].pc = "d_del" /\ Free(c, Row("model", {m}))
    /\ exists' = exists \ {m}
    /\ active' = active \ {m}
    /\ meddled' = TRUE
    /\ Ends(c)
    /\ UNCHANGED <<assetOf, run, revs, apprs, calls, others>>

-----------------------------------------------------------------------------

Starts(c) ==
    \/ /\ \/ \E r \in Runs : Begins(c, "p_run", r)
          \/ \E i \in 1..Len(apprs) : Begins(c, "a_appr", i) \/ Begins(c, "j_appr", i)
          \/ \E i \in 0..Len(revs) : Begins(c, "r_see_cur", i)
       /\ UNCHANGED others
    \/ /\ \/ \E m \in exists \cup {NumModels} : Begins(c, "s_see", m)
          \/ \E m \in exists \ active : Begins(c, "d_del", m)
       /\ Other

Step(c) ==
    \/ ProposeLocksRun(c) \/ ProposeFindsPending(c) \/ ProposeSeesParent(c) \/ Proposes(c)
    \/ Skips(c)
    \/ ApproveLocksRequest(c) \/ LocksRevision(c) \/ LocksCandidate(c)
    \/ SeesActiveModels(c) \/ LocksActiveModels(c)
    \/ ApproveFlushes(c) \/ ApproveLocksActive(c) \/ Approves(c)
    \/ RejectLocksRequest(c) \/ RejectLocksRevision(c) \/ Rejects(c)
    \/ RollbackSeesCurrent(c) \/ RollbackLocksCurrent(c) \/ RollsBack(c)
    \/ SwitchSees(c) \/ SwitchLocks(c) \/ SwitchCommits(c) \/ Deletes(c)

\* The rows the next step of c waits for.
Wants(c) ==
    CASE tx[c].pc = "p_run" -> Row("run", {tx[c].arg})
      [] tx[c].pc = "p_appr" -> Row("appr", tx[c].saw)
      [] tx[c].pc \in {"p_parent", "r_cur"} -> Row("rev", {Newest(c)})
      [] tx[c].pc \in {"a_appr", "j_appr"} -> Row("appr", {tx[c].arg})
      [] tx[c].pc \in {"a_rev", "r_rev", "j_rev"} -> Row("rev", {tx[c].rev})
      [] tx[c].pc \in {"a_cand", "r_cand"} -> Row("model", {CandOf(tx[c].rev)})
      [] tx[c].pc \in {"a_models", "r_models"} -> Row("model", tx[c].saw)
      [] tx[c].pc \in {"a_flush", "r_flush"} -> {Slot(CandOf(tx[c].rev))}
      [] tx[c].pc = "a_revs" -> Row("rev", tx[c].saw)
      [] tx[c].pc \in {"a_run", "j_run"} -> Row("run", {apprs[tx[c].arg].run})
      [] tx[c].pc = "s_off" -> Row("model", tx[c].saw)
      [] tx[c].pc = "s_on" -> {Slot(tx[c].arg)}
      [] tx[c].pc = "d_del" -> Row("model", {tx[c].arg})
      [] OTHER -> {}

\* PostgreSQL aborts one transaction of a cycle.
Waits(c, d) == c # d /\ Wants(c) \cap tx[d].held # {}
Aborts(c) ==
    /\ \E S \in SUBSET Callers : c \in S /\ \A d \in S : \E e \in S : Waits(d, e)
    /\ Fails(c)
    /\ UNCHANGED <<assetOf, calls, others>>

Next ==
    \/ \E c \in Callers : Starts(c) \/ Step(c) \/ Aborts(c)
    \/ \E r \in Runs, action \in {"ACTIVATE", "ROLLBACK"} :
         \E target \in Targets(r) : RequestApproval(r, action, target)

Spec == Init /\ [][Next]_vars

-----------------------------------------------------------------------------
(* Properties.                                                              *)

TypeOK ==
    /\ exists \subseteq Models /\ active \subseteq exists
    /\ run \in [Runs -> RunStates]
    /\ \A i \in 1..Len(revs) : revs[i].run \in Runs /\ revs[i].parent \in 0..(i - 1)
                               /\ revs[i].status \in RevStates
    /\ \A i \in 1..Len(apprs) : apprs[i].run \in Runs /\ apprs[i].status \in ApprStates
    /\ \A c \in Callers : tx[c].pc = "idle" => tx[c].held = {}
    /\ calls \in 0..MaxCalls

\* What is or was live has been approved by a human: no rollback, rejection or
\* retry makes an open proposal live.
LiveWasApproved ==
    \A i \in 1..Len(revs) : revs[i].status \in {"ACTIVE", "SUPERSEDED", "ROLLED_BACK"} =>
        \E k \in 1..Len(apprs) : apprs[k].target = i /\ apprs[k].status = "APPROVED"

\* The registry follows the revisions: what a revision calls ACTIVE serves, as
\* long as nobody switches or deletes a version outside the deployments.  An
\* approval that switches a version off has superseded its revision, though both
\* tables are read at different times; and a rollback has nothing to switch off.
ActiveRevisionServes ==
    ~meddled => \A i \in ActiveRevs : CandOf(i) \in active
=============================================================================
