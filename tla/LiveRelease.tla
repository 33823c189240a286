----------------------------- MODULE LiveRelease -----------------------------
(***************************************************************************)
(* How a filled PAPER entry becomes a LIVE order: the mirror worker        *)
(* (execution/live_mirror_worker.py) buffers it as a candidate, the        *)
(* release gate (execution/release_gate.py) validates it against the       *)
(* active trading session (execution/live_session_service.py), the risk    *)
(* limits (execution/risk_checks.py) and the exposure reservations         *)
(* (execution/exposure.py), and creates the LIVE rows, while operators     *)
(* drive sessions and switches through api/execution_api.py.               *)
(*                                                                         *)
(* The database runs READ COMMITTED: a transaction that issues several     *)
(* queries sees what others committed in between.  The gate and the two    *)
(* session endpoints that check before they write are therefore split at   *)
(* the queries whose answers a commit of the worker can change.  Row locks *)
(* (SELECT ... FOR UPDATE) are guards on the actions that would wait.      *)
(* The execution worker is the one ExecutionLifecycle models; here it is   *)
(* reduced to what the limits count.  One share costs one USDC unit.       *)
(***************************************************************************)
EXTENDS Integers, FiniteSets

CONSTANTS
  Signals,        \* filled PAPER entries, each with the LIVE rows released from it
  Sessions,       \* live_trading_sessions rows
  Gates,          \* release_gate processes
  Operators,      \* callers of the session and switch endpoints
  LimitChoices,   \* limits an operator may ask for
  GlobalMaxOpen,  \* MAX_OPEN_POSITIONS of runtime_settings
  GlobalMaxExp,   \* MAX_TOTAL_EXPOSURE_USDC of runtime_settings
  MaxCalls        \* bound: operator calls

LimitRecords == [budget : Nat, order : Nat, maxOpen : Nat, maxExp : Nat]

ASSUME SignalsAssumption == IsFiniteSet(Signals)
ASSUME LimitsAssumption == LimitChoices \subseteq LimitRecords
ASSUME GlobalsAssumption == GlobalMaxOpen \in Nat /\ GlobalMaxExp \in Nat
ASSUME CallsAssumption == MaxCalls \in Nat

NoSession == "none"
NoSignal == "none"
SessionStates == { "none", "DRAFT", "READY", "ACTIVE", "STOPPED" }
ReleaseModes == { "DISABLED", "MANUAL", "AUTO" }
CandidateStates == { "none", "NEW", "ELIGIBLE", "RELEASED", "REJECTED" }
\* SUBMITTING also stands for RECONCILING, FILLED for PARTIALLY_FILLED_FINAL,
\* REJECTED for the other failure states.
LiveRequestStates == { "none", "READY", "SUBMITTING", "FILLED", "REJECTED",
                       "MANUAL_REVIEW_REQUIRED" }
\* CLOSED also stands for RESOLVED_LOST.
LivePositionStates == { "none", "OPENING", "OPEN", "PARTIALLY_CLOSED",
                        "EXIT_REQUESTED", "CLOSED", "ENTRY_FAILED",
                        "RESOLVED_REDEEMABLE" }
REQUEST_HOLD_STATES == { "READY", "SUBMITTING", "MANUAL_REVIEW_REQUIRED" }
\* Positions count_session_positions and get_session_exposure count.
SESSION_POSITION_STATES == { "OPEN", "PARTIALLY_CLOSED", "EXIT_REQUESTED" }
ACTIVE_POSITION_STATES ==
  SESSION_POSITION_STATES \cup { "OPENING", "RESOLVED_REDEEMABLE" }
ACTIVE_TRADABLE_STATUSES == { "OPENING", "OPEN" }

VARIABLES
  \* runtime_settings
  trading,    \* LIVE_TRADING_ENABLED, the kill switch
  mirror,     \* LIVE_MIRROR_ENABLED
  cursor,     \* LIVE_MIRROR_STARTED_AT is set
  release,    \* LIVE_RELEASE_MODE
  \* live_trading_sessions
  status, limits,
  completed,  \* sessions whose stop_reason is COMPLETED
  \* the PAPER entry and its candidate
  paper,      \* "none", "filled" since the cursor, or "past" it
  old,        \* signals no longer acceptable: too old, market over, edge decayed
  cand,       \* live_mirror_candidates.state
  \* the LIVE rows released from the signal
  req,        \* execution_requests.state
  made,       \* LIVE requests ever inserted for the signal
  owner,      \* live_session_id
  amount,     \* max_spend_usdc
  held,       \* signals whose exposure reservation is not released
  pos, cost, left,  \* position_status, entry_cost_usdc, remaining_shares
  \* transactions in progress
  gate,       \* each release gate
  hand,       \* the request the worker has in hand, and what its risk check read
  call,       \* what each operator's endpoint has read and not yet written
  calls,      \* operator calls so far
  afterKill   \* history: orders sent since LIVE trading was last switched off

flagVars == <<trading, mirror, cursor, release>>
sessionVars == <<status, limits, completed>>
signalVars == <<paper, old, cand>>
requestVars == <<req, made, owner, amount, held>>
positionVars == <<pos, cost, left>>
callVars == <<call, calls>>
handVars == <<hand, afterKill>>
vars == <<flagVars, sessionVars, signalVars, requestVars, positionVars, gate, callVars,
          handVars>>

GatePhases == { "idle", "quoted", "locked", "exposure", "risk", "reserve" }
Idle == [pc |-> "idle", sig |-> NoSignal, sess |-> NoSession, seen |-> 0]
NoCall == [kind |-> "none", on |-> "none", from |-> "none"]

TypeOK ==
  /\ trading \in BOOLEAN /\ mirror \in BOOLEAN /\ cursor \in BOOLEAN
  /\ release \in ReleaseModes
  /\ status \in [Sessions -> SessionStates]
  /\ limits \in [Sessions -> LimitRecords]
  /\ completed \subseteq Sessions
  /\ paper \in [Signals -> { "none", "filled", "past" }]
  /\ old \subseteq Signals
  /\ cand \in [Signals -> CandidateStates]
  /\ req \in [Signals -> LiveRequestStates]
  /\ made \in [Signals -> Nat]
  /\ owner \in [Signals -> Sessions \cup { NoSession }]
  /\ amount \in [Signals -> Nat]
  /\ held \subseteq Signals
  /\ pos \in [Signals -> LivePositionStates]
  /\ cost \in [Signals -> Nat] /\ left \in [Signals -> Nat]
  /\ gate \in [Gates -> [pc : GatePhases, sig : Signals \cup { NoSignal },
                         sess : Sessions \cup { NoSession }, seen : Nat]]
  /\ call \in [Operators ->
                [kind : { "none", "create", "readiness", "activate", "finish", "approve" },
                 on : { "none" } \cup Sessions \cup Signals,
                 from : SessionStates \cup CandidateStates]]
  /\ calls \in 0 .. MaxCalls

\* What the worker holds: past its checks a request that is still READY.
HandOK ==
  /\ hand \in [pc : { "idle", "exposure", "quote" }, sig : Signals \cup { NoSignal },
               seen : Nat, max : Nat]
  /\ hand.pc # "idle" => hand.sig \in Signals /\ req[hand.sig] = "READY"
  /\ afterKill \in Nat

NoLimits == [budget |-> 0, order |-> 0, maxOpen |-> 0, maxExp |-> 0]

Init ==
  /\ trading = FALSE /\ mirror = FALSE /\ cursor = FALSE /\ release = "DISABLED"
  /\ status = [x \in Sessions |-> "none"] /\ completed = {}
  /\ limits = [x \in Sessions |-> NoLimits]
  /\ paper = [s \in Signals |-> "none"] /\ old = {}
  /\ cand = [s \in Signals |-> "none"]
  /\ req = [s \in Signals |-> "none"] /\ made = [s \in Signals |-> 0]
  /\ owner = [s \in Signals |-> NoSession] /\ amount = [s \in Signals |-> 0]
  /\ held = {}
  /\ pos = [s \in Signals |-> "none"]
  /\ cost = [s \in Signals |-> 0] /\ left = [s \in Signals |-> 0]
  /\ gate = [g \in Gates |-> Idle]
  /\ call = [o \in Operators |-> NoCall] /\ calls = 0
  /\ hand = [pc |-> "idle", sig |-> NoSignal, seen |-> 0, max |-> 0]
  /\ afterKill = 0

-----------------------------------------------------------------------------
(* What the limits count                                                   *)

\* The sum of f over S, as the size of a disjoint union of 1 .. f(s).
SumOver(f(_), S) == Cardinality(UNION { { s } \X (1 .. f(s)) : s \in S })
OwnedBy(x) == { s \in Signals : owner[s] = x }

ActiveSessions == { x \in Sessions : status[x] = "ACTIVE" }

\* Cost of the session's positions in the given states.
PositionCost(x, states) ==
  LET costOf(s) == cost[s] IN
  SumOver(costOf, { s \in OwnedBy(x) : pos[s] \in states })

\* amount_usdc less what the request has filled, over unreleased reservations;
\* filled_cost_usdc is set by the transaction that releases the reservation.
Reserved(S) ==
  LET amountOf(s) == amount[s] IN SumOver(amountOf, S \cap held)

\* get_session_budget_snapshot: committed_usdc, in one query.
Committed(x) ==
  PositionCost(x, ACTIVE_TRADABLE_STATUSES) + Reserved(OwnedBy(x))

Budget_remaining(x) ==
  IF limits[x].budget > Committed(x) THEN limits[x].budget - Committed(x) ELSE 0

\* count_session_positions
SessionPositions(x) ==
  Cardinality({ s \in OwnedBy(x) : pos[s] \in SESSION_POSITION_STATES })

\* Limits check_risk_limits applies: the active session's before the global ones.
MaxOpen ==
  IF ActiveSessions = {} THEN GlobalMaxOpen
  ELSE limits[CHOOSE x \in ActiveSessions : TRUE].maxOpen
MaxExposure ==
  IF ActiveSessions = {} THEN GlobalMaxExp
  ELSE limits[CHOOSE x \in ActiveSessions : TRUE].maxExp

\* check_risk_limits up to current_exp: the switch, the open positions and the
\* cost still at risk of every LIVE position but that of signal s.
OpenCountBut(s) ==
  Cardinality({ u \in Signals \ { s } : pos[u] \in ACTIVE_POSITION_STATES })
AtRiskCostBut(s) ==
  LET leftOf(u) == left[u] IN
  SumOver(leftOf, { u \in Signals \ { s } : pos[u] \in ACTIVE_POSITION_STATES })

\* get_reserved_exposure
ReservedExposureBut(s) ==
  Reserved({ u \in Signals \ { s } : req[u] \in REQUEST_HOLD_STATES })

-----------------------------------------------------------------------------
(* PAPER entries and the mirror worker                                     *)

\* A PAPER OPEN is filled; its updated_at is the time of the fill.
PaperFilled(s) ==
  /\ paper[s] = "none"
  /\ paper' = [paper EXCEPT ![s] = "filled"]
  /\ UNCHANGED <<flagVars, sessionVars, old, cand, requestVars, positionVars, gate,
                 callVars, handVars>>

\* The signal passes LIVE_MAX_SIGNAL_AGE_SEC, its market ends or its edge decays;
\* of a candidate already decided nobody asks.
SignalAges(s) ==
  /\ paper[s] = "filled" /\ s \notin old
  /\ cand[s] \in { "none", "NEW", "ELIGIBLE" }
  /\ old' = old \cup { s }
  /\ UNCHANGED <<flagVars, sessionVars, paper, cand, requestVars, positionVars, gate,
                 callVars, handVars>>

\* mirror_batch: entries filled since the cursor become candidates, once.
MirrorBatch(s) ==
  /\ mirror /\ cursor
  /\ paper[s] = "filled" /\ cand[s] = "none"
  /\ cand' = [cand EXCEPT ![s] = "NEW"]
  /\ UNCHANGED <<flagVars, sessionVars, paper, old, requestVars, positionVars, gate,
                 callVars, handVars>>

\* The cursor moves to now: what was filled before it is never mirrored.
CursorToNow ==
  /\ cursor' = TRUE
  /\ paper' = [s \in Signals |-> IF paper[s] = "filled" /\ cand[s] = "none"
                                 THEN "past" ELSE paper[s]]

-----------------------------------------------------------------------------
(* The release gate                                                        *)

Undecided == { "NEW", "ELIGIBLE" }
SetGate(g, r) == gate' = [gate EXCEPT ![g] = r]
GateAt(g, phase) == gate[g].pc = phase

\* No gate holds pg_advisory_xact_lock(release:LIVE).
ReleaseLockFree ==
  \A g \in Gates : gate[g].pc \in { "idle", "quoted" }

\* activate and finish hold the row of their session until they commit.
LockedByCall(x) ==
  \E o \in Operators : call[o].kind \in { "activate", "finish" } /\ call[o].on = x

\* Mutant: the gate reads the session without FOR UPDATE.
RowFree_NotLockedByGate(x) == ~LockedByCall(x)

\* The session row is locked neither by a gate nor by a call in progress.
RowFree(x) ==
  /\ \A g \in Gates : gate[g].sess # x
  /\ ~LockedByCall(x)

\* release_batch and the first half of release_candidate_by_id: the mode and
\* the candidate are read, and the quote fetched, without a lock.
GateSnapshot(g, s) ==
  /\ GateAt(g, "idle")
  /\ \/ release = "AUTO" /\ cand[s] \in Undecided
     \/ release = "MANUAL" /\ cand[s] = "ELIGIBLE"
  /\ SetGate(g, [Idle EXCEPT !.pc = "quoted", !.sig = s])
  /\ UNCHANGED <<flagVars, sessionVars, signalVars, requestVars, positionVars, callVars, handVars>>

\* return False, ReleaseDeferred, an exception or a crash: the transaction is
\* rolled back.  The causes: a limit of the session, no session, the kill
\* switch, no quote, an asset the session does not trade, a worker that is not
\* ready, a balance too small.
GateDefers(g) ==
  /\ SetGate(g, Idle)
  /\ UNCHANGED <<flagVars, sessionVars, signalVars, requestVars, positionVars, callVars, handVars>>

\* ReleaseRejected: the candidate is given up for good.
GateRejects(g) ==
  /\ cand' = [cand EXCEPT ![gate[g].sig] = "REJECTED"]
  /\ SetGate(g, Idle)
  /\ UNCHANGED <<flagVars, sessionVars, paper, old, requestVars, positionVars, callVars, handVars>>

\* The advisory lock, the candidate read again FOR UPDATE, and the checks of the
\* source, age, market end and edge.
GateLock(g) ==
  LET s == gate[g].sig IN
  /\ GateAt(g, "quoted") /\ ReleaseLockFree
  /\ IF cand[s] \in Undecided
     THEN IF s \in old
          THEN GateRejects(g)
          ELSE /\ SetGate(g, [gate[g] EXCEPT !.pc = "locked"])
               /\ UNCHANGED <<flagVars, sessionVars, signalVars, requestVars,
                              positionVars, callVars, handVars>>
     ELSE GateDefers(g)

\* The kill switch, the active session FOR UPDATE, its budget, its positions,
\* and the first query of get_session_exposure.
GateReadsSession(g) ==
  /\ GateAt(g, "locked") /\ trading
  /\ \E x \in ActiveSessions :
       /\ RowFree(x)
       /\ limits[x].order <= Budget_remaining(x)
       /\ SessionPositions(x) < limits[x].maxOpen
       /\ SetGate(g, [gate[g] EXCEPT !.pc = "exposure", !.sess = x,
                        !.seen = PositionCost(x, SESSION_POSITION_STATES)])
  /\ UNCHANGED <<flagVars, sessionVars, signalVars, requestVars, positionVars, callVars, handVars>>

\* The rest of get_session_exposure and the session's exposure limit.
GateReadsReservations(g) ==
  LET x == gate[g].sess IN
  /\ GateAt(g, "exposure")
  /\ gate[g].seen + Reserved(OwnedBy(x)) + limits[x].order <= limits[x].maxExp
  /\ SetGate(g, [gate[g] EXCEPT !.pc = "risk", !.seen = 0])
  /\ UNCHANGED <<flagVars, sessionVars, signalVars, requestVars, positionVars, callVars, handVars>>

\* check_risk_limits up to current_exp; any failure rejects the candidate.
GateChecksRisk(g) ==
  /\ GateAt(g, "risk")
  /\ IF trading /\ OpenCountBut(NoSignal) < MaxOpen
     THEN /\ SetGate(g, [gate[g] EXCEPT !.pc = "reserve", !.seen = AtRiskCostBut(NoSignal)])
          /\ UNCHANGED <<flagVars, sessionVars, signalVars, requestVars, positionVars,
                         callVars, handVars>>
     ELSE GateRejects(g)

\* idempotency_key LIVE-OPEN-mirror-<candidate> is unique.
KeyFree(s) == made[s] = 0

\* _build_live_trade, _build_live_request, the reservation and the candidate,
\* in one commit.
CreateLiveRows(g) ==
  LET s == gate[g].sig  x == gate[g].sess IN
  /\ req' = [req EXCEPT ![s] = "READY"]
  /\ made' = [made EXCEPT ![s] = @ + 1]
  /\ owner' = [owner EXCEPT ![s] = x]
  /\ amount' = [amount EXCEPT ![s] = limits[x].order]
  /\ held' = held \cup { s }
  /\ pos' = [pos EXCEPT ![s] = "OPENING"]
  /\ cost' = [cost EXCEPT ![s] = 0]
  /\ left' = [left EXCEPT ![s] = 0]
  /\ cand' = [cand EXCEPT ![s] = "RELEASED"]

\* get_reserved_exposure, the exposure limit and the release.  A duplicate key
\* fails the insert and rolls the transaction back.
GateReleases(g) ==
  LET s == gate[g].sig  x == gate[g].sess IN
  /\ GateAt(g, "reserve")
  /\ IF gate[g].seen + ReservedExposureBut(NoSignal) + limits[x].order <= MaxExposure
     THEN /\ KeyFree(s)
          /\ CreateLiveRows(g)
          /\ SetGate(g, Idle)
          /\ UNCHANGED <<flagVars, sessionVars, paper, old, callVars, handVars>>
     ELSE GateRejects(g)

GateStep(g) ==
  \/ \E s \in Signals : GateSnapshot(g, s)
  \/ GateLock(g)
  \/ GateReadsSession(g)
  \/ GateReadsReservations(g)
  \/ GateChecksRisk(g)
  \/ GateReleases(g)
  \/ ~GateAt(g, "idle") /\ ~GateAt(g, "quoted") /\ GateDefers(g)

-----------------------------------------------------------------------------
(* The execution worker, reduced to what the limits count                  *)

\* One process per mode: while it has a request in hand it neither books fills
\* nor ends other requests.  READY also stands for CLAIMED.
NoHand == [pc |-> "idle", sig |-> NoSignal, seen |-> 0, max |-> 0]
HandAt(phase) == hand.pc = phase

\* finalize_request releases the reservation of a terminal OPEN.
HeldAfter(s, new) ==
  IF new \in REQUEST_HOLD_STATES THEN held ELSE held \ { s }

SetRequest(s, new) ==
  /\ req' = [req EXCEPT ![s] = new]
  /\ held' = HeldAfter(s, new)
  /\ UNCHANGED <<made, owner, amount>>

\* Mutant: the kill switch is left to the gate.
WorkerChecks_NoSwitch(s) ==
  /\ HandAt("idle") /\ req[s] = "READY"
  /\ OpenCountBut(s) < MaxOpen
  /\ hand' = [pc |-> "exposure", sig |-> s, seen |-> AtRiskCostBut(s), max |-> MaxExposure]
  /\ UNCHANGED <<flagVars, sessionVars, signalVars, requestVars, positionVars, gate, callVars,
                 afterKill>>

\* process_ready_requests takes a request and the mode's advisory lock;
\* check_risk_limits reads the kill switch, the limits in force, the open
\* positions and the cost still at risk (current_exp) ...
WorkerChecks(s) ==
  /\ HandAt("idle") /\ req[s] = "READY"
  /\ trading /\ OpenCountBut(s) < MaxOpen
  /\ hand' = [pc |-> "exposure", sig |-> s, seen |-> AtRiskCostBut(s), max |-> MaxExposure]
  /\ UNCHANGED <<flagVars, sessionVars, signalVars, requestVars, positionVars, gate, callVars,
                 afterKill>>

\* Mutant: the worker trusts the gate's comparison.
WithinMax_Trusted == TRUE

\* ... and, with another query, what other requests have reserved.
WithinMax == hand.seen + ReservedExposureBut(hand.sig) + amount[hand.sig] <= hand.max

WorkerCompares ==
  /\ HandAt("exposure") /\ WithinMax
  /\ hand' = [hand EXCEPT !.pc = "quote"]
  /\ UNCHANGED <<flagVars, sessionVars, signalVars, requestVars, positionVars, gate, callVars,
                 afterKill>>

\* The fresh quote is awaited, then SUBMITTING is committed and the order goes
\* out.  Nothing the checks read is read again.
WorkerSubmits ==
  /\ HandAt("quote")
  /\ SetRequest(hand.sig, "SUBMITTING")
  /\ hand' = NoHand
  /\ afterKill' = IF trading THEN afterKill ELSE afterKill + 1
  /\ UNCHANGED <<flagVars, sessionVars, signalVars, positionVars, gate, callVars>>

\* No quote: the request is READY again.  Or the process dies.
WorkerLetsGo ==
  /\ ~HandAt("idle")
  /\ hand' = NoHand
  /\ UNCHANGED <<flagVars, sessionVars, signalVars, requestVars, positionVars, gate, callVars,
                 afterKill>>

\* A risk check or the price guard refuses the request in hand; or, with none in
\* hand, the 30 s of a request pass or the venue refuses an order.
EntryFails(s) ==
  /\ HandAt("idle") \/ hand.sig = s
  /\ req[s] \in { "READY", "SUBMITTING" }
  /\ SetRequest(s, "REJECTED")
  /\ pos' = [pos EXCEPT ![s] = "ENTRY_FAILED"]
  /\ hand' = NoHand
  /\ UNCHANGED <<flagVars, sessionVars, signalVars, cost, left, gate, callVars, afterKill>>

\* A reconciliation that cannot decide leaves the request to the operator.
EntryNeedsReview(s) ==
  /\ HandAt("idle") /\ req[s] = "SUBMITTING"
  /\ SetRequest(s, "MANUAL_REVIEW_REQUIRED")
  /\ UNCHANGED <<flagVars, sessionVars, signalVars, positionVars, gate, callVars, handVars>>

\* Fills, final state, reservation and position in one transaction.
EntryFills(s) ==
  /\ HandAt("idle") /\ req[s] = "SUBMITTING"
  /\ SetRequest(s, "FILLED")
  /\ \E c \in 1 .. amount[s] :
       /\ cost' = [cost EXCEPT ![s] = c]
       /\ left' = [left EXCEPT ![s] = c]
  /\ pos' = [pos EXCEPT ![s] = "OPEN"]
  /\ UNCHANGED <<flagVars, sessionVars, signalVars, gate, callVars, handVars>>

SetPosition(s, p, n) ==
  /\ pos' = [pos EXCEPT ![s] = p]
  /\ left' = [left EXCEPT ![s] = n]
  /\ UNCHANGED <<flagVars, sessionVars, signalVars, requestVars, cost, gate, callVars, handVars>>

\* close_live_position, close-all, stop-loss: enqueue_close_request, in other
\* processes than the worker.
ExitRequested(s) ==
  /\ pos[s] \in { "OPEN", "PARTIALLY_CLOSED" }
  /\ SetPosition(s, "EXIT_REQUESTED", left[s])

\* The CLOSE leaves n shares: all, some or none.
ExitEnds(s) ==
  /\ HandAt("idle") /\ pos[s] = "EXIT_REQUESTED"
  /\ \E n \in 0 .. left[s] :
       SetPosition(s, IF n = 0 THEN "CLOSED"
                      ELSE IF n < cost[s] THEN "PARTIALLY_CLOSED" ELSE "OPEN", n)

\* resolve_trades_job and reconcile_live_resolution, in the scheduler's process;
\* nothing in the repository redeems a winning position.
Resolve(s) ==
  /\ pos[s] \in SESSION_POSITION_STATES
  /\ \/ SetPosition(s, "RESOLVED_REDEEMABLE", left[s])
     \/ SetPosition(s, "CLOSED", 0)

WorkerStep(s) ==
  \/ WorkerChecks(s) \/ EntryFails(s) \/ EntryNeedsReview(s) \/ EntryFills(s)
  \/ ExitRequested(s) \/ ExitEnds(s) \/ Resolve(s)

HandStep == WorkerCompares \/ WorkerSubmits \/ WorkerLetsGo

-----------------------------------------------------------------------------
(* Operators: sessions and switches                                        *)

Managed == { "DRAFT", "READY", "ACTIVE" }
Startable == { "DRAFT", "READY", "STOPPED" }

\* The validators of CreateLiveSessionRequest and of the limits update.
ValidLimits(l) ==
  /\ l.order >= 1 /\ l.maxOpen >= 1
  /\ l.order <= l.maxExp /\ l.maxExp <= l.budget

Begins(o, kind, on, from) ==
  /\ call[o] = NoCall /\ calls < MaxCalls
  /\ calls' = calls + 1
  /\ call' = [call EXCEPT ![o] = [kind |-> kind, on |-> on, from |-> from]]
  /\ UNCHANGED <<flagVars, sessionVars, signalVars, requestVars, positionVars, gate, handVars>>

Ends(o, kind) ==
  /\ call[o].kind = kind
  /\ call' = [call EXCEPT ![o] = NoCall]
  /\ UNCHANGED calls

\* An endpoint whose reads and writes no other transaction separates.
AtOnce(o) ==
  /\ call[o] = NoCall /\ calls < MaxCalls
  /\ calls' = calls + 1
  /\ UNCHANGED call

\* create_live_session: FOR UPDATE locks nothing when no managed session exists.
CreateBegins(o, x) ==
  /\ status[x] = "none" /\ \A y \in Sessions : status[y] \notin Managed
  /\ \A p \in Operators : call[p].on # x
  /\ Begins(o, "create", x, "none")

CreateEnds(o) ==
  /\ Ends(o, "create")
  /\ status' = [status EXCEPT ![call[o].on] = "DRAFT"]
  /\ \E l \in LimitChoices :
       ValidLimits(l) /\ limits' = [limits EXCEPT ![call[o].on] = l]
  /\ UNCHANGED <<flagVars, completed, signalVars, requestVars, positionVars, gate, handVars>>

\* update_live_session_limits
UpdateLimits(o, x) ==
  /\ status[x] \in Startable /\ RowFree(x)
  /\ AtOnce(o)
  /\ \E l \in LimitChoices :
       /\ ValidLimits(l) /\ l.budget >= Committed(x)
       /\ limits' = [limits EXCEPT ![x] = l]
  /\ status' = [status EXCEPT ![x] = "DRAFT"]
  /\ UNCHANGED <<flagVars, completed, signalVars, requestVars, positionVars, gate, handVars>>

\* evaluate_live_readiness: no LIVE request is active, no position belongs to
\* another session.
NothingOutstanding(x) ==
  /\ \A s \in Signals : req[s] \notin REQUEST_HOLD_STATES
  /\ \A s \in Signals \ OwnedBy(x) : pos[s] \notin SESSION_POSITION_STATES

\* check_live_session_readiness reads the session without a lock and stores the
\* outcome over whatever the status has become.
ReadinessBegins(o, x) ==
  /\ status[x] \in { "DRAFT", "STOPPED" }
  /\ \E ready \in BOOLEAN :
       /\ ready => NothingOutstanding(x)
       /\ Begins(o, "readiness", x, IF ready THEN "READY" ELSE "DRAFT")

ReadinessEnds(o) ==
  /\ Ends(o, "readiness") /\ RowFree(call[o].on)
  /\ status' = [status EXCEPT ![call[o].on] = call[o].from]
  /\ UNCHANGED <<flagVars, limits, completed, signalVars, requestVars, positionVars, gate, handVars>>

\* activate_live_session: the session row is locked, readiness evaluated; then
\* the switches, the other sessions and the status are written.
ActivateBegins(o, x) ==
  /\ status[x] \in Startable /\ RowFree(x) /\ NothingOutstanding(x)
  /\ Begins(o, "activate", x, status[x])

StatusAfterActivate(x) ==
  [y \in Sessions |-> IF y = x THEN "ACTIVE"
                      ELSE IF status[y] = "ACTIVE" THEN "STOPPED" ELSE status[y]]

ActivateEnds(o) ==
  LET x == call[o].on IN
  /\ Ends(o, "activate")
  /\ \A y \in ActiveSessions : RowFree(y)
  /\ status' = StatusAfterActivate(x)
  /\ completed' = completed \ (ActiveSessions \ { x })
  /\ trading' = TRUE /\ mirror' = TRUE /\ release' = "AUTO"
  /\ CursorToNow
  /\ afterKill' = 0
  /\ UNCHANGED <<limits, old, cand, requestVars, positionVars, gate, hand>>

\* stop_live_session, from any status.
StopSession(o, x) ==
  /\ status[x] # "none" /\ RowFree(x)
  /\ AtOnce(o)
  /\ trading' = FALSE /\ mirror' = FALSE /\ release' = "DISABLED" /\ cursor' = FALSE
  /\ status' = [status EXCEPT ![x] = "STOPPED"]
  /\ completed' = completed \ { x }
  /\ UNCHANGED <<limits, signalVars, requestVars, positionVars, gate, handVars>>

\* finish_live_session counts positions, then active requests.
FinishBegins(o, x) ==
  /\ status[x] # "none" /\ RowFree(x)
  /\ SessionPositions(x) = 0
  /\ Begins(o, "finish", x, status[x])

\* Mutant: a review does not keep the session open.
ActiveEntries_NoReview(x) ==
  { s \in OwnedBy(x) : req[s] \in REQUEST_HOLD_STATES \ { "MANUAL_REVIEW_REQUIRED" } }

ActiveEntries(x) == { s \in OwnedBy(x) : req[s] \in REQUEST_HOLD_STATES }

FinishEnds(o) ==
  LET x == call[o].on IN
  /\ Ends(o, "finish")
  /\ IF ActiveEntries(x) = {}
     THEN /\ status' = [status EXCEPT ![x] = "STOPPED"]
          /\ completed' = completed \cup { x }
     ELSE UNCHANGED <<status, completed>>
  /\ UNCHANGED <<flagVars, limits, signalVars, requestVars, positionVars, gate, handVars>>

\* toggle_kill_switch only switches off.
KillSwitch(o) ==
  /\ trading /\ AtOnce(o)
  /\ trading' = FALSE
  /\ UNCHANGED <<mirror, cursor, release, sessionVars, signalVars, requestVars,
                 positionVars, gate, handVars>>

\* toggle_mirror_switch
MirrorSwitch(o) ==
  /\ AtOnce(o)
  /\ \/ mirror' = FALSE /\ UNCHANGED <<cursor, paper>>
     \/ mirror' = TRUE /\ CursorToNow
  /\ UNCHANGED <<trading, release, sessionVars, old, cand, requestVars, positionVars, gate, handVars>>

\* set_release_mode
SetReleaseMode(o) ==
  /\ AtOnce(o)
  /\ \E m \in ReleaseModes \ { release } : release' = m
  /\ UNCHANGED <<trading, mirror, cursor, sessionVars, signalVars, requestVars,
                 positionVars, gate, handVars>>

\* manual_release_candidate reads the candidate without a lock; ELIGIBLE over
\* ELIGIBLE writes nothing.
ApproveBegins(o, s) ==
  /\ cand[s] = "NEW"
  /\ Begins(o, "approve", s, cand[s])

ApproveEnds(o) ==
  /\ Ends(o, "approve")
  /\ \A g \in Gates : gate[g].sig = call[o].on => gate[g].pc \in { "idle", "quoted" }
  /\ cand' = [cand EXCEPT ![call[o].on] = "ELIGIBLE"]
  /\ UNCHANGED <<flagVars, sessionVars, paper, old, requestVars, positionVars, gate, handVars>>

OperatorStep(o) ==
  \/ \E x \in Sessions :
       \/ CreateBegins(o, x) \/ UpdateLimits(o, x) \/ ReadinessBegins(o, x)
       \/ ActivateBegins(o, x) \/ StopSession(o, x) \/ FinishBegins(o, x)
  \/ CreateEnds(o) \/ ReadinessEnds(o) \/ ActivateEnds(o) \/ FinishEnds(o)
  \/ KillSwitch(o) \/ MirrorSwitch(o) \/ SetReleaseMode(o)
  \/ \E s \in Signals : ApproveBegins(o, s)
  \/ ApproveEnds(o)

-----------------------------------------------------------------------------

Next ==
  \/ \E s \in Signals : PaperFilled(s) \/ SignalAges(s) \/ MirrorBatch(s) \/ WorkerStep(s)
  \/ HandStep
  \/ \E g \in Gates : GateStep(g)
  \/ \E o \in Operators : OperatorStep(o)

Spec == Init /\ [][Next]_vars

-----------------------------------------------------------------------------
(* Properties                                                              *)

\* Money in the market: what positions cost, and what is out as orders.
AtRisk ==
  AtRiskCostBut(NoSignal)
  + LET amountOf(s) == amount[s]
    IN SumOver(amountOf, { s \in Signals : req[s] \in { "SUBMITTING", "MANUAL_REVIEW_REQUIRED" } })

\* An order goes out only within the exposure limit the worker read for it,
\* although it compares the answers of two queries and then awaits a quote, while
\* the gate releases, positions are closed and settled and sessions change
\* (risk_checks.py:144, worker.py:625 to :835).  The gate's own comparison is not
\* enough: a fill between its queries is counted by neither.
RiskGrowsWithinLimit == [][AtRisk' > AtRisk => AtRisk' <= hand.max]_vars

\* After LIVE trading is switched off, by the kill switch or by a stopped session,
\* at most one more order goes out: the one the worker had checked before
\* (worker.py:625, :835).  Whatever is READY then stays unsent.
OneOrderAfterKill == afterKill <= 1

\* A LIVE request is created only for a session that is active at the commit:
\* stop, finish and supersession wait for the gate (release_gate.py:698).
ReleasedUnderActiveSession ==
  [][\A s \in Signals : made'[s] > made[s] => status[owner'[s]] = "ACTIVE"]_vars

\* A session finished as COMPLETED has no entry in flight, so that none fills
\* after it (execution_api.py:1257).
CompletedHasNoEntryInFlight ==
  \A x \in completed, s \in Signals :
    status[x] = "STOPPED" /\ owner[s] = x => req[s] \notin REQUEST_HOLD_STATES
=============================================================================
