-------------------------- MODULE ExecutionLifecycle --------------------------
(***************************************************************************)
(* The life of execution requests in polyflip: the outbox that inserts     *)
(* them (execution/outbox.py), the single execution worker of one mode     *)
(* that claims, submits, reconciles and auto-resolves them                 *)
(* (execution/worker.py), the operator endpoints that act on the same rows *)
(* (api/execution_api.py), the settlement job (scheduler/jobs.py) and the  *)
(* venue seen through the gateway (execution/gateways/polymarket.py; the   *)
(* venue itself is external).                                              *)
(*                                                                         *)
(* Every action is one database transaction or one answer of the venue.    *)
(* The worker keeps what it holds in memory between two of its             *)
(* transactions in pc, cur, answer, got and batch; a crash loses exactly   *)
(* those.  Orders are FAK, the default of LIVE_ORDER_MODE, except the      *)
(* native GTD take-profit a LIVE entry queues when it is filled.           *)
(***************************************************************************)
EXTENDS ExecutionStates, Integers, FiniteSets

CONSTANTS
  Mode,         \* requested_mode of the rows and of the worker
  Trades,       \* trade_history rows
  Markets,
  MarketOf,     \* market_id of each trade
  Size,         \* shares an OPEN asks for; no order is larger
  MaxCloses,    \* bound: CLOSE requests per trade
  MaxAttempts,  \* bound: execution_attempts per request
  MaxRequeues,  \* bound: operator requeues per request
  MaxNudges,    \* bound: operator "reconcile" clicks per request
  MaxCrashes,   \* bound: crashes of the worker
  ListingLag,   \* a settled trade may be missing from list_account_trades
  Confirm       \* CONFIRM_THRESHOLD_USDC is set

ASSUME ModeAssumption == Mode \in { "PAPER", "LIVE" }
ASSUME TradesAssumption == IsFiniteSet(Trades) /\ MarketOf \in [Trades -> Markets]
ASSUME SizeAssumption == Size \in Nat \ {0}
ASSUME BoundsAssumption ==
  /\ MaxCloses \in Nat /\ MaxAttempts \in Nat /\ MaxRequeues \in Nat
  /\ MaxNudges \in Nat /\ MaxCrashes \in Nat
ASSUME FlagsAssumption == ListingLag \in BOOLEAN /\ Confirm \in BOOLEAN

\* <<t, 0>> is the OPEN of trade t (key OPEN:t); <<t, k>>, k > 0, is its CLOSE
\* with key CLOSE:t:v(k-1).
Requests == Trades \X (0 .. MaxCloses)
TradeOf(r) == r[1]
IsOpen(r) == r[2] = 0
OpenOf(t) == <<t, 0>>
ClosesOf(t) == { t } \X (1 .. MaxCloses)
MarketOfRequest(r) == MarketOf[TradeOf(r)]

\* <<r, n>> is the order of attempt n of request r; <<o, i>> the i-th share the
\* venue trades for order o.
Orders == Requests \X (1 .. MaxAttempts)
FillIds == Orders \X (1 .. Size)
SharesOf(S, o) == { f \in S : f[1] = o }
FirstShares(o, n) == { o } \X (1 .. n)
OpenFills(S, t) == { f \in S : f[1][1] = OpenOf(t) }
CloseFills(S, t) == { f \in S : f[1][1][1] = t /\ f[1][1][2] > 0 }

VARIABLES
  \* execution_requests, execution_attempts and execution_fills
  state,        \* state column
  requested,    \* requested_shares
  filled,       \* filled_shares
  takeProfit,   \* a LIVE CLOSE queued as a GTD take-profit that expires at market end
  expired,      \* expires_at is in the past
  age,          \* time since updated_at: 0 below 60 s, 1 below 900 s, 2 above
  attempts,     \* rows in execution_attempts
  provider,     \* orders whose provider_order_id is stored
  fills,        \* rows in execution_fills
  requeues,     \* REQUEUE_AFTER_ALLOWANCE calls so far
  nudges,       \* reconcile calls of the operator so far
  row,          \* remaining_shares as a caller of the outbox has loaded them, or 0
  stale,        \* history: trades with a CLOSE queued for shares already sold
  \* exposure_reservations and trade_history
  reservation,  \* reservation of the trade's OPEN: "none", "held" or "released"
  pos,          \* position_status
  entry,        \* entry_filled_shares
  remaining,    \* remaining_shares
  version,      \* position_version
  exits,        \* exit_attempts
  \* the execution worker
  pc,           \* "idle", "claimed", "submitting", "answered" or "resolving"
  cur,          \* the request in hand
  answer,       \* what the gateway answered
  got,          \* the fills the PAPER gateway answered with
  batch,        \* rows _auto_resolve_stuck_manual_reviews has loaded
  crashes,
  \* the venue
  market,       \* phase of each market, as seen by the outcome the trades hold
  resting,      \* orders on the book
  traded,       \* shares that changed hands
  listed        \* shares list_account_trades shows as CONFIRMED

orderVars == <<requested, filled, takeProfit>>
evidenceVars == <<attempts, provider, fills>>
callerVars == <<row, stale>>
operatorVars == <<requeues, nudges, callerVars>>
requestVars == <<state, orderVars, expired, age, evidenceVars, operatorVars>>
sharesVars == <<entry, remaining>>
positionVars == <<reservation, pos, sharesVars, version, exits>>
handVars == <<pc, cur, answer, got>>
workerVars == <<handVars, batch, crashes>>
venueVars == <<market, resting, traded, listed>>
vars == <<requestVars, positionVars, workerVars, venueVars>>

NoRequest == << >>
Answers == { "none", "rejected", "denied", "unknown", "failed", "confirmed", "pending" }
WorkerPhases == { "idle", "claimed", "submitting", "answered", "resolving" }
MarketPhases == { "TRADING", "ENDED", "WON", "LOST" }

TypeOK ==
  /\ state \in [Requests -> RequestStates]
  /\ requested \in [Requests -> Nat]
  /\ filled \in [Requests -> Nat]
  /\ takeProfit \in [Requests -> BOOLEAN]
  /\ expired \in [Requests -> BOOLEAN]
  /\ age \in [Requests -> 0 .. 2]
  /\ attempts \in [Requests -> 0 .. MaxAttempts]
  /\ provider \subseteq Orders
  /\ fills \subseteq FillIds
  /\ requeues \in [Requests -> 0 .. MaxRequeues]
  /\ nudges \in [Requests -> 0 .. MaxNudges]
  /\ row \in [Trades -> Nat] /\ stale \subseteq Trades
  /\ reservation \in [Trades -> { "none", "held", "released" }]
  /\ pos \in [Trades -> PositionStates]
  /\ entry \in [Trades -> Nat]
  /\ remaining \in [Trades -> Nat]
  /\ version \in [Trades -> 0 .. MaxCloses]
  /\ exits \in [Trades -> Nat]
  /\ pc \in WorkerPhases
  /\ cur \in Requests \cup { NoRequest }
  /\ answer \in Answers
  /\ got \subseteq FillIds
  /\ batch \subseteq Requests
  /\ crashes \in 0 .. MaxCrashes
  /\ market \in [Markets -> MarketPhases]
  /\ resting \subseteq Orders
  /\ traded \subseteq FillIds
  /\ listed \subseteq FillIds

Init ==
  /\ state = [r \in Requests |-> "none"]
  /\ requested = [r \in Requests |-> 0]
  /\ filled = [r \in Requests |-> 0]
  /\ takeProfit = [r \in Requests |-> FALSE]
  /\ expired = [r \in Requests |-> FALSE]
  /\ age = [r \in Requests |-> 0]
  /\ attempts = [r \in Requests |-> 0]
  /\ provider = {}
  /\ fills = {}
  /\ requeues = [r \in Requests |-> 0]
  /\ nudges = [r \in Requests |-> 0]
  /\ row = [t \in Trades |-> 0] /\ stale = {}
  /\ reservation = [t \in Trades |-> "none"]
  /\ pos = [t \in Trades |-> "none"]
  /\ entry = [t \in Trades |-> 0]
  /\ remaining = [t \in Trades |-> 0]
  /\ version = [t \in Trades |-> 0]
  /\ exits = [t \in Trades |-> 0]
  /\ pc = "idle" /\ cur = NoRequest /\ answer = "none" /\ got = {} /\ batch = {}
  /\ crashes = 0
  /\ market = [m \in Markets |-> "TRADING"]
  /\ resting = {} /\ traded = {} /\ listed = {}

-----------------------------------------------------------------------------
(* The outbox                                                              *)

OpensOn(m) == { OpenOf(t) : t \in { u \in Trades : MarketOf[u] = m } }
InState(R, S) == { r \in R : state[r] \in S }

\* Outcome of enqueue_open_request and of enqueue_close_request: the lookup by
\* BLOCKING_REQUEST_STATES, then the insert guarded by the partial unique index.
Disposition(R) ==
  IF InState(R, BLOCKING_REQUEST_STATES) # {} THEN "DUPLICATE"
  ELSE IF InState(R, ACTIVE_INDEX_STATES) # {} THEN "BLOCKED"
  ELSE "CREATED"

\* A trade row, its OPEN and its reservation are inserted together.  A LIVE
\* order above CONFIRM_THRESHOLD_USDC starts in AWAITING_APPROVAL, which no code
\* of the repository ends.
EnqueueOpen(t) ==
  LET r == OpenOf(t) IN
  /\ state[r] = "none" /\ market[MarketOf[t]] = "TRADING"
  /\ Disposition(OpensOn(MarketOf[t])) = "CREATED"
  /\ \E s \in { "READY" } \cup (IF Mode = "LIVE" /\ Confirm
                              THEN { "AWAITING_APPROVAL" } ELSE {}) :
       state' = [state EXCEPT ![r] = s]
  /\ requested' = [requested EXCEPT ![r] = Size]
  /\ reservation' = [reservation EXCEPT ![t] = "held"]
  /\ pos' = [pos EXCEPT ![t] = "OPENING"]
  /\ UNCHANGED <<filled, takeProfit, expired, age, evidenceVars, operatorVars,
                 sharesVars, version, exits, workerVars, venueVars>>

\* The request the next CLOSE of the trade becomes.
NextClose(t) == <<t, version[t] + 1>>

\* enqueue_close_request over a current row, as close_live_position has it: a
\* tradable position is sold whole.  A row another caller holds loses its key.
EnqueueClose(t) ==
  LET r == NextClose(t) IN
  /\ version[t] < MaxCloses
  /\ pos[t] \in { "OPEN", "PARTIALLY_CLOSED" } /\ remaining[t] > 0
  /\ market[MarketOf[t]] = "TRADING"
  /\ Disposition(ClosesOf(t)) = "CREATED"
  /\ state' = [state EXCEPT ![r] = "READY"]
  /\ requested' = [requested EXCEPT ![r] = remaining[t]]
  /\ pos' = [pos EXCEPT ![t] = "EXIT_REQUESTED"]
  /\ version' = [version EXCEPT ![t] = @ + 1]
  /\ row' = [row EXCEPT ![t] = 0]
  /\ UNCHANGED <<filled, takeProfit, expired, age, evidenceVars, requeues, nudges, stale,
                 reservation, sharesVars, exits, workerVars, venueVars>>

\* The stop-loss and take-profit jobs and close-all load tradable rows, and
\* enqueue later.  FOR UPDATE does not refresh a row the session has, so only the
\* key CLOSE:t:v tells that it is old, and only a new CLOSE moves the key: one
\* under way at the load may book its fills in between.
CallerLoads(t) ==
  /\ row[t] = 0 /\ version[t] < MaxCloses
  /\ pos[t] \in { "OPEN", "PARTIALLY_CLOSED" } /\ remaining[t] > 0
  /\ market[MarketOf[t]] = "TRADING"
  /\ row' = [row EXCEPT ![t] = remaining[t]]
  /\ UNCHANGED <<state, orderVars, expired, age, evidenceVars, requeues, nudges, stale,
                 positionVars, workerVars, venueVars>>

\* enqueue_close_request over the loaded row: neither the status nor the shares
\* are looked at again.
CallerEnqueues(t) ==
  LET r == NextClose(t) IN
  /\ row[t] > 0 /\ version[t] < MaxCloses
  /\ Disposition(ClosesOf(t)) = "CREATED"
  /\ state' = [state EXCEPT ![r] = "READY"]
  /\ requested' = [requested EXCEPT ![r] = row[t]]
  /\ pos' = [pos EXCEPT ![t] = "EXIT_REQUESTED"]
  /\ version' = [version EXCEPT ![t] = @ + 1]
  /\ row' = [row EXCEPT ![t] = 0]
  /\ stale' = IF row[t] = remaining[t] THEN stale ELSE stale \cup { t }
  /\ UNCHANGED <<filled, takeProfit, expired, age, evidenceVars, requeues, nudges,
                 reservation, sharesVars, exits, workerVars, venueVars>>

\* The price is not met, there is no quote, or the CLOSE under way makes it a
\* duplicate.
CallerDrops(t) ==
  /\ row[t] > 0
  /\ row' = [row EXCEPT ![t] = 0]
  /\ UNCHANGED <<state, orderVars, expired, age, evidenceVars, requeues, nudges, stale,
                 positionVars, workerVars, venueVars>>

\* Mutant: a failed CLOSE leaves the position as it was.
PosAfterFinalize_Kept(r, s) ==
  IF s \in FAILURE_TERMINAL_STATES /\ filled[r] = 0 /\ IsOpen(r)
  THEN "ENTRY_FAILED" ELSE pos[TradeOf(r)]

\* position_status after finalize_request.
PosAfterFinalize(r, s) ==
  LET t == TradeOf(r) IN
  IF s \in FAILURE_TERMINAL_STATES /\ filled[r] = 0
  THEN IF IsOpen(r) THEN "ENTRY_FAILED"
       ELSE IF remaining[t] < entry[t] THEN "PARTIALLY_CLOSED" ELSE "OPEN"
  ELSE pos[t]

\* Mutant: a review releases the reservation too.
ReservationAfterFinalize_OnReview(r, s) ==
  IF IsOpen(r) /\ s \in TERMINAL_REQUEST_STATES \cup { "MANUAL_REVIEW_REQUIRED" }
  THEN [reservation EXCEPT ![TradeOf(r)] = "released"] ELSE reservation

\* exposure_reservations after finalize_request.
ReservationAfterFinalize(r, s) ==
  IF IsOpen(r) /\ s \in TERMINAL_REQUEST_STATES
  THEN [reservation EXCEPT ![TradeOf(r)] = "released"]
  ELSE reservation

\* finalize_request up to the position: also used with READY and
\* MANUAL_REVIEW_REQUIRED.
Finalize(r, s) ==
  /\ state' = [state EXCEPT ![r] = s]
  /\ age' = [age EXCEPT ![r] = 0]
  /\ reservation' = ReservationAfterFinalize(r, s)
  /\ exits' = IF s \in FAILURE_TERMINAL_STATES /\ filled[r] = 0 /\ ~IsOpen(r)
              THEN [exits EXCEPT ![TradeOf(r)] = @ + 1] ELSE exits

\* rebuild_trade_accounting of trade t, whose status is p, over the fills S.
Rebuilt(t, p, S, openFailed) ==
  LET bought == IF OpenFills(S, t) = {} THEN entry[t]
                ELSE Cardinality(OpenFills(S, t))
      sold == Cardinality(CloseFills(S, t))
      as(q, e, m) == [pos |-> q, entry |-> e, remaining |-> m]
      open == p \notin FINAL_POSITION_STATES
  IN CASE ~open -> as(p, entry[t], remaining[t])
       [] open /\ bought = 0 ->
            as(IF openFailed \/ p = "ENTRY_FAILED" THEN "ENTRY_FAILED" ELSE "OPENING",
               0, 0)
       [] open /\ bought > 0 /\ sold > bought ->
            as("MANUAL_REVIEW_REQUIRED", entry[t], remaining[t])
       [] open /\ bought > 0 /\ sold <= bought ->
            as(IF sold = bought THEN "CLOSED"
               ELSE IF sold > 0 THEN "PARTIALLY_CLOSED" ELSE "OPEN",
               bought, bought - sold)

OpenFailed(r, s) ==
  LET o == OpenOf(TradeOf(r)) IN
  /\ filled[o] = 0
  /\ (IF r = o THEN s ELSE state[o]) \in FAILURE_TERMINAL_STATES

\* finalize_request with no rebuild after it.
FinalizeOnly(r, s) ==
  /\ Finalize(r, s)
  /\ pos' = [pos EXCEPT ![TradeOf(r)] = PosAfterFinalize(r, s)]
  /\ UNCHANGED <<sharesVars, version>>

SetPosition(t, b) ==
  /\ pos' = [pos EXCEPT ![t] = b.pos]
  /\ entry' = [entry EXCEPT ![t] = b.entry]
  /\ remaining' = [remaining EXCEPT ![t] = b.remaining]

\* finalize_request of an unfilled request followed by rebuild_trade_accounting.
FinalizeAndRebuild(r, s) ==
  /\ Finalize(r, s)
  /\ SetPosition(TradeOf(r),
       Rebuilt(TradeOf(r), PosAfterFinalize(r, s), fills, OpenFailed(r, s)))
  /\ UNCHANGED <<version>>

\* _enqueue_gtd_take_profit_after_fill queues a take-profit after a whole LIVE
\* entry, unless the trade has none or the market is about to end.
TakeProfitDue(r, s, b) ==
  /\ Mode = "LIVE" /\ IsOpen(r) /\ s = "FILLED"
  /\ b.pos # "CLOSED" /\ b.remaining > 0
  /\ market[MarketOfRequest(r)] = "TRADING"
  /\ version[TradeOf(r)] < MaxCloses
  /\ Disposition(ClosesOf(TradeOf(r))) = "CREATED"

\* Mutant: the fills are stored but the position is not rebuilt.
FinalizeFilled_NoRebuild(r, S, s, n, withTakeProfit) ==
  /\ ~withTakeProfit
  /\ fills' = fills \cup S
  /\ filled' = [filled EXCEPT ![r] = n]
  /\ age' = [age EXCEPT ![r] = 0]
  /\ reservation' = ReservationAfterFinalize(r, s)
  /\ state' = [state EXCEPT ![r] = s]
  /\ UNCHANGED <<requested, takeProfit, pos, sharesVars, version, exits>>

\* Fills S are stored, the request becomes s with filled_shares = n, the
\* position is rebuilt, and a take-profit may be queued: one transaction.
FinalizeFilled(r, S, s, n, withTakeProfit) ==
  LET t == TradeOf(r)
      c == NextClose(t)
      b == Rebuilt(t, pos[t], fills \cup S, FALSE)
  IN
  /\ withTakeProfit => TakeProfitDue(r, s, b)
  /\ fills' = fills \cup S
  /\ filled' = [filled EXCEPT ![r] = n]
  /\ age' = [age EXCEPT ![r] = 0]
  /\ reservation' = ReservationAfterFinalize(r, s)
  /\ state' = IF withTakeProfit THEN [state EXCEPT ![r] = s, ![c] = "READY"]
                                ELSE [state EXCEPT ![r] = s]
  /\ requested' = IF withTakeProfit THEN [requested EXCEPT ![c] = b.remaining]
                                    ELSE requested
  /\ takeProfit' = IF withTakeProfit THEN [takeProfit EXCEPT ![c] = TRUE]
                                     ELSE takeProfit
  /\ version' = IF withTakeProfit THEN [version EXCEPT ![t] = @ + 1] ELSE version
  /\ SetPosition(t, IF withTakeProfit THEN [b EXCEPT !.pos = "EXIT_REQUESTED"] ELSE b)
  /\ UNCHANGED <<exits>>

-----------------------------------------------------------------------------
(* The worker: process_ready_requests                                      *)

CurrentOrder(r) == <<r, attempts[r]>>

\* The worker drops what it held and starts its next loop.
Rest == pc' = "idle" /\ cur' = NoRequest /\ answer' = "none" /\ got' = {}

\* READY, or CLAIMED under a lease that has run out.  With one worker per mode
\* the lease only tells how long a row waits after a crash, so its length is
\* left open.
Claimable(r) == state[r] \in { "READY", "CLAIMED" }

\* claim_one finds a row whose TTL has passed.
ClaimExpired(r) ==
  /\ pc = "idle" /\ Claimable(r) /\ expired[r]
  /\ FinalizeOnly(r, "EXPIRED")
  /\ UNCHANGED <<orderVars, expired, evidenceVars, operatorVars, workerVars,
                 venueVars>>

Claim(r) ==
  /\ pc = "idle" /\ Claimable(r) /\ ~expired[r]
  /\ state' = [state EXCEPT ![r] = "CLAIMED"]
  /\ age' = [age EXCEPT ![r] = 0]
  /\ pc' = "claimed" /\ cur' = r
  /\ UNCHANGED <<orderVars, expired, evidenceVars, operatorVars, positionVars,
                 answer, got, batch, crashes, venueVars>>

\* Market row missing, risk limit, price above the cap, or a CLOSE whose market
\* has ended.
PreflightReject(r) ==
  /\ pc = "claimed" /\ cur = r
  /\ FinalizeOnly(r, "REJECTED")
  /\ Rest
  /\ UNCHANGED <<orderVars, expired, evidenceVars, operatorVars, batch,
                 crashes, venueVars>>

\* The conditional-token allowance of a LIVE CLOSE is short or unreadable.
PreflightReview(r) ==
  /\ pc = "claimed" /\ cur = r
  /\ Mode = "LIVE" /\ ~IsOpen(r) /\ market[MarketOfRequest(r)] = "TRADING"
  /\ FinalizeOnly(r, "MANUAL_REVIEW_REQUIRED")
  /\ Rest
  /\ UNCHANGED <<orderVars, expired, evidenceVars, operatorVars, batch,
                 crashes, venueVars>>

\* No fresh quote for a LIVE OPEN: back to READY under the same expires_at.
PreflightRequeue(r) ==
  /\ pc = "claimed" /\ cur = r
  /\ Mode = "LIVE" /\ IsOpen(r)
  /\ FinalizeOnly(r, "READY")
  /\ Rest
  /\ UNCHANGED <<orderVars, expired, evidenceVars, operatorVars, batch,
                 crashes, venueVars>>

\* The attempt row and SUBMITTING are committed before the venue is called.
BeginSubmit(r) ==
  /\ pc = "claimed" /\ cur = r
  /\ IsOpen(r) \/ market[MarketOfRequest(r)] = "TRADING"
  /\ attempts[r] < MaxAttempts
  /\ attempts' = [attempts EXCEPT ![r] = @ + 1]
  /\ state' = [state EXCEPT ![r] = "SUBMITTING"]
  /\ age' = [age EXCEPT ![r] = 0]
  /\ pc' = "submitting"
  /\ UNCHANGED <<orderVars, expired, provider, fills, operatorVars,
                 positionVars, cur, answer, got, batch, crashes, venueVars>>

-----------------------------------------------------------------------------
(* The gateway's answer                                                    *)

Answered(r, a) ==
  /\ pc = "submitting" /\ cur = r
  /\ pc' = "answered" /\ answer' = a
  /\ UNCHANGED <<requestVars, positionVars, cur, batch, crashes>>

\* The PAPER gateway fills 1..requested shares at once, rejects, or raises.
PaperAnswer(r) ==
  /\ Mode = "PAPER"
  /\ \/ \E n \in 1 .. Size :
          /\ n <= requested[r]
          /\ Answered(r, "confirmed") /\ got' = FirstShares(CurrentOrder(r), n)
     \/ \E a \in { "rejected", "unknown" } : Answered(r, a) /\ got' = got
  /\ UNCHANGED venueVars

\* Nothing reached the book: the venue refused, the text of the error proves
\* it ("not enough balance", "allowance"), the connection failed, or the match
\* was undone on chain.  execute_maker_limit turns every exception of a GTD
\* order into a rejection.
LiveNotPlaced(r) ==
  /\ Mode = "LIVE"
  /\ \E a \in IF takeProfit[r] THEN { "rejected" }
              ELSE { "rejected", "denied", "unknown", "failed" } : Answered(r, a)
  /\ UNCHANGED <<got, venueVars>>

\* Shares of the trades' outcome the account holds on market m.
Held(m) ==
  Cardinality({ f \in traded : MarketOfRequest(f[1][1]) = m /\ IsOpen(f[1][1]) })
    - Cardinality({ f \in traded : MarketOfRequest(f[1][1]) = m /\ ~IsOpen(f[1][1]) })

\* The venue can trade n more shares for request r.
Tradable(r, n) ==
  /\ market[MarketOfRequest(r)] \in { "TRADING", "ENDED" }
  /\ IsOpen(r) \/ n <= Held(MarketOfRequest(r))

\* A FAK order trades at once.  Settlement is seen within 30 s, times out, or
\* the answer itself is lost.
LiveTraded(r) ==
  /\ Mode = "LIVE" /\ ~takeProfit[r]
  /\ \E n \in 1 .. Size :
       LET S == FirstShares(CurrentOrder(r), n) IN
       /\ n <= requested[r] /\ Tradable(r, n)
       /\ traded' = traded \cup S
       /\ \/ /\ Answered(r, "confirmed")
             /\ listed' \in { listed \cup S } \cup (IF ListingLag THEN { listed } ELSE {})
          \/ \E a \in { "pending", "unknown" } : Answered(r, a) /\ listed' = listed
  /\ UNCHANGED <<got, market, resting>>

\* The order is on the book: a GTD take-profit, or a FAK order the venue
\* delays.  When the answer is lost a GTD order counts as rejected.
LiveResting(r) ==
  /\ Mode = "LIVE" /\ market[MarketOfRequest(r)] = "TRADING"
  /\ \E a \in { "pending", IF takeProfit[r] THEN "rejected" ELSE "unknown" } :
       Answered(r, a)
  /\ resting' = resting \cup { CurrentOrder(r) }
  /\ UNCHANGED <<got, market, traded, listed>>

-----------------------------------------------------------------------------
(* The worker applies the answer                                           *)

\* What fetch_order_fills returns for the last attempt.
Fetched(r) == SharesOf(listed, CurrentOrder(r))

FillState(r, S) ==
  IF Cardinality(S) < requested[r] THEN "PARTIALLY_FILLED_FINAL" ELSE "FILLED"

\* The fills a CONFIRMED answer comes with.
ConfirmedFills(r) == IF Mode = "PAPER" THEN got ELSE Fetched(r)

\* Not accepted, settlement failed, or confirmed without a single fill.
ApplyRejected(r) ==
  /\ pc = "answered" /\ cur = r
  /\ answer \in { "rejected", "failed" }
       \/ (answer = "confirmed" /\ ConfirmedFills(r) = {})
  /\ FinalizeAndRebuild(r, "REJECTED")
  /\ provider' = IF answer = "rejected" THEN provider
                                        ELSE provider \cup { CurrentOrder(r) }
  /\ Rest
  /\ UNCHANGED <<orderVars, expired, attempts, fills, operatorVars, batch,
                 crashes, venueVars>>

ApplyConfirmed(r) ==
  LET S == ConfirmedFills(r) IN
  /\ pc = "answered" /\ cur = r /\ answer = "confirmed" /\ S # {}
  /\ \E tp \in BOOLEAN : FinalizeFilled(r, S, FillState(r, S), Cardinality(S), tp)
  /\ provider' = provider \cup { CurrentOrder(r) }
  /\ Rest
  /\ UNCHANGED <<expired, attempts, operatorVars, batch, crashes, venueVars>>

\* rebuild_trade_accounting runs here too: a CLOSE that is still pending loses
\* its EXIT_REQUESTED mark.
ApplyPending(r) ==
  LET t == TradeOf(r) IN
  /\ pc = "answered" /\ cur = r /\ answer = "pending"
  /\ state' = [state EXCEPT ![r] = "RECONCILING"]
  /\ age' = [age EXCEPT ![r] = 0]
  /\ provider' = provider \cup { CurrentOrder(r) }
  /\ SetPosition(t, Rebuilt(t, pos[t], fills, OpenFailed(r, "RECONCILING")))
  /\ Rest
  /\ UNCHANGED <<orderVars, expired, attempts, fills, operatorVars,
                 reservation, version, exits, batch, crashes, venueVars>>

\* Mutant: no limit on the number of attempts.
PaperRetry_Unlimited(r) == Mode = "PAPER"

\* Mutant: LIVE is retried like PAPER.
PaperRetry_AnyMode(r) == attempts[r] < 3

\* A PAPER submit may be repeated: the fake gateway leaves nothing behind.
PaperRetry(r) == Mode = "PAPER" /\ attempts[r] < 3

\* Back to READY with a fresh TTL and no claim.
RequeueFresh(r) ==
  /\ state' = [state EXCEPT ![r] = "READY"]
  /\ expired' = [expired EXCEPT ![r] = FALSE]
  /\ age' = [age EXCEPT ![r] = 0]
  /\ UNCHANGED <<positionVars>>

\* Mutant: an unknown LIVE submission counts as rejected.
FinishSubmitException_Reject(r) ==
  /\ pc = "answered" /\ cur = r
  /\ FinalizeOnly(r, "REJECTED")
  /\ Rest
  /\ UNCHANGED <<orderVars, expired, evidenceVars, operatorVars, batch, crashes,
                 venueVars>>

\* _finish_submit_exception: the submission is unknown or denied, or fetching,
\* storing or accounting failed.  The rollback loses the provider_order_id.
FinishSubmitException(r) ==
  /\ pc = "answered" /\ cur = r
  /\ \/ PaperRetry(r) /\ RequeueFresh(r)
     \/ /\ ~PaperRetry(r)
        /\ FinalizeOnly(r, IF answer = "denied" \/ Mode = "PAPER"
                           THEN "REJECTED" ELSE "MANUAL_REVIEW_REQUIRED")
        /\ UNCHANGED expired
  /\ Rest
  /\ UNCHANGED <<orderVars, evidenceVars, operatorVars, batch, crashes,
                 venueVars>>

-----------------------------------------------------------------------------
(* The worker: reconcile_active_requests                                   *)

Reconcilable(r) ==
  pc = "idle" /\ state[r] \in RECONCILABLE_REQUEST_STATES /\ age[r] >= 1

GtdExpired(r) == takeProfit[r] /\ expired[r]
HasProviderId(r) == CurrentOrder(r) \in provider

\* Mutant: only an order with an id times out.
ReconcileTimeout_NeedsId(r) ==
  /\ Reconcilable(r) /\ age[r] = 2 /\ ~GtdExpired(r) /\ HasProviderId(r)
  /\ FinalizeOnly(r, "MANUAL_REVIEW_REQUIRED")
  /\ UNCHANGED <<orderVars, expired, evidenceVars, operatorVars, workerVars,
                 venueVars>>

\* MAX_RECONCILIATION_AGE_SEC has passed: unknown is not absent.
ReconcileTimeout(r) ==
  /\ Reconcilable(r) /\ age[r] = 2 /\ ~GtdExpired(r)
  /\ FinalizeOnly(r, "MANUAL_REVIEW_REQUIRED")
  /\ UNCHANGED <<orderVars, expired, evidenceVars, operatorVars, workerVars,
                 venueVars>>

\* A PAPER row that lost its worker in SUBMITTING.
ReconcileRequeue(r) ==
  /\ Reconcilable(r) /\ age[r] = 1 /\ ~HasProviderId(r) /\ Mode = "PAPER"
  /\ RequeueFresh(r)
  /\ UNCHANGED <<orderVars, evidenceVars, operatorVars, workerVars, venueVars>>

ReconcileFills(r) ==
  LET S == Fetched(r) IN
  /\ Reconcilable(r) /\ (age[r] = 1 \/ GtdExpired(r)) /\ HasProviderId(r) /\ S # {}
  /\ \E tp \in BOOLEAN : FinalizeFilled(r, S, FillState(r, S), Cardinality(S), tp)
  /\ UNCHANGED <<expired, attempts, provider, operatorVars, workerVars,
                 venueVars>>

\* A take-profit past its expiry: the order is cancelled if its id is known
\* (the cancellation may fail) and the position released.
ReconcileGtdExpired(r) ==
  /\ Reconcilable(r) /\ GtdExpired(r)
  /\ ~HasProviderId(r) \/ Fetched(r) = {}
  /\ FinalizeAndRebuild(r, "EXPIRED")
  /\ \/ HasProviderId(r) /\ resting' = resting \ { CurrentOrder(r) }
     \/ resting' = resting
  /\ UNCHANGED <<orderVars, expired, evidenceVars, operatorVars, workerVars,
                 market, traded, listed>>

-----------------------------------------------------------------------------
(* The worker: _auto_resolve_stuck_manual_reviews                          *)

\* Mutant: the wrong intent is selected.
AutoResolveScan_Opens ==
  LET stuck == { r \in Requests : /\ state[r] = "MANUAL_REVIEW_REQUIRED"
                                  /\ IsOpen(r) /\ age[r] = 2 }
  IN
  /\ pc = "idle" /\ stuck # {}
  /\ pc' = "resolving" /\ batch' = stuck
  /\ UNCHANGED <<requestVars, positionVars, cur, answer, got, crashes, venueVars>>

\* The rows are loaded once; each is then written in a transaction of its own,
\* whatever became of it in the meantime.
AutoResolveScan ==
  LET stuck == { r \in Requests : /\ state[r] = "MANUAL_REVIEW_REQUIRED"
                                  /\ ~IsOpen(r) /\ age[r] = 2 }
  IN
  /\ pc = "idle" /\ stuck # {}
  /\ pc' = "resolving" /\ batch' = stuck
  /\ UNCHANGED <<requestVars, positionVars, cur, answer, got, crashes,
                 venueVars>>

LeaveBatch(r) ==
  /\ pc = "resolving" /\ r \in batch
  /\ batch' = batch \ { r }
  /\ pc' = IF batch = { r } THEN "idle" ELSE "resolving"
  /\ UNCHANGED <<cur, answer, got, crashes>>

\* Fills were found: FILLED, with filled_shares left as it was.
AutoResolveFilled(r) ==
  /\ LeaveBatch(r)
  /\ HasProviderId(r) /\ Fetched(r) # {}
  /\ FinalizeFilled(r, Fetched(r), "FILLED", filled[r], FALSE)
  /\ UNCHANGED <<expired, attempts, provider, operatorVars, venueVars>>

\* Mutant: the fills that were found are stored, the request rejected.
AutoResolveRejected_Persist(r) ==
  /\ LeaveBatch(r)
  /\ FinalizeAndRebuild(r, "REJECTED")
  /\ fills' = fills \cup (IF HasProviderId(r) THEN Fetched(r) ELSE {})
  /\ UNCHANGED <<orderVars, expired, attempts, provider, operatorVars, venueVars>>

\* No provider_order_id, no fills, or the lookup failed.
AutoResolveRejected(r) ==
  /\ LeaveBatch(r)
  /\ FinalizeAndRebuild(r, "REJECTED")
  /\ UNCHANGED <<orderVars, expired, evidenceVars, operatorVars, venueVars>>

\* The process dies: what it held in memory is gone, what it committed stays.
Crash ==
  /\ pc # "idle" /\ crashes < MaxCrashes
  /\ crashes' = crashes + 1
  /\ Rest /\ batch' = {}
  /\ UNCHANGED <<requestVars, positionVars, venueVars>>

-----------------------------------------------------------------------------
(* The operator                                                            *)

\* REQUEUE_AFTER_ALLOWANCE: refused when the last attempt has a
\* provider_order_id; expires_at is not moved.
OperatorRequeue(r) ==
  /\ state[r] = "MANUAL_REVIEW_REQUIRED" /\ ~HasProviderId(r)
  /\ requeues[r] < MaxRequeues
  /\ state' = [state EXCEPT ![r] = "READY"]
  /\ age' = [age EXCEPT ![r] = 0]
  /\ requeues' = [requeues EXCEPT ![r] = @ + 1]
  /\ UNCHANGED <<orderVars, expired, evidenceVars, nudges, callerVars, positionVars,
                 workerVars, venueVars>>

\* evaluate_no_fill_eligibility
NoFillEligible(r) ==
  /\ Mode = "LIVE" /\ state[r] = "MANUAL_REVIEW_REQUIRED" /\ filled[r] = 0
  /\ \A o \in provider : o[1] # r
  /\ \A f \in fills : f[1][1] # r

\* MARK_FAILED_NO_FILL, alone or in a batch.
MarkFailedNoFill(r) ==
  /\ NoFillEligible(r)
  /\ FinalizeOnly(r, "MANUAL_REVIEW_FAILED")
  /\ UNCHANGED <<orderVars, expired, evidenceVars, operatorVars, workerVars,
                 venueVars>>

\* Mutant: the state of the request is not checked.
OperatorReconcile_AnyState(r) ==
  /\ Mode = "LIVE" /\ nudges[r] < MaxNudges
  /\ \E o \in provider : o[1] = r
  /\ state' = [state EXCEPT ![r] = "RECONCILING"]
  /\ age' = [age EXCEPT ![r] = 1]
  /\ nudges' = [nudges EXCEPT ![r] = @ + 1]
  /\ UNCHANGED <<orderVars, expired, evidenceVars, requeues, callerVars, positionVars,
                 workerVars, venueVars>>

\* reconcile_request: back to RECONCILING, just outside the 60 s debounce.
OperatorReconcile(r) ==
  /\ Mode = "LIVE" /\ nudges[r] < MaxNudges
  /\ state[r] \in RECONCILABLE_REQUEST_STATES \cup { "MANUAL_REVIEW_REQUIRED" }
  /\ \E o \in provider : o[1] = r
  /\ state' = [state EXCEPT ![r] = "RECONCILING"]
  /\ age' = [age EXCEPT ![r] = 1]
  /\ nudges' = [nudges EXCEPT ![r] = @ + 1]
  /\ UNCHANGED <<orderVars, expired, evidenceVars, requeues, callerVars, positionVars,
                 workerVars, venueVars>>

-----------------------------------------------------------------------------
(* Settlement of resolved markets                                          *)

\* mark_trade_resolved
MarkResolved(t) ==
  LET won == market[MarketOf[t]] = "WON" IN
  /\ pos' = [pos EXCEPT ![t] = IF won THEN "RESOLVED_REDEEMABLE" ELSE "RESOLVED_LOST"]
  /\ remaining' = IF won THEN remaining ELSE [remaining EXCEPT ![t] = 0]
  /\ UNCHANGED <<requestVars, reservation, entry, version, exits, workerVars,
                 venueVars>>

Resolved(t) == market[MarketOf[t]] \in { "WON", "LOST" }

\* resolve_trades_job on a PAPER trade: settle_resolved_position closes it.
SettlePaper(t) ==
  /\ Mode = "PAPER" /\ Resolved(t)
  /\ pos[t] \in ACTIVE_POSITION_STATES /\ entry[t] > 0
  /\ pos' = [pos EXCEPT ![t] = "CLOSED"]
  /\ remaining' = [remaining EXCEPT ![t] = 0]
  /\ UNCHANGED <<requestVars, reservation, entry, version, exits, workerVars,
                 venueVars>>

\* resolve_trades_job on a LIVE trade.
SettleLive(t) ==
  /\ Mode = "LIVE" /\ Resolved(t)
  /\ pos[t] \in { "OPEN", "PARTIALLY_CLOSED" } /\ entry[t] > 0 /\ remaining[t] > 0
  /\ MarkResolved(t)

\* reconcile_live_resolution, on demand of the operator and in any status that
\* is not final.
OperatorSettle(t) ==
  /\ Mode = "LIVE" /\ Resolved(t)
  /\ pos[t] \notin FINAL_POSITION_STATES \cup { "none" }
  /\ MarkResolved(t)

-----------------------------------------------------------------------------
(* Time                                                                    *)

\* The 60 s of ttl_seconds run out.  A take-profit expires with its market.
Expire(r) ==
  /\ state[r] \in { "READY", "CLAIMED", "MANUAL_REVIEW_REQUIRED" }
  /\ ~takeProfit[r] /\ ~expired[r]
  /\ expired' = [expired EXCEPT ![r] = TRUE]
  /\ UNCHANGED <<state, orderVars, age, evidenceVars, operatorVars,
                 positionVars, workerVars, venueVars>>

\* 60 s and then 900 s since updated_at; by then the TTL has run out as well.
Age(r) ==
  /\ state[r] \in RECONCILABLE_REQUEST_STATES \cup { "MANUAL_REVIEW_REQUIRED" }
  /\ cur # r /\ age[r] < 2
  /\ age' = [age EXCEPT ![r] = @ + 1]
  /\ expired' = [expired EXCEPT ![r] = @ \/ ~takeProfit[r]]
  /\ UNCHANGED <<state, orderVars, evidenceVars, operatorVars, positionVars,
                 workerVars, venueVars>>

MarketEnds(m) ==
  /\ market[m] = "TRADING"
  /\ market' = [market EXCEPT ![m] = "ENDED"]
  /\ expired' = [r \in Requests |->
                   expired[r] \/ (takeProfit[r] /\ MarketOfRequest(r) = m)]
  /\ UNCHANGED <<state, orderVars, age, evidenceVars, operatorVars,
                 positionVars, workerVars, resting, traded, listed>>

MarketResolves(m) ==
  /\ market[m] = "ENDED"
  /\ \E w \in { "WON", "LOST" } : market' = [market EXCEPT ![m] = w]
  /\ UNCHANGED <<requestVars, positionVars, workerVars, resting, traded,
                 listed>>

-----------------------------------------------------------------------------
(* The venue                                                               *)

\* One more share of a resting order trades.
VenueTrade(o) ==
  LET n == Cardinality(SharesOf(traded, o)) + 1 IN
  /\ o \in resting /\ market[MarketOfRequest(o[1])] = "TRADING"
  /\ n \in 1 .. Size /\ n <= requested[o[1]] /\ Tradable(o[1], 1)
  /\ traded' = traded \cup { <<o, n>> }
  /\ UNCHANGED <<requestVars, positionVars, workerVars, market, resting,
                 listed>>

\* A delayed FAK order leaves the book at any time, a GTD order when it is
\* filled or has expired.
VenueDrop(o) ==
  /\ o \in resting
  /\ takeProfit[o[1]] =>
       market[MarketOfRequest(o[1])] # "TRADING"
         \/ Cardinality(SharesOf(traded, o)) = requested[o[1]]
  /\ resting' = resting \ { o }
  /\ UNCHANGED <<requestVars, positionVars, workerVars, market, traded,
                 listed>>

\* A traded share settles and appears in list_account_trades.
VenueList(f) ==
  /\ f \in traded \ listed
  /\ listed' = listed \cup { f }
  /\ UNCHANGED <<requestVars, positionVars, workerVars, market, resting,
                 traded>>

-----------------------------------------------------------------------------
ClaimStep(r) == ClaimExpired(r) \/ Claim(r)
Preflight(r) == PreflightReject(r) \/ PreflightReview(r) \/ PreflightRequeue(r) \/ BeginSubmit(r)
Gateway(r) == PaperAnswer(r) \/ LiveNotPlaced(r) \/ LiveTraded(r) \/ LiveResting(r)
Apply(r) == ApplyRejected(r) \/ ApplyConfirmed(r) \/ ApplyPending(r) \/ FinishSubmitException(r)
Reconcile(r) == ReconcileTimeout(r) \/ ReconcileRequeue(r) \/ ReconcileFills(r) \/ ReconcileGtdExpired(r)
AutoResolve(r) == AutoResolveFilled(r) \/ AutoResolveRejected(r)
Operator(r) == OperatorRequeue(r) \/ MarkFailedNoFill(r) \/ OperatorReconcile(r)
Clock(r) == Expire(r) \/ Age(r)
Caller(t) == CallerLoads(t) \/ CallerEnqueues(t) \/ CallerDrops(t)
Settle(t) == SettlePaper(t) \/ SettleLive(t) \/ OperatorSettle(t)

Next ==
  \/ \E t \in Trades : EnqueueOpen(t) \/ EnqueueClose(t) \/ Caller(t) \/ Settle(t)
  \/ \E r \in Requests :
       \/ ClaimStep(r) \/ Preflight(r) \/ Gateway(r) \/ Apply(r)
       \/ Reconcile(r) \/ AutoResolve(r) \/ Operator(r) \/ Clock(r)
  \/ AutoResolveScan
  \/ Crash
  \/ \E m \in Markets : MarketEnds(m) \/ MarketResolves(m)
  \/ \E o \in Orders : VenueTrade(o) \/ VenueDrop(o)
  \/ \E f \in FillIds : VenueList(f)

Spec == Init /\ [][Next]_vars

\* The loop of execution_worker_loop: a request in hand is carried on, and every
\* turn of the loop claims a row, visits every reconcilable row and looks for
\* stuck reviews.  Clocks run.  Nothing is assumed of the operator, the strategy,
\* the settlement job or the venue.
Fairness ==
  /\ WF_vars(\E r \in Requests : Preflight(r) \/ Gateway(r) \/ Apply(r))
  /\ WF_vars(\E r \in Requests : AutoResolve(r))
  /\ SF_vars(\E r \in Requests : ClaimStep(r))
  /\ SF_vars(AutoResolveScan)
  /\ \A r \in Requests : SF_vars(Reconcile(r)) /\ WF_vars(Expire(r)) /\ WF_vars(Age(r))
  /\ \A m \in Markets : WF_vars(MarketEnds(m))

FairSpec == Spec /\ Fairness
-----------------------------------------------------------------------------
(* Properties                                                              *)

\* The partial unique indexes hold: a market has one active OPEN of the mode, a
\* trade one active CLOSE, over every path that inserts, requeues or revives a
\* request (outbox, take-profit after a fill, worker, operator).
OneActivePerKey ==
  /\ \A m \in Markets : \A q, r \in InState(OpensOn(m), ACTIVE_INDEX_STATES) : q = r
  /\ \A t \in Trades : \A q, r \in InState(ClosesOf(t), ACTIVE_INDEX_STATES) : q = r

\* Exposure is reserved exactly while the OPEN can still spend money: no path
\* releases it early (unknown is not absent) and none forgets to release it.
ReservationExact ==
  \A t \in Trades :
    reservation[t] = "held" <=> state[OpenOf(t)] \in ACTIVE_REQUEST_STATES

\* A request has stored fills exactly when it ended FILLED or
\* PARTIALLY_FILLED_FINAL, whichever of submit, reconcile and auto-resolve
\* ended it.
FillsIffSuccess ==
  \A r \in Requests :
    state[r] \in SUCCESS_TERMINAL_STATES <=> \E f \in fills : f[1][1] = r

\* Without the operator a LIVE order is sent at most once; a PAPER one at most
\* three times plus once per crash.
SubmitBound ==
  \A r \in Requests :
    attempts[r] <= IF Mode = "LIVE" THEN requeues[r] + 1 ELSE 3 + crashes

\* A position marked EXIT_REQUESTED has an active CLOSE: otherwise no stop-loss
\* or operator could ever queue another one.
ExitRequestedHasClose ==
  \A t \in Trades :
    pos[t] = "EXIT_REQUESTED" => InState(ClosesOf(t), ACTIVE_REQUEST_STATES) # {}

\* Until its market is settled, a trade's shares are what its stored fills say,
\* through partial fills, late fills and retries.  Only a CLOSE queued from a row
\* that was old (outbox.py:216) can sell more than was bought, and only that puts
\* the position under review (worker.py:1340).
PositionMatchesFills ==
  \A t \in Trades : ~Resolved(t) =>
    LET sold == Cardinality(CloseFills(fills, t)) IN
    /\ entry[t] = Cardinality(OpenFills(fills, t))
    /\ sold <= entry[t] => remaining[t] = entry[t] - sold
    /\ pos[t] = "MANUAL_REVIEW_REQUIRED" => sold > entry[t]
    /\ t \notin stale => sold <= entry[t]

\* A LIVE OPEN that ended REJECTED or EXPIRED on its own bought nothing.
FailedEntryBoughtNothing ==
  \A t \in Trades :
    /\ state[OpenOf(t)] \in { "REJECTED", "EXPIRED" }
    /\ requeues[OpenOf(t)] = 0
    => OpenFills(traded, t) = {}

\* The outcome of a request, once terminal, never turns into another one.
OutcomeIsFinal ==
  [][\A r \in Requests :
       /\ state[r] \in SUCCESS_TERMINAL_STATES => state'[r] = state[r]
       /\ state[r] \in FAILURE_TERMINAL_STATES => state'[r] \in FAILURE_TERMINAL_STATES]_vars

\* The worker disposes of every queued OPEN, through quote outages, crashes and
\* lost answers: it ends, or it waits for the operator.
EntryIsDecided ==
  \A t \in Trades :
    state[OpenOf(t)] \in ACTIVE_REQUEST_STATES \ { "AWAITING_APPROVAL" }
      ~> state[OpenOf(t)] \in TERMINAL_REQUEST_STATES \cup { "MANUAL_REVIEW_REQUIRED" }

\* A CLOSE always ends without the operator, so the position can be sold again.
CloseEnds ==
  \A t \in Trades : \A r \in ClosesOf(t) :
    state[r] \in ACTIVE_REQUEST_STATES ~> state[r] \in TERMINAL_REQUEST_STATES
=============================================================================
