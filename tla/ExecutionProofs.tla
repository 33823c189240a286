---------------------------- MODULE ExecutionProofs ----------------------------
(***************************************************************************)
(* Theorems about ExecutionLifecycle for every set of trades and every     *)
(* bound, in five parts:                                                   *)
(*   1. types;                                                             *)
(*   2. IInv: the table of requests, reservations and the worker's hand;   *)
(*   3. PositionInv: positions against the stored fills;                   *)
(*   4. EntryEvidence: what a refusal says about the venue;                *)
(*   5. ExecutionLifecycle implements ExecutionContract.                   *)
(***************************************************************************)
EXTENDS ExecutionInvariants, ExecutionRefinement, FiniteSetTheorems, TLAPS

-----------------------------------------------------------------------------
(***************************************************************************)
(* 1. Types                                                                *)
(***************************************************************************)

(* Sets and requests                                                       *)

\* The shares the venue may ever trade are finitely many.
LEMMA FillIdsFinite == IsFiniteSet(FillIds)
<1>1. IsFiniteSet(0 .. MaxCloses) /\ IsFiniteSet(1 .. MaxAttempts) /\ IsFiniteSet(1 .. Size)
  BY FS_Interval, SizeAssumption, BoundsAssumption
<1>2. IsFiniteSet(Requests)
  BY <1>1, FS_Product, TradesAssumption DEF Requests
<1>3. IsFiniteSet(Orders)
  BY <1>1, <1>2, FS_Product DEF Orders
<1> QED
  BY <1>1, <1>3, FS_Product DEF FillIds

\* Any set of fills can be counted.
LEMMA CardinalityOfFills ==
  ASSUME NEW S, S \subseteq FillIds
  PROVE  IsFiniteSet(S) /\ Cardinality(S) \in Nat
BY FillIdsFinite, FS_Subset, FS_CardinalityType

\* A request names a trade, its number and a market.
LEMMA RequestParts ==
  ASSUME NEW r \in Requests
  PROVE  /\ TradeOf(r) \in Trades /\ r[2] \in 0 .. MaxCloses
         /\ r = <<r[1], r[2]>>
         /\ MarketOfRequest(r) \in Markets
BY TradesAssumption DEF Requests, TradeOf, MarketOfRequest

\* The OPEN of a trade is a request, and so is the next CLOSE below the bound.
LEMMA RequestsOfTrade ==
  ASSUME NEW t \in Trades
  PROVE  /\ OpenOf(t) \in Requests /\ IsOpen(OpenOf(t)) /\ TradeOf(OpenOf(t)) = t
         /\ version[t] \in Nat /\ version[t] < MaxCloses => NextClose(t) \in Requests
BY BoundsAssumption DEF OpenOf, Requests, IsOpen, TradeOf, NextClose

\* The first shares of an order are fills of the venue.
LEMMA FirstSharesAreFills ==
  ASSUME NEW o \in Orders, NEW n \in 1 .. Size
  PROVE  FirstShares(o, n) \subseteq FillIds
BY SizeAssumption DEF FirstShares, FillIds

-----------------------------------------------------------------------------
(* Type correctness                                                        *)

\* A submission in hand has an attempt row, so CurrentOrder names an order.
AttemptInHand ==
  pc \in { "submitting", "answered" } => cur \in Requests /\ attempts[cur] >= 1

\* TypeOK is not inductive alone: provider and resting stay within Orders only
\* because a submission in hand has an attempt.
TypeInv == TypeOK /\ AttemptInHand

\* What rebuild_trade_accounting writes is a position.
LEMMA RebuiltType ==
  ASSUME TypeOK, NEW t \in Trades, NEW p \in PositionStates,
         NEW S, S \subseteq FillIds, NEW b \in BOOLEAN
  PROVE  Rebuilt(t, p, S, b) \in [pos : PositionStates, entry : Nat, remaining : Nat]
<1>1. /\ Cardinality(OpenFills(S, t)) \in Nat
      /\ Cardinality(CloseFills(S, t)) \in Nat
  BY CardinalityOfFills DEF OpenFills, CloseFills
<1>2. entry[t] \in Nat /\ remaining[t] \in Nat
  BY DEF TypeOK
<1> QED
  BY <1>1, <1>2 DEF Rebuilt, PositionStates, FINAL_POSITION_STATES, ACTIVE_POSITION_STATES

\* finalize_request leaves a known position status.
LEMMA PosAfterFinalizeType ==
  ASSUME TypeOK, NEW r \in Requests, NEW s
  PROVE  PosAfterFinalize(r, s) \in PositionStates
BY RequestParts DEF TypeOK, PosAfterFinalize, PositionStates, ACTIVE_POSITION_STATES

\* What finalize_request writes apart from the position is well typed.
LEMMA FinalizeType ==
  ASSUME TypeOK, NEW r \in Requests, NEW s \in RequestStates, Finalize(r, s)
  PROVE  /\ state' \in [Requests -> RequestStates]
         /\ age' \in [Requests -> 0 .. 2]
         /\ reservation' \in [Trades -> { "none", "held", "released" }]
         /\ exits' \in [Trades -> Nat]
BY RequestParts DEF TypeOK, Finalize, ReservationAfterFinalize

\* The same for finalize_request and the position together.
LEMMA FinalizeOnlyType ==
  ASSUME TypeOK, NEW r \in Requests, NEW s \in RequestStates, FinalizeOnly(r, s)
  PROVE  /\ state' \in [Requests -> RequestStates]
         /\ age' \in [Requests -> 0 .. 2]
         /\ reservation' \in [Trades -> { "none", "held", "released" }]
         /\ exits' \in [Trades -> Nat]
         /\ pos' \in [Trades -> PositionStates]
         /\ UNCHANGED <<entry, remaining, version>>
<1>1. Finalize(r, s) /\ pos' = [pos EXCEPT ![TradeOf(r)] = PosAfterFinalize(r, s)]
      /\ UNCHANGED <<entry, remaining, version>>
  BY DEF FinalizeOnly, sharesVars
<1>2. pos' \in [Trades -> PositionStates]
  BY <1>1, PosAfterFinalizeType DEF TypeOK
<1> QED
  BY <1>1, <1>2, FinalizeType

\* Writing a rebuilt position keeps the types.
LEMMA SetPositionType ==
  ASSUME TypeOK, NEW t \in Trades,
         NEW b \in [pos : PositionStates, entry : Nat, remaining : Nat],
         SetPosition(t, b)
  PROVE  /\ pos' \in [Trades -> PositionStates]
         /\ entry' \in [Trades -> Nat]
         /\ remaining' \in [Trades -> Nat]
BY DEF TypeOK, SetPosition

\* A failed request ended with finalize_request and a rebuild.
LEMMA FinalizeAndRebuildType ==
  ASSUME TypeOK, NEW r \in Requests, NEW s \in RequestStates, FinalizeAndRebuild(r, s)
  PROVE  /\ state' \in [Requests -> RequestStates]
         /\ age' \in [Requests -> 0 .. 2]
         /\ reservation' \in [Trades -> { "none", "held", "released" }]
         /\ exits' \in [Trades -> Nat]
         /\ pos' \in [Trades -> PositionStates]
         /\ entry' \in [Trades -> Nat]
         /\ remaining' \in [Trades -> Nat]
         /\ UNCHANGED version
<1> DEFINE b == Rebuilt(TradeOf(r), PosAfterFinalize(r, s), fills, OpenFailed(r, s))
<1>1. Finalize(r, s) /\ SetPosition(TradeOf(r), b) /\ UNCHANGED version
  BY DEF FinalizeAndRebuild
<1>2. fills \subseteq FillIds /\ OpenFailed(r, s) \in BOOLEAN
  BY DEF TypeOK, OpenFailed
<1>3. b \in [pos : PositionStates, entry : Nat, remaining : Nat]
  BY <1>2, RequestParts, PosAfterFinalizeType, RebuiltType
<1> HIDE DEF b
<1> QED
  BY <1>1, <1>3, RequestParts, FinalizeType, SetPositionType

\* What FinalizeFilled writes is well typed.
FilledTypes ==
  /\ state' \in [Requests -> RequestStates]
  /\ requested' \in [Requests -> Nat]
  /\ filled' \in [Requests -> Nat]
  /\ takeProfit' \in [Requests -> BOOLEAN]
  /\ age' \in [Requests -> 0 .. 2]
  /\ fills' \subseteq FillIds
  /\ reservation' \in [Trades -> { "none", "held", "released" }]
  /\ pos' \in [Trades -> PositionStates]
  /\ entry' \in [Trades -> Nat]
  /\ remaining' \in [Trades -> Nat]
  /\ version' \in [Trades -> 0 .. MaxCloses]
  /\ UNCHANGED exits

\* Fills stored, position rebuilt and take-profit queued in one transaction.
LEMMA FinalizeFilledType ==
  ASSUME TypeOK, NEW r \in Requests, NEW S, S \subseteq FillIds,
         NEW s \in RequestStates, NEW n \in Nat, NEW tp \in BOOLEAN,
         FinalizeFilled(r, S, s, n, tp)
  PROVE  FilledTypes
<1> DEFINE t == TradeOf(r)
           c == NextClose(t)
           b == Rebuilt(t, pos[t], fills \cup S, FALSE)
           q == IF tp THEN [b EXCEPT !.pos = "EXIT_REQUESTED"] ELSE b
<1>1. t \in Trades
  BY RequestParts
<1>2. b \in [pos : PositionStates, entry : Nat, remaining : Nat]
  BY <1>1, RebuiltType DEF TypeOK
<1>3. q \in [pos : PositionStates, entry : Nat, remaining : Nat]
  BY <1>2 DEF PositionStates, ACTIVE_POSITION_STATES
<1>4. /\ tp => version[t] < MaxCloses
      /\ fills' = fills \cup S
      /\ filled' = [filled EXCEPT ![r] = n]
      /\ age' = [age EXCEPT ![r] = 0]
      /\ reservation' = ReservationAfterFinalize(r, s)
      /\ state' = IF tp THEN [state EXCEPT ![r] = s, ![c] = "READY"]
                        ELSE [state EXCEPT ![r] = s]
      /\ requested' = IF tp THEN [requested EXCEPT ![c] = b.remaining] ELSE requested
      /\ takeProfit' = IF tp THEN [takeProfit EXCEPT ![c] = TRUE] ELSE takeProfit
      /\ version' = IF tp THEN [version EXCEPT ![t] = @ + 1] ELSE version
      /\ SetPosition(t, q)
      /\ UNCHANGED exits
  BY DEF FinalizeFilled, TakeProfitDue
<1> HIDE DEF b, q
<1>5. pos' \in [Trades -> PositionStates] /\ entry' \in [Trades -> Nat]
      /\ remaining' \in [Trades -> Nat]
  BY <1>1, <1>3, <1>4, SetPositionType
<1>6. version' \in [Trades -> 0 .. MaxCloses]
  BY <1>1, <1>4, BoundsAssumption DEF TypeOK
<1>7. tp => c \in Requests
  BY <1>1, <1>4, RequestsOfTrade DEF TypeOK
<1>8. state' \in [Requests -> RequestStates]
  BY <1>4, <1>7 DEF TypeOK, RequestStates, REQUEST_HOLD_STATES
<1>9. /\ requested' \in [Requests -> Nat]
      /\ takeProfit' \in [Requests -> BOOLEAN]
  BY <1>2, <1>4 DEF TypeOK
<1>10. /\ filled' \in [Requests -> Nat]
       /\ age' \in [Requests -> 0 .. 2]
       /\ fills' \subseteq FillIds
       /\ reservation' \in [Trades -> { "none", "held", "released" }]
  BY <1>1, <1>4 DEF TypeOK, ReservationAfterFinalize
<1> QED
  BY <1>4, <1>5, <1>6, <1>8, <1>9, <1>10 DEF FilledTypes

\* Every state finalize_request is called with is a state of a request.
LEMMA RequestStatesHas ==
  /\ { "READY", "CLAIMED", "SUBMITTING", "RECONCILING", "AWAITING_APPROVAL",
       "MANUAL_REVIEW_REQUIRED", "REJECTED", "EXPIRED", "MANUAL_REVIEW_FAILED",
       "FILLED", "PARTIALLY_FILLED_FINAL" } \subseteq RequestStates
  /\ { "OPENING", "EXIT_REQUESTED", "CLOSED", "RESOLVED_REDEEMABLE",
       "RESOLVED_LOST" } \subseteq PositionStates
BY DEF RequestStates, REQUEST_HOLD_STATES, TERMINAL_REQUEST_STATES,
       SUCCESS_TERMINAL_STATES, FAILURE_TERMINAL_STATES, PositionStates,
       ACTIVE_POSITION_STATES, FINAL_POSITION_STATES

\* The order in hand is an order of the model.
LEMMA CurrentOrderType ==
  ASSUME TypeInv, NEW r \in Requests, pc \in { "submitting", "answered" }, cur = r
  PROVE  CurrentOrder(r) \in Orders
BY BoundsAssumption DEF TypeInv, TypeOK, AttemptInHand, CurrentOrder, Orders

\* The empty tables are well typed.
LEMMA TypeInvInit == Init => TypeInv
BY SizeAssumption, BoundsAssumption, TradesAssumption
DEF Init, TypeInv, TypeOK, AttemptInHand, RequestStates, PositionStates, WorkerPhases,
    Answers, MarketPhases, NoRequest

-----------------------------------------------------------------------------
(* Each group of actions keeps the types                                   *)

\* The tuples of variables that UNCHANGED clauses name.
USE DEF orderVars, evidenceVars, callerVars, operatorVars, requestVars, sharesVars,
        positionVars, handVars, workerVars, venueVars

\* The outbox keeps the types.
LEMMA OutboxType ==
  ASSUME TypeInv, NEW t \in Trades, EnqueueOpen(t) \/ EnqueueClose(t) \/ Caller(t)
  PROVE  TypeInv'
<1>1. CASE EnqueueOpen(t)
  BY <1>1, RequestsOfTrade, RequestStatesHas, SizeAssumption
  DEF EnqueueOpen, TypeInv, TypeOK, AttemptInHand
<1>2. CASE EnqueueClose(t)
  BY <1>2, RequestsOfTrade, RequestStatesHas, BoundsAssumption
  DEF EnqueueClose, TypeInv, TypeOK, AttemptInHand
<1>3. CASE CallerEnqueues(t)
  BY <1>3, RequestsOfTrade, RequestStatesHas, BoundsAssumption
  DEF CallerEnqueues, TypeInv, TypeOK, AttemptInHand
<1>4. CASE CallerLoads(t) \/ CallerDrops(t)
  BY <1>4 DEF CallerLoads, CallerDrops, TypeInv, TypeOK, AttemptInHand
<1> QED
  BY <1>1, <1>2, <1>3, <1>4 DEF Caller

\* claim_one keeps the types.
LEMMA ClaimType ==
  ASSUME TypeInv, NEW r \in Requests, ClaimStep(r)
  PROVE  TypeInv'
<1>1. CASE ClaimExpired(r)
  <2>1. FinalizeOnly(r, "EXPIRED")
    BY <1>1 DEF ClaimExpired
  <2> QED
    BY <1>1, <2>1, FinalizeOnlyType, RequestStatesHas
    DEF ClaimExpired, TypeInv, TypeOK, AttemptInHand
<1>2. CASE Claim(r)
  BY <1>2, RequestStatesHas DEF Claim, TypeInv, TypeOK, AttemptInHand, WorkerPhases
<1> QED
  BY <1>1, <1>2 DEF ClaimStep

\* The checks before a submission keep the types.
LEMMA PreflightType ==
  ASSUME TypeInv, NEW r \in Requests, Preflight(r)
  PROVE  TypeInv'
<1>1. ASSUME NEW s \in { "REJECTED", "MANUAL_REVIEW_REQUIRED", "READY" },
             FinalizeOnly(r, s), Rest,
             UNCHANGED <<orderVars, expired, evidenceVars, operatorVars, batch,
                         crashes, venueVars>>
      PROVE  TypeInv'
  BY <1>1, FinalizeOnlyType, RequestStatesHas
  DEF Rest, TypeInv, TypeOK, AttemptInHand, WorkerPhases, Answers
<1>2. CASE PreflightReject(r)
  BY <1>1, <1>2 DEF PreflightReject
<1>3. CASE PreflightReview(r)
  BY <1>1, <1>3 DEF PreflightReview
<1>4. CASE PreflightRequeue(r)
  BY <1>1, <1>4 DEF PreflightRequeue
<1>5. CASE BeginSubmit(r)
  BY <1>5, RequestStatesHas, BoundsAssumption
  DEF BeginSubmit, TypeInv, TypeOK, AttemptInHand, WorkerPhases
<1> QED
  BY <1>2, <1>3, <1>4, <1>5 DEF Preflight

\* The answers of the gateway keep the types.
LEMMA GatewayType ==
  ASSUME TypeInv, NEW r \in Requests, Gateway(r)
  PROVE  TypeInv'
<1>1. ASSUME NEW a \in Answers, Answered(r, a), got' \subseteq FillIds, UNCHANGED market,
             resting' \subseteq Orders, traded' \subseteq FillIds, listed' \subseteq FillIds
      PROVE  TypeInv'
  BY <1>1 DEF Answered, TypeInv, TypeOK, AttemptInHand, WorkerPhases
<1>2. ASSUME NEW a, Answered(r, a)
      PROVE  CurrentOrder(r) \in Orders
  BY <1>2, CurrentOrderType DEF Answered
<1>3. CASE PaperAnswer(r)
  <2>1. CASE \E n \in 1 .. Size :
               Answered(r, "confirmed") /\ got' = FirstShares(CurrentOrder(r), n)
    <3>1. PICK n \in 1 .. Size :
            Answered(r, "confirmed") /\ got' = FirstShares(CurrentOrder(r), n)
      BY <2>1
    <3>2. got' \subseteq FillIds
      BY <1>2, <3>1, FirstSharesAreFills
    <3> QED
      BY <1>1, <1>3, <3>1, <3>2 DEF PaperAnswer, Answers, TypeInv, TypeOK
  <2>2. CASE \E a \in { "rejected", "unknown" } : Answered(r, a) /\ got' = got
    BY <1>1, <1>3, <2>2 DEF PaperAnswer, Answers, TypeInv, TypeOK
  <2> QED
    BY <1>3, <2>1, <2>2 DEF PaperAnswer
<1>4. CASE LiveNotPlaced(r)
  BY <1>1, <1>4 DEF LiveNotPlaced, Answers, TypeInv, TypeOK
<1>5. CASE LiveTraded(r)
  <2>1. PICK n \in 1 .. Size, a \in Answers :
          /\ Answered(r, a)
          /\ traded' = traded \cup FirstShares(CurrentOrder(r), n)
          /\ listed' \in { listed, listed \cup FirstShares(CurrentOrder(r), n) }
    BY <1>5 DEF LiveTraded, Answers
  <2>2. FirstShares(CurrentOrder(r), n) \subseteq FillIds
    BY <1>2, <2>1, FirstSharesAreFills
  <2> QED
    BY <1>1, <1>5, <2>1, <2>2 DEF LiveTraded, TypeInv, TypeOK
<1>6. CASE LiveResting(r)
  <2>1. PICK a \in Answers : Answered(r, a)
    BY <1>6 DEF LiveResting, Answers
  <2> QED
    BY <1>1, <1>2, <1>6, <2>1 DEF LiveResting, TypeInv, TypeOK
<1> QED
  BY <1>3, <1>4, <1>5, <1>6 DEF Gateway

\* fetch_order_fills and the PAPER gateway return fills.
LEMMA FetchedType ==
  ASSUME TypeOK, NEW r \in Requests
  PROVE  /\ Fetched(r) \subseteq FillIds /\ ConfirmedFills(r) \subseteq FillIds
         /\ \A S : FillState(r, S) \in { "FILLED", "PARTIALLY_FILLED_FINAL" }
BY DEF TypeOK, Fetched, ConfirmedFills, SharesOf, FillState

\* Applying an answer keeps the types.
LEMMA ApplyType ==
  ASSUME TypeInv, NEW r \in Requests, Apply(r)
  PROVE  TypeInv'
<1>1. CASE ApplyRejected(r)
  <2>1. /\ FinalizeAndRebuild(r, "REJECTED") /\ Rest
        /\ provider' \subseteq provider \cup { CurrentOrder(r) }
        /\ UNCHANGED <<orderVars, expired, attempts, fills, operatorVars, batch,
                       crashes, venueVars>>
    BY <1>1 DEF ApplyRejected
  <2>2. provider' \subseteq Orders
    BY <1>1, <2>1, CurrentOrderType DEF ApplyRejected, TypeInv, TypeOK
  <2> QED
    BY <2>1, <2>2, FinalizeAndRebuildType, RequestStatesHas
    DEF Rest, TypeInv, TypeOK, AttemptInHand, WorkerPhases, Answers
<1>2. CASE ApplyConfirmed(r)
  <2> DEFINE S == ConfirmedFills(r)
  <2>1. PICK tp \in BOOLEAN : FinalizeFilled(r, S, FillState(r, S), Cardinality(S), tp)
    BY <1>2 DEF ApplyConfirmed
  <2>2. S \subseteq FillIds /\ FillState(r, S) \in RequestStates /\ Cardinality(S) \in Nat
    BY FetchedType, CardinalityOfFills, RequestStatesHas DEF TypeInv
  <2>3. provider' \subseteq Orders
    BY <1>2, CurrentOrderType DEF ApplyConfirmed, TypeInv, TypeOK
  <2>4. /\ Rest
        /\ UNCHANGED <<expired, attempts, operatorVars, batch, crashes, venueVars>>
    BY <1>2 DEF ApplyConfirmed
  <2>5. FilledTypes
    BY <2>1, <2>2, FinalizeFilledType, Zenon DEF TypeInv
  <2> QED
    BY <2>3, <2>4, <2>5
    DEF FilledTypes, Rest, TypeInv, TypeOK, AttemptInHand, WorkerPhases, Answers
<1>3. CASE ApplyPending(r)
  <2> DEFINE b == Rebuilt(TradeOf(r), pos[TradeOf(r)], fills, OpenFailed(r, "RECONCILING"))
  <2>1. SetPosition(TradeOf(r), b)
    BY <1>3 DEF ApplyPending
  <2>2. OpenFailed(r, "RECONCILING") \in BOOLEAN
    BY DEF OpenFailed
  <2>3. b \in [pos : PositionStates, entry : Nat, remaining : Nat]
    BY <2>2, RequestParts, RebuiltType DEF TypeInv, TypeOK
  <2> HIDE DEF b
  <2>4. /\ pos' \in [Trades -> PositionStates]
        /\ entry' \in [Trades -> Nat]
        /\ remaining' \in [Trades -> Nat]
    BY <2>1, <2>3, SetPositionType, RequestParts DEF TypeInv
  <2>5. provider' \subseteq Orders
    BY <1>3, CurrentOrderType DEF ApplyPending, TypeInv, TypeOK
  <2> QED
    BY <1>3, <2>4, <2>5, RequestStatesHas
    DEF ApplyPending, Rest, TypeInv, TypeOK, AttemptInHand, WorkerPhases, Answers
<1>4. CASE FinishSubmitException(r)
  <2>1. CASE RequeueFresh(r)
    BY <1>4, <2>1, RequestStatesHas
    DEF FinishSubmitException, RequeueFresh, Rest, TypeInv, TypeOK, AttemptInHand,
        WorkerPhases, Answers
  <2>2. ASSUME NEW s \in { "REJECTED", "MANUAL_REVIEW_REQUIRED" }, FinalizeOnly(r, s),
               UNCHANGED expired
        PROVE  TypeInv'
    BY <1>4, <2>2, FinalizeOnlyType, RequestStatesHas
    DEF FinishSubmitException, Rest, TypeInv, TypeOK, AttemptInHand, WorkerPhases, Answers
  <2> QED
    BY <1>4, <2>1, <2>2 DEF FinishSubmitException
<1> QED
  BY <1>1, <1>2, <1>3, <1>4 DEF Apply

\* reconcile_active_requests keeps the types.
LEMMA ReconcileType ==
  ASSUME TypeInv, NEW r \in Requests, Reconcile(r)
  PROVE  TypeInv'
<1>1. CASE ReconcileTimeout(r)
  <2>1. FinalizeOnly(r, "MANUAL_REVIEW_REQUIRED")
    BY <1>1 DEF ReconcileTimeout
  <2> QED
    BY <1>1, <2>1, FinalizeOnlyType, RequestStatesHas
    DEF ReconcileTimeout, TypeInv, TypeOK, AttemptInHand
<1>2. CASE ReconcileRequeue(r)
  BY <1>2, RequestStatesHas DEF ReconcileRequeue, RequeueFresh, TypeInv, TypeOK, AttemptInHand
<1>3. CASE ReconcileFills(r)
  <2> DEFINE S == Fetched(r)
  <2>1. PICK tp \in BOOLEAN : FinalizeFilled(r, S, FillState(r, S), Cardinality(S), tp)
    BY <1>3 DEF ReconcileFills
  <2>2. S \subseteq FillIds /\ FillState(r, S) \in RequestStates /\ Cardinality(S) \in Nat
    BY FetchedType, CardinalityOfFills, RequestStatesHas DEF TypeInv
  <2>3. UNCHANGED <<expired, attempts, provider, operatorVars, workerVars, venueVars>>
    BY <1>3 DEF ReconcileFills
  <2>4. FilledTypes
    BY <2>1, <2>2, FinalizeFilledType, Zenon DEF TypeInv
  <2> QED
    BY <2>3, <2>4 DEF FilledTypes, TypeInv, TypeOK, AttemptInHand
<1>4. CASE ReconcileGtdExpired(r)
  <2>1. FinalizeAndRebuild(r, "EXPIRED") /\ resting' \subseteq resting
    BY <1>4 DEF ReconcileGtdExpired
  <2> QED
    BY <1>4, <2>1, FinalizeAndRebuildType, RequestStatesHas
    DEF ReconcileGtdExpired, TypeInv, TypeOK, AttemptInHand
<1> QED
  BY <1>1, <1>2, <1>3, <1>4 DEF Reconcile

\* _auto_resolve_stuck_manual_reviews keeps the types.
LEMMA AutoResolveType ==
  ASSUME TypeInv, NEW r \in Requests, AutoResolve(r)
  PROVE  TypeInv'
<1>1. CASE AutoResolveFilled(r)
  <2>1. FinalizeFilled(r, Fetched(r), "FILLED", filled[r], FALSE)
    BY <1>1 DEF AutoResolveFilled
  <2>2. filled[r] \in Nat /\ Fetched(r) \subseteq FillIds
    BY FetchedType DEF TypeInv, TypeOK
  <2>3. FilledTypes
    BY <2>1, <2>2, FinalizeFilledType, RequestStatesHas DEF TypeInv
  <2> QED
    BY <1>1, <2>3
    DEF FilledTypes, AutoResolveFilled, LeaveBatch, TypeInv, TypeOK, AttemptInHand, WorkerPhases
<1>2. CASE AutoResolveRejected(r)
  <2>1. FinalizeAndRebuild(r, "REJECTED")
    BY <1>2 DEF AutoResolveRejected
  <2> QED
    BY <1>2, <2>1, FinalizeAndRebuildType, RequestStatesHas
    DEF AutoResolveRejected, LeaveBatch, TypeInv, TypeOK, AttemptInHand, WorkerPhases
<1> QED
  BY <1>1, <1>2 DEF AutoResolve

\* The operator endpoints keep the types.
LEMMA OperatorType ==
  ASSUME TypeInv, NEW r \in Requests, Operator(r)
  PROVE  TypeInv'
<1>1. CASE OperatorRequeue(r)
  BY <1>1, RequestStatesHas, BoundsAssumption
  DEF OperatorRequeue, TypeInv, TypeOK, AttemptInHand
<1>2. CASE MarkFailedNoFill(r)
  <2>1. FinalizeOnly(r, "MANUAL_REVIEW_FAILED")
    BY <1>2 DEF MarkFailedNoFill
  <2> QED
    BY <1>2, <2>1, FinalizeOnlyType, RequestStatesHas
    DEF MarkFailedNoFill, TypeInv, TypeOK, AttemptInHand
<1>3. CASE OperatorReconcile(r)
  BY <1>3, RequestStatesHas, BoundsAssumption
  DEF OperatorReconcile, TypeInv, TypeOK, AttemptInHand
<1> QED
  BY <1>1, <1>2, <1>3 DEF Operator

\* The settlement of a market keeps the types.
LEMMA SettleType ==
  ASSUME TypeInv, NEW t \in Trades, Settle(t)
  PROVE  TypeInv'
<1>1. CASE SettlePaper(t)
  BY <1>1, RequestStatesHas DEF SettlePaper, TypeInv, TypeOK, AttemptInHand
<1>2. CASE MarkResolved(t)
  BY <1>2, RequestStatesHas DEF MarkResolved, TypeInv, TypeOK, AttemptInHand
<1> QED
  BY <1>1, <1>2 DEF Settle, SettleLive, OperatorSettle

\* The clocks of the requests keep the types.
LEMMA ClockType ==
  ASSUME TypeInv, NEW r \in Requests, Clock(r)
  PROVE  TypeInv'
<1>1. CASE Expire(r)
  BY <1>1 DEF Expire, TypeInv, TypeOK, AttemptInHand
<1>2. CASE Age(r)
  <2>1. expired' \in [Requests -> BOOLEAN]
    BY <1>2, Zenon DEF Age, TypeInv, TypeOK
  <2>2. age' \in [Requests -> 0 .. 2]
    BY <1>2 DEF Age, TypeInv, TypeOK
  <2> QED
    BY <1>2, <2>1, <2>2 DEF Age, TypeInv, TypeOK, AttemptInHand
<1> QED
  BY <1>1, <1>2 DEF Clock

\* The venue and the end of a market keep the types.
LEMMA VenueType ==
  ASSUME TypeInv,
         \/ \E m \in Markets : MarketEnds(m) \/ MarketResolves(m)
         \/ \E o \in Orders : VenueTrade(o) \/ VenueDrop(o)
         \/ \E f \in FillIds : VenueList(f)
  PROVE  TypeInv'
<1>1. ASSUME NEW m \in Markets, MarketEnds(m) PROVE TypeInv'
  BY <1>1 DEF MarketEnds, TypeInv, TypeOK, AttemptInHand, MarketPhases
<1>2. ASSUME NEW m \in Markets, MarketResolves(m) PROVE TypeInv'
  BY <1>2 DEF MarketResolves, TypeInv, TypeOK, AttemptInHand, MarketPhases
<1>3. ASSUME NEW o \in Orders, VenueTrade(o) PROVE TypeInv'
  BY <1>3 DEF VenueTrade, FillIds, TypeInv, TypeOK, AttemptInHand
<1>4. ASSUME NEW o \in Orders, VenueDrop(o) PROVE TypeInv'
  BY <1>4 DEF VenueDrop, TypeInv, TypeOK, AttemptInHand
<1>5. ASSUME NEW f \in FillIds, VenueList(f) PROVE TypeInv'
  BY <1>5 DEF VenueList, TypeInv, TypeOK, AttemptInHand
<1> QED
  BY <1>1, <1>2, <1>3, <1>4, <1>5

\* Every step keeps the types.
LEMMA TypeInvNext == TypeInv /\ [Next]_vars => TypeInv'
<1> SUFFICES ASSUME TypeInv, [Next]_vars PROVE TypeInv'
  OBVIOUS
<1>1. ASSUME NEW t \in Trades, EnqueueOpen(t) \/ EnqueueClose(t) \/ Caller(t) \/ Settle(t)
      PROVE  TypeInv'
  BY <1>1, OutboxType, SettleType
<1>2. ASSUME NEW r \in Requests,
             \/ ClaimStep(r) \/ Preflight(r) \/ Gateway(r) \/ Apply(r)
             \/ Reconcile(r) \/ AutoResolve(r) \/ Operator(r) \/ Clock(r)
      PROVE  TypeInv'
  BY <1>2, ClaimType, PreflightType, GatewayType, ApplyType, ReconcileType,
     AutoResolveType, OperatorType, ClockType
<1>3. CASE AutoResolveScan
  BY <1>3 DEF AutoResolveScan, TypeInv, TypeOK, AttemptInHand, WorkerPhases
<1>4. CASE Crash
  BY <1>4, BoundsAssumption
  DEF Crash, Rest, TypeInv, TypeOK, AttemptInHand, WorkerPhases, Answers
<1>5. CASE UNCHANGED vars
  BY <1>5 DEF vars, TypeInv, TypeOK, AttemptInHand
<1> QED
  BY <1>1, <1>2, <1>3, <1>4, <1>5, VenueType DEF Next

\* The columns, the worker's memory and the venue keep their types under every
\* interleaving of the worker, the operator, the settlement job and the venue.
THEOREM TypeCorrect == Spec => []TypeOK
<1>1. TypeInv => TypeOK
  BY DEF TypeInv
<1> QED
  BY <1>1, TypeInvInit, TypeInvNext, PTL DEF Spec

-----------------------------------------------------------------------------
(***************************************************************************)
(* 2. IInv is inductive, and the safety invariants follow from it          *)
(***************************************************************************)

\* The sets of states.py, for the leaves that compute with them.
USE DEF REQUEST_HOLD_STATES, RECONCILABLE_REQUEST_STATES, SUCCESS_TERMINAL_STATES,
        FAILURE_TERMINAL_STATES, TERMINAL_REQUEST_STATES, ACTIVE_REQUEST_STATES,
        BLOCKING_REQUEST_STATES, ACTIVE_INDEX_STATES

-----------------------------------------------------------------------------
(* What a step does to the table of requests                               *)

\* The table, the reservations and the fills stay.
TableSame == UNCHANGED <<state, reservation, version, fills>>

\* One request moves: never out of a success, and into an active state only
\* from an active state.
TableMove(r, s) ==
  /\ state[r] \notin { "none" } \cup SUCCESS_TERMINAL_STATES
  /\ s \in RequestStates \ ({ "none" } \cup SUCCESS_TERMINAL_STATES)
  /\ s \in ACTIVE_REQUEST_STATES \/ IsOpen(r) => state[r] \in ACTIVE_REQUEST_STATES
  /\ state' = [state EXCEPT ![r] = s]
  /\ reservation' = ReservationAfterFinalize(r, s)
  /\ UNCHANGED <<version, fills>>

\* One request that was sent succeeds, with fills of its own.
TableFill(r, S, s, n, tp) ==
  /\ state[r] \in RECONCILABLE_REQUEST_STATES \cup { "MANUAL_REVIEW_REQUIRED" }
  /\ S # {} /\ \A f \in S : f[1][1] = r
  /\ s \in SUCCESS_TERMINAL_STATES
  /\ FinalizeFilled(r, S, s, n, tp)

\* enqueue_close_request, over a current row or an old one.
QueuesClose(t) ==
  /\ version[t] < MaxCloses
  /\ Disposition(ClosesOf(t)) = "CREATED"
  /\ state' = [state EXCEPT ![NextClose(t)] = "READY"]
  /\ version' = [version EXCEPT ![t] = @ + 1]
  /\ UNCHANGED <<filled, takeProfit, evidenceVars, requeues, reservation, sharesVars,
                 workerVars, venueVars>>

TableStep ==
  \/ TableSame
  \/ \E t \in Trades : EnqueueOpen(t) \/ QueuesClose(t)
  \/ \E r \in Requests, s \in RequestStates : TableMove(r, s)
  \/ \E r \in Requests, S \in SUBSET FillIds, s \in RequestStates, n \in Nat, tp \in BOOLEAN :
       TableFill(r, S, s, n, tp)

\* Whoever asks, the table sees the same CLOSE being queued.
LEMMA ClosesQueued ==
  ASSUME NEW t, EnqueueClose(t) \/ CallerEnqueues(t)
  PROVE  QueuesClose(t)
BY DEF EnqueueClose, CallerEnqueues, QueuesClose

\* A state that releases nothing leaves the reservations alone.
LEMMA NoRelease ==
  ASSUME NEW r, NEW s, s \notin TERMINAL_REQUEST_STATES
  PROVE  ReservationAfterFinalize(r, s) = reservation
BY DEF ReservationAfterFinalize

\* finalize_request, with or without a rebuild, is a move.
LEMMA FinalizeMoves ==
  ASSUME NEW r \in Requests, NEW s \in RequestStates,
         FinalizeOnly(r, s) \/ FinalizeAndRebuild(r, s), UNCHANGED fills,
         state[r] \notin { "none" } \cup SUCCESS_TERMINAL_STATES,
         s \notin { "none" } \cup SUCCESS_TERMINAL_STATES,
         s \in ACTIVE_REQUEST_STATES \/ IsOpen(r) => state[r] \in ACTIVE_REQUEST_STATES
  PROVE  TableStep
<1>1. TableMove(r, s)
  BY DEF TableMove, FinalizeOnly, FinalizeAndRebuild, Finalize
<1> QED
  BY <1>1 DEF TableStep

\* Any other write of an active state to an active row is a move too.
LEMMA ActiveMoves ==
  ASSUME NEW r \in Requests, NEW s \in ACTIVE_REQUEST_STATES,
         state[r] \in ACTIVE_REQUEST_STATES,
         state' = [state EXCEPT ![r] = s], UNCHANGED <<reservation, version, fills>>
  PROVE  TableStep
<1>1. TableMove(r, s)
  BY NoRelease DEF TableMove, RequestStates
<1> QED
  BY <1>1 DEF TableStep, RequestStates

\* claim_one moves a row to EXPIRED or CLAIMED and nothing else in the table.
LEMMA ClaimTable ==
  ASSUME IInv, NEW r \in Requests, ClaimStep(r)
  PROVE  TableStep
<1>1. CASE ClaimExpired(r)
  BY <1>1, FinalizeMoves, RequestStatesHas DEF ClaimExpired, Claimable
<1>2. CASE Claim(r)
  BY <1>2, ActiveMoves DEF Claim, Claimable
<1> QED
  BY <1>1, <1>2 DEF ClaimStep

\* The checks before a submission move only the row in hand.
LEMMA PreflightTable ==
  ASSUME IInv, NEW r \in Requests, Preflight(r)
  PROVE  TableStep
<1>1. state[r] = "CLAIMED"
  BY DEF Preflight, PreflightReject, PreflightReview, PreflightRequeue, BeginSubmit,
         IInv, InHand
<1>2. CASE PreflightReject(r)
  BY <1>1, <1>2, FinalizeMoves, RequestStatesHas DEF PreflightReject
<1>3. CASE PreflightReview(r)
  BY <1>1, <1>3, FinalizeMoves, RequestStatesHas DEF PreflightReview
<1>4. CASE PreflightRequeue(r)
  BY <1>1, <1>4, FinalizeMoves, RequestStatesHas DEF PreflightRequeue
<1>5. CASE BeginSubmit(r)
  BY <1>1, <1>5, ActiveMoves DEF BeginSubmit
<1> QED
  BY <1>2, <1>3, <1>4, <1>5 DEF Preflight

\* Fills fetched for a request are its own.
LEMMA OwnFills ==
  ASSUME IInv, NEW r \in Requests
  PROVE  /\ \A f \in Fetched(r) : f[1][1] = r
         /\ cur = r => \A f \in ConfirmedFills(r) : f[1][1] = r
BY DEF IInv, AnswerInHand, Fetched, SharesOf, CurrentOrder, ConfirmedFills

\* Applying an answer moves the row in hand, or stores its fills.
LEMMA ApplyTable ==
  ASSUME IInv, NEW r \in Requests, Apply(r)
  PROVE  TableStep
<1>1. state[r] = "SUBMITTING" /\ cur = r
  BY DEF Apply, ApplyRejected, ApplyConfirmed, ApplyPending, FinishSubmitException,
         IInv, InHand
<1>2. CASE ApplyRejected(r)
  BY <1>1, <1>2, FinalizeMoves, RequestStatesHas DEF ApplyRejected
<1>3. CASE ApplyConfirmed(r)
  <2> DEFINE S == ConfirmedFills(r)
  <2>1. PICK tp \in BOOLEAN : FinalizeFilled(r, S, FillState(r, S), Cardinality(S), tp)
    BY <1>3 DEF ApplyConfirmed
  <2>2. /\ S \in SUBSET FillIds /\ FillState(r, S) \in RequestStates
        /\ Cardinality(S) \in Nat /\ FillState(r, S) \in SUCCESS_TERMINAL_STATES
    BY FetchedType, CardinalityOfFills, RequestStatesHas DEF IInv
  <2>3. S # {} /\ \A f \in S : f[1][1] = r
    BY <1>1, <1>3, OwnFills DEF ApplyConfirmed
  <2>4. TableFill(r, S, FillState(r, S), Cardinality(S), tp)
    BY <1>1, <2>1, <2>2, <2>3 DEF TableFill
  <2> QED
    BY <2>2, <2>4, Zenon DEF TableStep
<1>4. CASE ApplyPending(r)
  BY <1>1, <1>4, ActiveMoves DEF ApplyPending
<1>5. CASE FinishSubmitException(r)
  <2>1. CASE RequeueFresh(r)
    BY <1>1, <1>5, <2>1, ActiveMoves DEF FinishSubmitException, RequeueFresh
  <2>2. ASSUME NEW s \in { "REJECTED", "MANUAL_REVIEW_REQUIRED" }, FinalizeOnly(r, s)
        PROVE  TableStep
    BY <1>1, <1>5, <2>2, FinalizeMoves, RequestStatesHas DEF FinishSubmitException
  <2> QED
    BY <1>5, <2>1, <2>2 DEF FinishSubmitException
<1> QED
  BY <1>2, <1>3, <1>4, <1>5 DEF Apply

\* reconcile_active_requests moves one reconcilable row per step.
LEMMA ReconcileTable ==
  ASSUME IInv, NEW r \in Requests, Reconcile(r)
  PROVE  TableStep
<1>1. state[r] \in RECONCILABLE_REQUEST_STATES
  BY DEF Reconcile, ReconcileTimeout, ReconcileRequeue, ReconcileFills,
         ReconcileGtdExpired, Reconcilable
<1>2. CASE ReconcileTimeout(r)
  BY <1>1, <1>2, FinalizeMoves, RequestStatesHas DEF ReconcileTimeout
<1>3. CASE ReconcileRequeue(r)
  BY <1>1, <1>3, ActiveMoves DEF ReconcileRequeue, RequeueFresh
<1>4. CASE ReconcileFills(r)
  <2> DEFINE S == Fetched(r)
  <2>1. PICK tp \in BOOLEAN : FinalizeFilled(r, S, FillState(r, S), Cardinality(S), tp)
    BY <1>4 DEF ReconcileFills
  <2>2. /\ S \in SUBSET FillIds /\ FillState(r, S) \in RequestStates
        /\ Cardinality(S) \in Nat /\ FillState(r, S) \in SUCCESS_TERMINAL_STATES
    BY FetchedType, CardinalityOfFills, RequestStatesHas DEF IInv
  <2>3. S # {} /\ \A f \in S : f[1][1] = r
    BY <1>4, OwnFills DEF ReconcileFills
  <2>4. TableFill(r, S, FillState(r, S), Cardinality(S), tp)
    BY <1>1, <2>1, <2>2, <2>3 DEF TableFill
  <2> QED
    BY <2>2, <2>4, Zenon DEF TableStep
<1>5. CASE ReconcileGtdExpired(r)
  BY <1>1, <1>5, FinalizeMoves, RequestStatesHas DEF ReconcileGtdExpired
<1> QED
  BY <1>2, <1>3, <1>4, <1>5 DEF Reconcile

\* _auto_resolve_stuck_manual_reviews writes one row of its batch per step.
LEMMA AutoResolveTable ==
  ASSUME IInv, NEW r \in Requests, AutoResolve(r)
  PROVE  TableStep
<1>1. /\ ~IsOpen(r)
      /\ state[r] \in { "MANUAL_REVIEW_REQUIRED", "READY", "RECONCILING",
                        "MANUAL_REVIEW_FAILED" }
  BY DEF AutoResolve, AutoResolveFilled, AutoResolveRejected, LeaveBatch, IInv, BatchOfCloses
<1>2. CASE AutoResolveFilled(r)
  <2>1. FinalizeFilled(r, Fetched(r), "FILLED", filled[r], FALSE)
    BY <1>2 DEF AutoResolveFilled
  <2>2. state[r] \in { "RECONCILING", "MANUAL_REVIEW_REQUIRED" }
    BY <1>1, <1>2 DEF AutoResolveFilled, HasProviderId, CurrentOrder, IInv, ProviderIdFinal
  <2>3. TableFill(r, Fetched(r), "FILLED", filled[r], FALSE)
    BY <1>2, <2>1, <2>2, OwnFills DEF AutoResolveFilled, TableFill
  <2>4. Fetched(r) \in SUBSET FillIds /\ filled[r] \in Nat
    BY FetchedType DEF IInv, TypeOK
  <2> QED
    BY <2>3, <2>4, RequestStatesHas DEF TableStep
<1>3. CASE AutoResolveRejected(r)
  BY <1>1, <1>3, FinalizeMoves, RequestStatesHas DEF AutoResolveRejected
<1> QED
  BY <1>2, <1>3 DEF AutoResolve

\* An operator call moves one row that is in review or reconcilable.
LEMMA OperatorTable ==
  ASSUME IInv, NEW r \in Requests, Operator(r)
  PROVE  TableStep
<1>1. CASE OperatorRequeue(r)
  BY <1>1, ActiveMoves DEF OperatorRequeue
<1>2. CASE MarkFailedNoFill(r)
  BY <1>2, FinalizeMoves, RequestStatesHas DEF MarkFailedNoFill, NoFillEligible
<1>3. CASE OperatorReconcile(r)
  BY <1>3, ActiveMoves DEF OperatorReconcile
<1> QED
  BY <1>1, <1>2, <1>3 DEF Operator

\* Every step is one of four kinds, as far as the table of requests can tell.
LEMMA NextTable == IInv /\ [Next]_vars => TableStep
<1> SUFFICES ASSUME IInv, [Next]_vars PROVE TableStep
  OBVIOUS
<1>1. ASSUME NEW t \in Trades, EnqueueOpen(t) \/ EnqueueClose(t) \/ Caller(t)
      PROVE  TableStep
  <2>1. CASE CallerLoads(t) \/ CallerDrops(t)
    BY <2>1 DEF TableStep, TableSame, CallerLoads, CallerDrops
  <2> QED
    BY <1>1, <2>1, ClosesQueued DEF TableStep, Caller
<1>2. ASSUME NEW t \in Trades, Settle(t) PROVE TableStep
  BY <1>2 DEF TableStep, TableSame, Settle, SettlePaper, SettleLive, OperatorSettle, MarkResolved
<1>3. ASSUME NEW r \in Requests,
             \/ ClaimStep(r) \/ Preflight(r) \/ Apply(r)
             \/ Reconcile(r) \/ AutoResolve(r) \/ Operator(r)
      PROVE  TableStep
  BY <1>3, ClaimTable, PreflightTable, ApplyTable, ReconcileTable, AutoResolveTable, OperatorTable
<1>4. ASSUME NEW r \in Requests, Gateway(r) \/ Clock(r) PROVE TableStep
  BY <1>4 DEF TableStep, TableSame, Gateway, PaperAnswer, LiveNotPlaced, LiveTraded,
              LiveResting, Answered, Clock, Expire, Age
<1>5. CASE AutoResolveScan \/ Crash
  BY <1>5 DEF TableStep, TableSame, AutoResolveScan, Crash
<1>6. ASSUME NEW m \in Markets, MarketEnds(m) \/ MarketResolves(m) PROVE TableStep
  BY <1>6 DEF TableStep, TableSame, MarketEnds, MarketResolves
<1>7. ASSUME NEW o \in Orders, VenueTrade(o) \/ VenueDrop(o) PROVE TableStep
  BY <1>7 DEF TableStep, TableSame, VenueTrade, VenueDrop
<1>8. ASSUME NEW f \in FillIds, VenueList(f) PROVE TableStep
  BY <1>8 DEF TableStep, TableSame, VenueList
<1>9. CASE UNCHANGED vars
  BY <1>9 DEF TableStep, TableSame, vars
<1> QED
  BY <1>1, <1>2, <1>3, <1>4, <1>5, <1>6, <1>7, <1>8, <1>9 DEF Next

-----------------------------------------------------------------------------
(* The invariants on the table, from the four kinds of step                *)

\* The parts of IInv that only the table can disturb.
TableInv ==
  /\ NextCloseAbsent /\ ReservationExact /\ OneActivePerKey /\ FillsIffSuccess

\* The shape of requests, for the leaves that tell OPEN and CLOSE apart.
LEMMA RequestShapes ==
  /\ \A t \in Trades :
       /\ OpenOf(t) \in Requests /\ IsOpen(OpenOf(t)) /\ TradeOf(OpenOf(t)) = t
       /\ ClosesOf(t) \subseteq Requests
       /\ \A r \in ClosesOf(t) : ~IsOpen(r) /\ TradeOf(r) = t
  /\ \A m \in Markets : \A r \in OpensOn(m) : r \in Requests /\ IsOpen(r)
  /\ \A r \in Requests : /\ TradeOf(r) \in Trades
                         /\ IsOpen(r) => r = OpenOf(TradeOf(r))
                         /\ ~IsOpen(r) => r \in ClosesOf(TradeOf(r))
                         /\ TradeOf(r) = r[1]
BY BoundsAssumption DEF OpenOf, ClosesOf, OpensOn, Requests, IsOpen, TradeOf

\* An insert that succeeds found no active row.
LEMMA CreatedMeansFree ==
  ASSUME NEW R, Disposition(R) = "CREATED"
  PROVE  InState(R, ACTIVE_INDEX_STATES) = {}
BY DEF Disposition

\* Fewer active rows cannot break a unique index.
LEMMA FewerActive ==
  ASSUME OneActivePerKey,
         \A q \in Requests : state'[q] \in ACTIVE_INDEX_STATES => state[q] \in ACTIVE_INDEX_STATES
  PROVE  OneActivePerKey'
BY RequestShapes DEF OneActivePerKey, InState

\* Nor can a new active OPEN of a market that had none.
LEMMA NewActiveOpen ==
  ASSUME OneActivePerKey, NEW t \in Trades,
         InState(OpensOn(MarketOf[t]), ACTIVE_INDEX_STATES) = {},
         \A q \in Requests : state'[q] \in ACTIVE_INDEX_STATES =>
           q = OpenOf(t) \/ state[q] \in ACTIVE_INDEX_STATES
  PROVE  OneActivePerKey'
<1>1. ASSUME NEW m \in Markets, NEW q \in InState(OpensOn(m), ACTIVE_INDEX_STATES)',
             NEW r \in InState(OpensOn(m), ACTIVE_INDEX_STATES)'
      PROVE  q = r
  <2>1. OpenOf(t) \in OpensOn(m) => m = MarketOf[t]
    BY DEF OpensOn, OpenOf
  <2> QED
    BY <1>1, <2>1, RequestShapes DEF OneActivePerKey, InState
<1>2. ASSUME NEW u \in Trades, NEW q \in InState(ClosesOf(u), ACTIVE_INDEX_STATES)',
             NEW r \in InState(ClosesOf(u), ACTIVE_INDEX_STATES)'
      PROVE  q = r
  BY <1>2, RequestShapes DEF OneActivePerKey, InState
<1> QED
  BY <1>1, <1>2, Zenon DEF OneActivePerKey, InState

\* Nor a new active CLOSE of a trade that had none.
LEMMA NewActiveClose ==
  ASSUME OneActivePerKey, NEW t \in Trades, NEW c \in ClosesOf(t),
         InState(ClosesOf(t), ACTIVE_INDEX_STATES) = {},
         \A q \in Requests : state'[q] \in ACTIVE_INDEX_STATES =>
           q = c \/ state[q] \in ACTIVE_INDEX_STATES
  PROVE  OneActivePerKey'
<1>1. ASSUME NEW m \in Markets, NEW q \in InState(OpensOn(m), ACTIVE_INDEX_STATES)',
             NEW r \in InState(OpensOn(m), ACTIVE_INDEX_STATES)'
      PROVE  q = r
  BY <1>1, RequestShapes DEF OneActivePerKey, InState
<1>2. ASSUME NEW u \in Trades, NEW q \in InState(ClosesOf(u), ACTIVE_INDEX_STATES)',
             NEW r \in InState(ClosesOf(u), ACTIVE_INDEX_STATES)'
      PROVE  q = r
  BY <1>2, RequestShapes DEF OneActivePerKey, InState
<1> QED
  BY <1>1, <1>2, Zenon DEF OneActivePerKey, InState

\* finalize_request keeps the reservation of an OPEN in step with its state.
LEMMA EndReleases ==
  ASSUME TypeOK, ReservationExact, NEW r \in Requests, NEW s \in RequestStates \ { "none" },
         s \in ACTIVE_REQUEST_STATES \/ IsOpen(r) => state[r] \in ACTIVE_REQUEST_STATES,
         state'[r] = s,
         \A q \in Requests \ { r } : IsOpen(q) => state'[q] = state[q],
         reservation' = ReservationAfterFinalize(r, s)
  PROVE  ReservationExact'
<1> SUFFICES ASSUME NEW t \in Trades
             PROVE  reservation'[t] = "held" <=> state'[OpenOf(t)] \in ACTIVE_REQUEST_STATES
  BY DEF ReservationExact
<1>1. OpenOf(t) \in Requests /\ IsOpen(OpenOf(t)) /\ TradeOf(OpenOf(t)) = t
  BY RequestShapes
<1>2. reservation[t] = "held" <=> state[OpenOf(t)] \in ACTIVE_REQUEST_STATES
  BY DEF ReservationExact
<1>3. CASE r = OpenOf(t)
  BY <1>1, <1>2, <1>3 DEF TypeOK, ReservationAfterFinalize, RequestStates
<1>4. CASE r # OpenOf(t)
  <2>1. IsOpen(r) => TradeOf(r) # t
    BY <1>4, RequestShapes
  <2> QED
    BY <1>1, <1>2, <1>4, <2>1, RequestParts DEF TypeOK, ReservationAfterFinalize
<1> QED
  BY <1>3, <1>4

\* position_version moves past a CLOSE when it is inserted.
LEMMA NewCloseCounted ==
  ASSUME TypeOK, NextCloseAbsent, NEW t \in Trades, NEW c \in Requests,
         c[1] = t, c[2] = version[t] + 1,
         \A q \in Requests \ { c } : state[q] = "none" => state'[q] = "none",
         version' = [version EXCEPT ![t] = @ + 1]
  PROVE  NextCloseAbsent'
<1> SUFFICES ASSUME NEW q \in Requests, q[2] > version'[q[1]], ~IsOpen(q)
             PROVE  state'[q] = "none"
  BY DEF NextCloseAbsent, IsOpen
<1>1. q[1] \in Trades /\ q[2] \in Nat /\ c[2] \in Nat
  BY BoundsAssumption DEF Requests
<1>2. version[q[1]] \in Nat /\ version'[q[1]] = IF q[1] = t THEN version[t] + 1 ELSE version[q[1]]
  BY <1>1, BoundsAssumption DEF TypeOK
<1>3. q # c /\ q[2] > version[q[1]]
  BY <1>1, <1>2
<1> QED
  BY <1>3 DEF NextCloseAbsent

\* A single move of a row keeps the table invariant.
LEMMA MoveKeeps ==
  ASSUME IInv, NEW r \in Requests, NEW s \in RequestStates, TableMove(r, s)
  PROVE  TableInv'
<1>1. NextCloseAbsent'
  BY DEF TableMove, IInv, TypeOK, NextCloseAbsent
<1>2. ReservationExact'
  BY EndReleases DEF TableMove, IInv, TypeOK
<1>3. OneActivePerKey'
  BY FewerActive DEF TableMove, IInv, TypeOK
<1>4. FillsIffSuccess'
  BY DEF TableMove, IInv, TypeOK, FillsIffSuccess
<1> QED
  BY <1>1, <1>2, <1>3, <1>4 DEF TableInv

\* Inserting an OPEN that Disposition lets through keeps the table invariant.
LEMMA OpenKeeps ==
  ASSUME IInv, NEW t \in Trades, EnqueueOpen(t)
  PROVE  TableInv'
<1>1. NextCloseAbsent'
  BY RequestShapes DEF EnqueueOpen, IInv, TypeOK, NextCloseAbsent
<1>2. ReservationExact'
  BY RequestShapes DEF EnqueueOpen, IInv, TypeOK, ReservationExact
<1>3. InState(OpensOn(MarketOf[t]), ACTIVE_INDEX_STATES) = {}
  BY CreatedMeansFree DEF EnqueueOpen
<1>4. OneActivePerKey'
  BY <1>3, NewActiveOpen DEF EnqueueOpen, IInv, TypeOK
<1>5. FillsIffSuccess'
  BY RequestShapes DEF EnqueueOpen, IInv, TypeOK, FillsIffSuccess
<1> QED
  BY <1>1, <1>2, <1>4, <1>5 DEF TableInv

\* The row a new CLOSE takes is free.
LEMMA NewClose ==
  ASSUME IInv, NEW t \in Trades, QueuesClose(t)
  PROVE  LET c == NextClose(t) IN
         /\ c \in ClosesOf(t) /\ c \in Requests /\ c[1] = t /\ c[2] = version[t] + 1
         /\ state[c] = "none" /\ ~IsOpen(c) /\ TradeOf(c) = t
<1> DEFINE c == NextClose(t)
<1>1. version[t] \in 0 .. MaxCloses /\ version[t] < MaxCloses
  BY DEF QueuesClose, IInv, TypeOK
<1>2. version[t] + 1 \in 1 .. MaxCloses
  BY <1>1, BoundsAssumption
<1>3. c \in ClosesOf(t) /\ c \in Requests /\ c[1] = t /\ c[2] = version[t] + 1
  BY <1>2, BoundsAssumption DEF NextClose, ClosesOf, Requests
<1>4. ~IsOpen(c) /\ TradeOf(c) = t
  BY <1>3, RequestShapes
<1>5. c[2] > version[c[1]]
  BY <1>1, <1>3, BoundsAssumption
<1>6. state[c] = "none"
  BY <1>3, <1>4, <1>5 DEF IInv, NextCloseAbsent
<1> QED
  BY <1>3, <1>4, <1>6

\* Inserting a CLOSE that Disposition lets through keeps the table invariant.
LEMMA CloseKeeps ==
  ASSUME IInv, NEW t \in Trades, QueuesClose(t)
  PROVE  TableInv'
<1> DEFINE r == NextClose(t)
<1>1. r \in ClosesOf(t) /\ r \in Requests /\ r[1] = t /\ r[2] = version[t] + 1
  BY NewClose
<1>2. state[r] = "none" /\ ~IsOpen(r)
  BY NewClose
<1>3. /\ state' = [state EXCEPT ![r] = "READY"]
      /\ version' = [version EXCEPT ![t] = @ + 1]
      /\ UNCHANGED <<reservation, fills>>
      /\ InState(ClosesOf(t), ACTIVE_INDEX_STATES) = {}
  BY CreatedMeansFree DEF QueuesClose
<1> HIDE DEF r
<1>4. NextCloseAbsent'
  BY <1>1, <1>3, NewCloseCounted DEF IInv, TypeOK
<1>5. ReservationExact'
  BY <1>1, <1>2, <1>3, RequestShapes DEF IInv, TypeOK, ReservationExact
<1>6. OneActivePerKey'
  BY <1>1, <1>3, NewActiveClose DEF IInv, TypeOK
<1>7. FillsIffSuccess'
  BY <1>1, <1>2, <1>3 DEF IInv, TypeOK, FillsIffSuccess
<1> QED
  BY <1>4, <1>5, <1>6, <1>7 DEF TableInv

\* Storing fills, with or without a take-profit queued behind them, keeps the
\* table invariant.
LEMMA FillKeeps ==
  ASSUME IInv, NEW r \in Requests, NEW S \in SUBSET FillIds, NEW s \in RequestStates,
         NEW n \in Nat, NEW tp \in BOOLEAN, TableFill(r, S, s, n, tp)
  PROVE  TableInv'
<1> DEFINE t == TradeOf(r)
           c == NextClose(t)
<1>1. /\ state[r] \in ACTIVE_REQUEST_STATES /\ s \in SUCCESS_TERMINAL_STATES
      /\ S # {} /\ \A f \in S : f[1][1] = r
      /\ fills' = fills \cup S
      /\ reservation' = ReservationAfterFinalize(r, s)
  BY DEF TableFill, FinalizeFilled
<1>2. CASE ~tp
  <2>1. state' = [state EXCEPT ![r] = s] /\ UNCHANGED version
    BY <1>2 DEF TableFill, FinalizeFilled
  <2>2. NextCloseAbsent'
    BY <1>1, <2>1 DEF IInv, TypeOK, NextCloseAbsent
  <2>3. ReservationExact'
    BY <1>1, <2>1, EndReleases DEF IInv, TypeOK
  <2>4. OneActivePerKey'
    BY <1>1, <2>1, FewerActive DEF IInv, TypeOK
  <2>5. FillsIffSuccess'
    BY <1>1, <2>1 DEF IInv, TypeOK, FillsIffSuccess
  <2> QED
    BY <2>2, <2>3, <2>4, <2>5 DEF TableInv
<1>3. CASE tp
  <2>1. /\ state' = [state EXCEPT ![r] = s, ![c] = "READY"]
        /\ version' = [version EXCEPT ![t] = @ + 1]
        /\ version[t] < MaxCloses /\ IsOpen(r)
        /\ InState(ClosesOf(t), ACTIVE_INDEX_STATES) = {}
    BY <1>3, CreatedMeansFree DEF TableFill, FinalizeFilled, TakeProfitDue
  <2>2. t \in Trades /\ r = OpenOf(t)
    BY <2>1, RequestShapes
  <2>3. c \in ClosesOf(t) /\ c \in Requests /\ c[1] = t /\ c[2] = version[t] + 1
    BY <2>1, <2>2, BoundsAssumption DEF IInv, TypeOK, NextClose, ClosesOf, Requests
  <2>4. state[c] = "none" /\ ~IsOpen(c) /\ c # r
    BY <2>1, <2>2, <2>3, RequestShapes DEF IInv, TypeOK, NextCloseAbsent
  <2> HIDE DEF t, c
  <2>5. NextCloseAbsent'
    BY <1>1, <2>1, <2>2, <2>3, NewCloseCounted DEF IInv, TypeOK
  <2>6. ReservationExact'
    BY <1>1, <2>1, <2>3, <2>4, EndReleases DEF IInv, TypeOK
  <2>7. OneActivePerKey'
    BY <1>1, <2>1, <2>2, <2>3, NewActiveClose DEF IInv, TypeOK
  <2>8. FillsIffSuccess'
    BY <1>1, <2>1, <2>2, <2>3, <2>4 DEF IInv, TypeOK, FillsIffSuccess
  <2> QED
    BY <2>5, <2>6, <2>7, <2>8 DEF TableInv
<1> QED
  BY <1>2, <1>3

\* Every step keeps the table invariant.
LEMMA TableInvNext == IInv /\ [Next]_vars => TableInv'
<1> SUFFICES ASSUME IInv, [Next]_vars PROVE TableInv'
  OBVIOUS
<1>1. TableStep
  BY NextTable
<1>2. CASE TableSame
  BY <1>2 DEF TableSame, IInv, TableInv, NextCloseAbsent, ReservationExact, OneActivePerKey,
              InState, FillsIffSuccess
<1>3. ASSUME NEW r \in Requests, NEW S \in SUBSET FillIds, NEW s \in RequestStates,
             NEW n \in Nat, NEW tp \in BOOLEAN, TableFill(r, S, s, n, tp)
      PROVE  TableInv'
  BY <1>3, FillKeeps
<1> QED
  BY <1>1, <1>2, <1>3, MoveKeeps, OpenKeeps, CloseKeeps DEF TableStep

-----------------------------------------------------------------------------
(* The invariants on what the worker holds, action by action               *)

\* The parts of IInv about the worker's memory and the attempts.
HandInv ==
  /\ InHand /\ AnswerInHand /\ ProviderIdFinal /\ BatchOfCloses /\ WithinBudget

\* finalize_request writes the state of one request.
LEMMA FinalizeState ==
  ASSUME NEW r, NEW s, FinalizeOnly(r, s) \/ FinalizeAndRebuild(r, s)
  PROVE  state' = [state EXCEPT ![r] = s]
BY DEF FinalizeOnly, FinalizeAndRebuild, Finalize

\* A row the worker does not hold moves; the worker's memory and the attempts
\* stay.  This covers the outbox, the operator, an expired claim and the
\* reconciliation.
LEMMA OtherRowMoves ==
  ASSUME IInv, NEW r \in Requests, NEW s \in RequestStates,
         \A q \in Requests \ { r } : state'[q] = state[q] \/ state[q] = "none",
         state'[r] = s,
         pc \in { "claimed", "submitting", "answered" } => cur # r /\ state'[cur] = state[cur],
         r \in batch => s \in { "MANUAL_REVIEW_REQUIRED", "READY", "RECONCILING",
                                "MANUAL_REVIEW_FAILED" },
         (\E o \in provider : o[1] = r) =>
           s \in { "RECONCILING", "MANUAL_REVIEW_REQUIRED", "FILLED",
                   "PARTIALLY_FILLED_FINAL", "REJECTED", "EXPIRED" },
         UNCHANGED <<pc, cur, answer, got, batch, attempts, provider>>
  PROVE  /\ InHand' /\ AnswerInHand' /\ ProviderIdFinal' /\ BatchOfCloses'
<1>1. InHand'
  BY DEF IInv, TypeOK, InHand
<1>2. AnswerInHand'
  BY DEF IInv, AnswerInHand
<1>3. ProviderIdFinal'
  BY DEF IInv, TypeOK, ProviderIdFinal, Orders
<1>4. BatchOfCloses'
  BY DEF IInv, TypeOK, BatchOfCloses
<1> QED
  BY <1>1, <1>2, <1>3, <1>4

\* The worker is between the commit of SUBMITTING and the commit of its answer.
SubmissionOf(q) == pc \in { "submitting", "answered" } /\ cur = q

\* Without a new attempt or a crash the budget can only shrink when a LIVE row
\* returns to the queue, or a PAPER row does so out of the worker's hand.
LEMMA BudgetKept ==
  ASSUME IInv, TypeOK', UNCHANGED <<attempts, crashes>>, NEW q \in Requests,
         Mode = "LIVE" =>
           /\ requeues'[q] >= requeues[q]
           /\ state'[q] \in { "none", "AWAITING_APPROVAL", "READY", "CLAIMED" } =>
                \/ state[q] \in { "none", "AWAITING_APPROVAL", "READY", "CLAIMED" }
                \/ requeues'[q] = requeues[q] + 1,
         Mode = "PAPER" =>
           \/ state'[q] \in TERMINAL_REQUEST_STATES
           \/ SubmissionOf(q)'
           \/ attempts[q] <= 2
           \/ state[q] \notin TERMINAL_REQUEST_STATES /\ ~SubmissionOf(q)
  PROVE  attempts'[q] <= SubmitBudget(q)'
<1>1. /\ attempts[q] \in Nat /\ requeues[q] \in Nat /\ requeues'[q] \in Nat /\ crashes \in Nat
      /\ attempts[q] <= SubmitBudget(q)
  BY BoundsAssumption DEF IInv, TypeOK, WithinBudget
<1>2. CASE Mode = "LIVE"
  BY <1>1, <1>2 DEF SubmitBudget
<1>3. CASE Mode = "PAPER"
  BY <1>1, <1>3 DEF SubmitBudget, SubmissionOf
<1> QED
  BY <1>2, <1>3, ModeAssumption

\* The outbox inserts rows the worker does not hold.
LEMMA OutboxHand ==
  ASSUME IInv, TypeOK', NEW t \in Trades, EnqueueOpen(t) \/ QueuesClose(t)
  PROVE  HandInv'
<1>1. PICK r \in Requests, s \in { "AWAITING_APPROVAL", "READY" } :
        state[r] = "none" /\ state' = [state EXCEPT ![r] = s]
  <2>1. CASE EnqueueOpen(t)
    BY <2>1, RequestShapes DEF EnqueueOpen
  <2>2. CASE QueuesClose(t)
    <3>1. NextClose(t) \in Requests /\ state[NextClose(t)] = "none"
      BY <2>2, NewClose
    <3> QED
      BY <2>2, <3>1 DEF QueuesClose
  <2> QED
    BY <2>1, <2>2
<1>2. UNCHANGED <<pc, cur, answer, got, batch, crashes, attempts, provider, requeues>>
  BY DEF EnqueueOpen, QueuesClose
<1>3. /\ pc \in { "claimed", "submitting", "answered" } => cur # r /\ state'[cur] = state[cur]
      /\ r \notin batch
      /\ \A o \in provider : o[1] # r
  BY <1>1 DEF IInv, TypeOK, InHand, BatchOfCloses, ProviderIdFinal
<1>4. s \in RequestStates /\ state'[r] = s /\ \A q \in Requests \ { r } : state'[q] = state[q]
  BY <1>1, RequestStatesHas DEF IInv, TypeOK
<1>5. InHand' /\ AnswerInHand' /\ ProviderIdFinal' /\ BatchOfCloses'
  BY <1>2, <1>3, <1>4, OtherRowMoves
<1>6. WithinBudget'
  <2> SUFFICES ASSUME NEW q \in Requests PROVE attempts'[q] <= SubmitBudget(q)'
    BY DEF WithinBudget
  <2>1. requeues'[q] >= requeues[q]
    BY <1>2 DEF IInv, TypeOK
  <2> QED
    BY <1>1, <1>2, <1>4, <2>1, BudgetKept DEF SubmissionOf
<1> QED
  BY <1>5, <1>6 DEF HandInv

\* The worker commits its verdict on the request in hand and lets go of it.
LEMMA HandLetsGo ==
  ASSUME IInv, NEW r \in Requests, NEW s \in RequestStates,
         pc \in { "claimed", "submitting", "answered" }, cur = r, Rest,
         \A q \in Requests \ { r } : state'[q] = state[q] \/ state[q] = "none",
         state'[r] = s,
         UNCHANGED <<batch, attempts>>,
         \/ provider' = provider
         \/ /\ provider' = provider \cup { CurrentOrder(r) }
            /\ s \in { "RECONCILING", "MANUAL_REVIEW_REQUIRED", "FILLED",
                       "PARTIALLY_FILLED_FINAL", "REJECTED", "EXPIRED" }
  PROVE  /\ InHand' /\ AnswerInHand' /\ ProviderIdFinal' /\ BatchOfCloses'
<1>1. InHand'
  BY DEF Rest, InHand
<1>2. AnswerInHand'
  BY DEF Rest, AnswerInHand
<1>3. \A o \in provider : o \in Orders /\ o[1] \in Requests /\ o[1] # r
  BY DEF IInv, TypeOK, InHand, ProviderIdFinal, Orders
<1>4. ProviderIdFinal'
  BY <1>3 DEF IInv, TypeOK, ProviderIdFinal, CurrentOrder
<1>5. BatchOfCloses'
  BY DEF IInv, BatchOfCloses
<1> QED
  BY <1>1, <1>2, <1>4, <1>5

\* claim_one puts one CLAIMED row in the hand of the worker.
LEMMA ClaimHand ==
  ASSUME IInv, TypeOK', NEW r \in Requests, ClaimStep(r)
  PROVE  HandInv'
<1>1. /\ pc = "idle" /\ batch = {} /\ \A o \in provider : o[1] # r
      /\ state[r] \in { "READY", "CLAIMED" }
  BY DEF ClaimStep, ClaimExpired, Claim, Claimable, IInv, BatchOfCloses, ProviderIdFinal
<1>2. CASE ClaimExpired(r)
  <2>1. /\ state' = [state EXCEPT ![r] = "EXPIRED"]
        /\ UNCHANGED <<pc, cur, answer, got, batch, crashes, attempts, provider, requeues>>
    BY <1>2, FinalizeState DEF ClaimExpired
  <2>2. state'[r] = "EXPIRED" /\ \A q \in Requests \ { r } : state'[q] = state[q]
    BY <2>1 DEF IInv, TypeOK
  <2>3. InHand' /\ AnswerInHand' /\ ProviderIdFinal' /\ BatchOfCloses'
    BY <1>1, <2>1, <2>2, OtherRowMoves, RequestStatesHas
  <2>4. ASSUME NEW q \in Requests PROVE attempts'[q] <= SubmitBudget(q)'
    <3>1. requeues'[q] >= requeues[q]
      BY <2>1 DEF IInv, TypeOK
    <3> QED
      BY <2>1, <2>2, <3>1, BudgetKept DEF SubmissionOf
  <2> QED
    BY <2>3, <2>4 DEF HandInv, WithinBudget
<1>3. CASE Claim(r)
  <2>1. /\ state' = [state EXCEPT ![r] = "CLAIMED"] /\ pc' = "claimed" /\ cur' = r
        /\ UNCHANGED <<answer, got, batch, crashes, attempts, provider, requeues>>
    BY <1>3 DEF Claim
  <2>2. state'[r] = "CLAIMED" /\ \A q \in Requests \ { r } : state'[q] = state[q]
    BY <2>1 DEF IInv, TypeOK
  <2>3. InHand' /\ BatchOfCloses'
    BY <1>1, <2>1, <2>2 DEF InHand, BatchOfCloses
  <2>4. AnswerInHand'
    BY <1>1, <2>1 DEF IInv, AnswerInHand
  <2>5. ProviderIdFinal'
    BY <1>1, <2>1, <2>2 DEF IInv, TypeOK, ProviderIdFinal, Orders
  <2>6. ASSUME NEW q \in Requests PROVE attempts'[q] <= SubmitBudget(q)'
    <3>1. requeues'[q] >= requeues[q]
      BY <2>1 DEF IInv, TypeOK
    <3> QED
      BY <1>1, <2>1, <2>2, <3>1, BudgetKept DEF SubmissionOf
  <2> QED
    BY <2>3, <2>4, <2>5, <2>6 DEF HandInv, WithinBudget
<1> QED
  BY <1>2, <1>3 DEF ClaimStep

\* After the preflight the hand is empty, or holds a SUBMITTING row.
LEMMA PreflightHand ==
  ASSUME IInv, TypeOK', NEW r \in Requests, Preflight(r)
  PROVE  HandInv'
<1>1. pc = "claimed" /\ cur = r /\ state[r] = "CLAIMED" /\ batch = {}
      /\ \A o \in provider : o \in Orders /\ o[1] \in Requests /\ o[1] # r
  BY DEF Preflight, PreflightReject, PreflightReview, PreflightRequeue, BeginSubmit,
         IInv, TypeOK, InHand, BatchOfCloses, ProviderIdFinal, Orders
<1>2. ASSUME NEW s \in { "REJECTED", "MANUAL_REVIEW_REQUIRED", "READY" },
             FinalizeOnly(r, s), Rest,
             UNCHANGED <<orderVars, expired, evidenceVars, operatorVars, batch,
                         crashes, venueVars>>
      PROVE  HandInv'
  <2>1. state' = [state EXCEPT ![r] = s]
    BY <1>2, FinalizeState
  <2>2. state'[r] = s /\ \A q \in Requests \ { r } : state'[q] = state[q]
    BY <2>1 DEF IInv, TypeOK
  <2>3. InHand' /\ AnswerInHand' /\ ProviderIdFinal' /\ BatchOfCloses'
    BY <1>1, <1>2, <2>2, HandLetsGo, RequestStatesHas
  <2>4. ASSUME NEW q \in Requests PROVE attempts'[q] <= SubmitBudget(q)'
    <3>1. requeues'[q] >= requeues[q]
      BY <1>2 DEF IInv, TypeOK
    <3> QED
      BY <1>1, <1>2, <2>2, <3>1, BudgetKept DEF SubmissionOf
  <2> QED
    BY <2>3, <2>4 DEF HandInv, WithinBudget
<1>3. CASE PreflightReject(r)
  BY <1>2, <1>3 DEF PreflightReject
<1>4. CASE PreflightReview(r)
  BY <1>2, <1>4 DEF PreflightReview
<1>5. CASE PreflightRequeue(r)
  BY <1>2, <1>5 DEF PreflightRequeue
<1>6. CASE BeginSubmit(r)
  <2>1. /\ state' = [state EXCEPT ![r] = "SUBMITTING"] /\ pc' = "submitting" /\ UNCHANGED cur
        /\ attempts' = [attempts EXCEPT ![r] = @ + 1]
        /\ UNCHANGED <<answer, got, batch, crashes, provider, requeues>>
    BY <1>6 DEF BeginSubmit
  <2>2. /\ state'[r] = "SUBMITTING" /\ attempts'[r] = attempts[r] + 1 /\ attempts[r] \in Nat
        /\ \A q \in Requests \ { r } : state'[q] = state[q] /\ attempts'[q] = attempts[q]
    BY <2>1, BoundsAssumption DEF IInv, TypeOK
  <2>3. InHand'
    BY <1>1, <2>1, <2>2 DEF InHand
  <2>4. AnswerInHand' /\ BatchOfCloses'
    BY <1>1, <2>1 DEF IInv, AnswerInHand, BatchOfCloses
  <2>5. ProviderIdFinal'
    BY <1>1, <2>1, <2>2 DEF IInv, ProviderIdFinal
  <2>6. ASSUME NEW q \in Requests PROVE attempts'[q] <= SubmitBudget(q)'
    <3>1. attempts[q] \in Nat /\ requeues[q] \in Nat /\ crashes \in Nat
          /\ attempts[q] <= SubmitBudget(q)
      BY BoundsAssumption DEF IInv, TypeOK, WithinBudget
    <3>2. CASE q = r
      BY <1>1, <2>1, <2>2, <3>1, <3>2 DEF SubmitBudget
    <3>3. CASE q # r
      BY <1>1, <2>1, <2>2, <3>1, <3>3 DEF SubmitBudget
    <3> QED
      BY <3>2, <3>3
  <2> QED
    BY <2>3, <2>4, <2>5, <2>6 DEF HandInv, WithinBudget
<1> QED
  BY <1>3, <1>4, <1>5, <1>6 DEF Preflight

\* An answer changes no row; the fills it brings are those of the row in hand.
LEMMA GatewayHand ==
  ASSUME IInv, TypeOK', NEW r \in Requests, Gateway(r)
  PROVE  HandInv'
<1>1. /\ pc = "submitting" /\ pc' = "answered" /\ cur = r
      /\ UNCHANGED <<requestVars, cur, batch, crashes>>
      /\ (\A f \in got' : f[1][1] = r) /\ (Mode = "PAPER" => answer' # "pending")
  <2>1. CASE PaperAnswer(r)
    BY <2>1 DEF PaperAnswer, Answered, FirstShares, CurrentOrder, IInv, AnswerInHand
  <2>2. CASE LiveNotPlaced(r) \/ LiveTraded(r) \/ LiveResting(r)
    BY <2>2 DEF LiveNotPlaced, LiveTraded, LiveResting, Answered, IInv, AnswerInHand
  <2> QED
    BY <2>1, <2>2 DEF Gateway
<1>2. InHand' /\ ProviderIdFinal'
  BY <1>1 DEF IInv, InHand, ProviderIdFinal
<1>3. AnswerInHand' /\ BatchOfCloses'
  BY <1>1 DEF IInv, AnswerInHand, BatchOfCloses
<1>4. WithinBudget'
  BY <1>1 DEF IInv, WithinBudget, SubmitBudget
<1> QED
  BY <1>2, <1>3, <1>4 DEF HandInv

\* The request r ends in s; another row may only be inserted.
EndsIn(r, s) ==
  /\ state'[r] = s
  /\ \A q \in Requests \ { r } :
       state'[q] = state[q] \/ (state[q] = "none" /\ state'[q] = "READY")

\* A fill ends its request and may insert one row that was absent.
LEMMA FilledState ==
  ASSUME IInv, NEW r \in Requests, NEW S, NEW s, NEW n, NEW tp \in BOOLEAN,
         FinalizeFilled(r, S, s, n, tp), state[r] # "none"
  PROVE  EndsIn(r, s)
<1> DEFINE t == TradeOf(r)
           c == NextClose(t)
<1>1. state' = IF tp THEN [state EXCEPT ![r] = s, ![c] = "READY"]
                     ELSE [state EXCEPT ![r] = s]
  BY DEF FinalizeFilled
<1>2. CASE tp
  <2>1. version[t] < MaxCloses
    BY <1>2 DEF FinalizeFilled, TakeProfitDue
  <2>2. c \in Requests /\ state[c] = "none"
    BY <2>1, RequestParts, BoundsAssumption
    DEF IInv, TypeOK, NextCloseAbsent, NextClose, Requests, IsOpen
  <2> HIDE DEF c
  <2> QED
    BY <1>1, <1>2, <2>2 DEF IInv, TypeOK, EndsIn
<1>3. CASE ~tp
  BY <1>1, <1>3 DEF IInv, TypeOK, EndsIn
<1> QED
  BY <1>2, <1>3

\* After an answer is applied the hand is empty.
LEMMA ApplyHand ==
  ASSUME IInv, TypeOK', NEW r \in Requests, Apply(r)
  PROVE  HandInv'
<1>1. /\ pc = "answered" /\ cur = r /\ state[r] = "SUBMITTING" /\ Rest
      /\ UNCHANGED <<batch, attempts, crashes, requeues>>
  BY DEF Apply, ApplyRejected, ApplyConfirmed, ApplyPending, FinishSubmitException,
         IInv, InHand
<1>2. PICK s \in { "REJECTED", "FILLED", "PARTIALLY_FILLED_FINAL", "RECONCILING",
                   "MANUAL_REVIEW_REQUIRED", "READY" } :
        /\ EndsIn(r, s)
        /\ \/ provider' = provider
           \/ provider' = provider \cup { CurrentOrder(r) } /\ s # "READY"
        /\ Mode = "PAPER" => s \in TERMINAL_REQUEST_STATES \/ attempts[r] <= 2
        /\ s = "READY" => Mode = "PAPER"
  <2>1. CASE ApplyRejected(r)
    <3>1. state' = [state EXCEPT ![r] = "REJECTED"]
      BY <2>1, FinalizeState DEF ApplyRejected
    <3> QED
      BY <2>1, <3>1 DEF ApplyRejected, IInv, TypeOK, EndsIn
  <2>2. CASE ApplyConfirmed(r)
    <3> DEFINE S == ConfirmedFills(r)
    <3>1. PICK tp \in BOOLEAN : FinalizeFilled(r, S, FillState(r, S), Cardinality(S), tp)
      BY <2>2 DEF ApplyConfirmed
    <3>2. FillState(r, S) \in { "FILLED", "PARTIALLY_FILLED_FINAL" }
      BY FetchedType DEF IInv
    <3>3. state[r] # "none"
      BY <1>1
    <3>4. EndsIn(r, FillState(r, S))
      BY <3>1, <3>3, FilledState, Zenon
    <3>5. provider' = provider \cup { CurrentOrder(r) }
      BY <2>2 DEF ApplyConfirmed
    <3> QED
      BY <3>2, <3>4, <3>5 DEF EndsIn
  <2>3. CASE ApplyPending(r)
    BY <2>3 DEF ApplyPending, IInv, TypeOK, AnswerInHand, EndsIn
  <2>4. CASE FinishSubmitException(r)
    <3>1. CASE PaperRetry(r) /\ RequeueFresh(r)
      <4>1. attempts[r] <= 2 /\ Mode = "PAPER"
        BY <3>1, BoundsAssumption DEF PaperRetry, IInv, TypeOK, EndsIn
      <4> QED
        BY <2>4, <3>1, <4>1 DEF FinishSubmitException, RequeueFresh, IInv, TypeOK, EndsIn
    <3>2. CASE FinalizeOnly(r, IF answer = "denied" \/ Mode = "PAPER"
                               THEN "REJECTED" ELSE "MANUAL_REVIEW_REQUIRED")
      <4> DEFINE s == IF answer = "denied" \/ Mode = "PAPER"
                      THEN "REJECTED" ELSE "MANUAL_REVIEW_REQUIRED"
      <4>1. state' = [state EXCEPT ![r] = s]
        BY <3>2, FinalizeState
      <4> QED
        BY <2>4, <4>1 DEF FinishSubmitException, IInv, TypeOK, EndsIn
    <3> QED
      BY <2>4, <3>1, <3>2 DEF FinishSubmitException
  <2> QED
    BY <2>1, <2>2, <2>3, <2>4 DEF Apply
<1>3. InHand' /\ AnswerInHand' /\ ProviderIdFinal' /\ BatchOfCloses'
  BY <1>1, <1>2, HandLetsGo, RequestStatesHas DEF EndsIn
<1>4. ASSUME NEW q \in Requests PROVE attempts'[q] <= SubmitBudget(q)'
  <2>1. requeues'[q] >= requeues[q]
    BY <1>1 DEF IInv, TypeOK
  <2>2. CASE q = r
    BY <1>1, <1>2, <2>1, <2>2, BudgetKept DEF EndsIn
  <2>3. CASE q # r
    BY <1>1, <1>2, <2>1, <2>3, BudgetKept DEF SubmissionOf, EndsIn
  <2> QED
    BY <2>2, <2>3
<1> QED
  BY <1>3, <1>4 DEF HandInv, WithinBudget

\* Reconciliation runs with an empty hand.
LEMMA ReconcileHand ==
  ASSUME IInv, TypeOK', NEW r \in Requests, Reconcile(r)
  PROVE  HandInv'
<1>1. /\ pc = "idle" /\ batch = {} /\ state[r] \in RECONCILABLE_REQUEST_STATES
      /\ UNCHANGED <<pc, cur, answer, got, batch, crashes, attempts, provider, requeues>>
  BY DEF Reconcile, ReconcileTimeout, ReconcileRequeue, ReconcileFills,
         ReconcileGtdExpired, Reconcilable, IInv, BatchOfCloses
<1>2. PICK s \in { "MANUAL_REVIEW_REQUIRED", "READY", "FILLED", "PARTIALLY_FILLED_FINAL",
                   "EXPIRED" } :
        /\ EndsIn(r, s)
        /\ s = "READY" => Mode = "PAPER" /\ \A o \in provider : o[1] # r
  <2>1. CASE ReconcileTimeout(r)
    <3>1. state' = [state EXCEPT ![r] = "MANUAL_REVIEW_REQUIRED"]
      BY <2>1, FinalizeState DEF ReconcileTimeout
    <3> QED
      BY <3>1 DEF IInv, TypeOK, EndsIn
  <2>2. CASE ReconcileRequeue(r)
    <3>1. <<r, attempts[r]>> \notin provider
      BY <2>2 DEF ReconcileRequeue, HasProviderId, CurrentOrder
    <3>2. \A o \in provider : o = <<o[1], o[2]>> /\ o[2] = attempts[o[1]]
      BY DEF IInv, TypeOK, ProviderIdFinal, Orders
    <3>3. \A o \in provider : o[1] # r
      BY <3>1, <3>2
    <3> QED
      BY <2>2, <3>3 DEF ReconcileRequeue, RequeueFresh, IInv, TypeOK, EndsIn
  <2>3. CASE ReconcileFills(r)
    <3> DEFINE S == Fetched(r)
    <3>1. PICK tp \in BOOLEAN : FinalizeFilled(r, S, FillState(r, S), Cardinality(S), tp)
      BY <2>3 DEF ReconcileFills
    <3>2. FillState(r, S) \in { "FILLED", "PARTIALLY_FILLED_FINAL" }
      BY FetchedType DEF IInv
    <3>3. state[r] # "none"
      BY <1>1
    <3>4. EndsIn(r, FillState(r, S))
      BY <3>1, <3>3, FilledState, Zenon
    <3> QED
      BY <3>2, <3>4 DEF EndsIn
  <2>4. CASE ReconcileGtdExpired(r)
    <3>1. state' = [state EXCEPT ![r] = "EXPIRED"]
      BY <2>4, FinalizeState DEF ReconcileGtdExpired
    <3> QED
      BY <3>1 DEF IInv, TypeOK, EndsIn
  <2> QED
    BY <2>1, <2>2, <2>3, <2>4 DEF Reconcile
<1>3. InHand' /\ AnswerInHand' /\ ProviderIdFinal' /\ BatchOfCloses'
  BY <1>1, <1>2, OtherRowMoves, RequestStatesHas DEF EndsIn
<1>4. ASSUME NEW q \in Requests PROVE attempts'[q] <= SubmitBudget(q)'
  <2>1. requeues'[q] >= requeues[q]
    BY <1>1 DEF IInv, TypeOK
  <2>2. CASE q = r
    BY <1>1, <1>2, <2>1, <2>2, BudgetKept DEF SubmissionOf, EndsIn
  <2>3. CASE q # r
    BY <1>1, <1>2, <2>1, <2>3, BudgetKept DEF SubmissionOf, EndsIn
  <2> QED
    BY <2>2, <2>3
<1> QED
  BY <1>3, <1>4 DEF HandInv, WithinBudget

\* A row auto-resolve writes leaves the batch.
LEMMA AutoResolveHand ==
  ASSUME IInv, TypeOK', NEW r \in Requests, AutoResolve(r)
  PROVE  HandInv'
<1>1. /\ pc = "resolving" /\ r \in batch /\ batch' = batch \ { r }
      /\ pc' = IF batch = { r } THEN "idle" ELSE "resolving"
      /\ UNCHANGED <<cur, answer, got, crashes, attempts, provider, requeues>>
  BY DEF AutoResolve, AutoResolveFilled, AutoResolveRejected, LeaveBatch
<1>2. PICK s \in { "FILLED", "REJECTED" } : state' = [state EXCEPT ![r] = s]
  <2>1. CASE AutoResolveFilled(r)
    BY <2>1 DEF AutoResolveFilled, FinalizeFilled
  <2>2. CASE AutoResolveRejected(r)
    BY <2>2, FinalizeState DEF AutoResolveRejected
  <2> QED
    BY <2>1, <2>2 DEF AutoResolve
<1>3. state'[r] = s /\ \A q \in Requests \ { r } : state'[q] = state[q]
  BY <1>2 DEF IInv, TypeOK
<1>4. InHand' /\ AnswerInHand'
  BY <1>1 DEF IInv, InHand, AnswerInHand
<1>5. ProviderIdFinal'
  BY <1>1, <1>3 DEF IInv, TypeOK, ProviderIdFinal, Orders
<1>6. BatchOfCloses'
  BY <1>1, <1>3 DEF IInv, TypeOK, BatchOfCloses
<1>7. ASSUME NEW q \in Requests PROVE attempts'[q] <= SubmitBudget(q)'
  <2>1. requeues'[q] >= requeues[q]
    BY <1>1 DEF IInv, TypeOK
  <2> QED
    BY <1>1, <1>3, <2>1, BudgetKept DEF SubmissionOf
<1> QED
  BY <1>4, <1>5, <1>6, <1>7 DEF HandInv, WithinBudget

\* The operator never touches the row in hand.
LEMMA OperatorHand ==
  ASSUME IInv, TypeOK', NEW r \in Requests, Operator(r)
  PROVE  HandInv'
<1>1. UNCHANGED <<pc, cur, answer, got, batch, crashes, attempts, provider>>
  BY DEF Operator, OperatorRequeue, MarkFailedNoFill, OperatorReconcile
<1>2. PICK s \in { "READY", "MANUAL_REVIEW_FAILED", "RECONCILING" } :
        /\ state' = [state EXCEPT ![r] = s]
        /\ state[r] \in RECONCILABLE_REQUEST_STATES \cup { "MANUAL_REVIEW_REQUIRED" }
        /\ s # "RECONCILING" =>
             state[r] = "MANUAL_REVIEW_REQUIRED" /\ \A o \in provider : o[1] # r
        /\ s = "RECONCILING" => \E o \in provider : o[1] = r
        /\ \A q \in Requests : requeues'[q] >= requeues[q]
        /\ s = "READY" => requeues'[r] = requeues[r] + 1
  <2>1. CASE OperatorRequeue(r)
    <3>1. \A o \in provider : o[1] # r
      BY <2>1 DEF OperatorRequeue, HasProviderId, CurrentOrder, IInv, TypeOK,
                  ProviderIdFinal, Orders
    <3>2. /\ \A q \in Requests : requeues'[q] >= requeues[q]
          /\ requeues'[r] = requeues[r] + 1
      BY <2>1, BoundsAssumption DEF OperatorRequeue, IInv, TypeOK
    <3> QED
      BY <2>1, <3>1, <3>2 DEF OperatorRequeue
  <2>2. CASE MarkFailedNoFill(r)
    <3>1. state' = [state EXCEPT ![r] = "MANUAL_REVIEW_FAILED"]
      BY <2>2, FinalizeState DEF MarkFailedNoFill
    <3>2. \A q \in Requests : requeues'[q] >= requeues[q]
      BY <2>2 DEF MarkFailedNoFill, IInv, TypeOK
    <3> QED
      BY <2>2, <3>1, <3>2 DEF MarkFailedNoFill, NoFillEligible
  <2>3. CASE OperatorReconcile(r)
    <3>1. \A q \in Requests : requeues'[q] >= requeues[q]
      BY <2>3 DEF OperatorReconcile, IInv, TypeOK
    <3> QED
      BY <2>3, <3>1 DEF OperatorReconcile
  <2> QED
    BY <2>1, <2>2, <2>3 DEF Operator
<1>3. state'[r] = s /\ \A q \in Requests \ { r } : state'[q] = state[q]
  BY <1>2 DEF IInv, TypeOK
<1>4. pc \in { "claimed", "submitting", "answered" } => cur # r /\ state'[cur] = state[cur]
  BY <1>2, <1>3 DEF IInv, InHand, ProviderIdFinal
<1>5. InHand' /\ AnswerInHand' /\ ProviderIdFinal' /\ BatchOfCloses'
  BY <1>1, <1>2, <1>3, <1>4, OtherRowMoves, RequestStatesHas
<1>6. ASSUME NEW q \in Requests PROVE attempts'[q] <= SubmitBudget(q)'
  <2>1. CASE q = r
    BY <1>1, <1>2, <1>3, <1>4, <2>1, BudgetKept DEF SubmissionOf
  <2>2. CASE q # r
    <3>1. Mode = "PAPER" \/ state'[q] = state[q]
      BY <1>3, <2>2
    <3> QED
      BY <1>1, <1>2, <1>3, <2>2, BudgetKept DEF SubmissionOf
  <2> QED
    BY <2>1, <2>2
<1> QED
  BY <1>5, <1>6 DEF HandInv, WithinBudget

\* The worker's memory, the attempts and the states stay.
LEMMA HandStays ==
  ASSUME IInv,
         UNCHANGED <<state, attempts, provider, requeues, pc, cur, answer, got, batch, crashes>>
  PROVE  HandInv'
BY DEF IInv, HandInv, InHand, AnswerInHand, ProviderIdFinal, BatchOfCloses, WithinBudget,
       SubmitBudget

\* The batch auto-resolve loads holds CLOSEs in review only.
LEMMA ScanHand ==
  ASSUME IInv, AutoResolveScan
  PROVE  HandInv'
<1>1. /\ pc = "idle" /\ pc' = "resolving" /\ UNCHANGED <<requestVars, cur, answer, got, crashes>>
      /\ \A r \in batch' : state[r] = "MANUAL_REVIEW_REQUIRED" /\ ~IsOpen(r)
  BY DEF AutoResolveScan
<1>2. InHand' /\ AnswerInHand' /\ ProviderIdFinal' /\ BatchOfCloses'
  BY <1>1 DEF IInv, InHand, AnswerInHand, ProviderIdFinal, BatchOfCloses
<1>3. WithinBudget'
  BY <1>1 DEF IInv, WithinBudget, SubmitBudget
<1> QED
  BY <1>2, <1>3 DEF HandInv

\* A crash loses the hand; the attempt it may leave behind is paid by the crash.
LEMMA CrashHand ==
  ASSUME IInv, Crash
  PROVE  HandInv'
<1>1. Rest /\ batch' = {} /\ crashes' = crashes + 1 /\ UNCHANGED requestVars
  BY DEF Crash
<1>2. InHand' /\ AnswerInHand' /\ ProviderIdFinal' /\ BatchOfCloses'
  BY <1>1 DEF Rest, IInv, InHand, AnswerInHand, ProviderIdFinal, BatchOfCloses
<1>3. ASSUME NEW q \in Requests PROVE attempts'[q] <= SubmitBudget(q)'
  <2>1. attempts[q] \in Nat /\ requeues[q] \in Nat /\ crashes \in Nat
        /\ attempts[q] <= SubmitBudget(q)
    BY BoundsAssumption DEF IInv, TypeOK, WithinBudget
  <2> QED
    BY <1>1, <2>1 DEF Rest, SubmitBudget
<1> QED
  BY <1>2, <1>3 DEF HandInv, WithinBudget

\* Every step keeps what the worker relies on between two transactions.
LEMMA HandInvNext == IInv /\ TypeOK' /\ [Next]_vars => HandInv'
<1> SUFFICES ASSUME IInv, TypeOK', [Next]_vars PROVE HandInv'
  OBVIOUS
<1>1. ASSUME NEW t \in Trades, EnqueueOpen(t) \/ EnqueueClose(t) \/ Caller(t)
      PROVE  HandInv'
  <2>1. CASE CallerLoads(t) \/ CallerDrops(t)
    BY <2>1, HandStays DEF CallerLoads, CallerDrops
  <2> QED
    BY <1>1, <2>1, ClosesQueued, OutboxHand DEF Caller
<1>2. ASSUME NEW t \in Trades, Settle(t) PROVE HandInv'
  BY <1>2, HandStays DEF Settle, SettlePaper, SettleLive, OperatorSettle, MarkResolved
<1>3. ASSUME NEW r \in Requests,
             \/ ClaimStep(r) \/ Preflight(r) \/ Gateway(r) \/ Apply(r)
             \/ Reconcile(r) \/ AutoResolve(r) \/ Operator(r)
      PROVE  HandInv'
  BY <1>3, ClaimHand, PreflightHand, GatewayHand, ApplyHand, ReconcileHand,
     AutoResolveHand, OperatorHand
<1>4. ASSUME NEW r \in Requests, Clock(r) PROVE HandInv'
  BY <1>4, HandStays DEF Clock, Expire, Age
<1>5. ASSUME NEW m \in Markets, MarketEnds(m) \/ MarketResolves(m) PROVE HandInv'
  BY <1>5, HandStays DEF MarketEnds, MarketResolves
<1>6. ASSUME NEW o \in Orders, VenueTrade(o) \/ VenueDrop(o) PROVE HandInv'
  BY <1>6, HandStays DEF VenueTrade, VenueDrop
<1>7. ASSUME NEW f \in FillIds, VenueList(f) PROVE HandInv'
  BY <1>7, HandStays DEF VenueList
<1>8. CASE UNCHANGED vars
  BY <1>8, HandStays DEF vars
<1> QED
  BY <1>1, <1>2, <1>3, <1>4, <1>5, <1>6, <1>7, <1>8, ScanHand, CrashHand DEF Next

-----------------------------------------------------------------------------
(* The theorems                                                            *)

\* The inductive invariant holds of the empty tables.
LEMMA IInvInit == Init => IInv
<1> SUFFICES ASSUME Init PROVE IInv
  OBVIOUS
<1>1. TypeOK
  BY TypeInvInit DEF TypeInv
<1>2. InHand /\ AnswerInHand /\ ProviderIdFinal /\ BatchOfCloses
  BY DEF Init, InHand, AnswerInHand, ProviderIdFinal, BatchOfCloses
<1>3. NextCloseAbsent /\ ReservationExact
  BY RequestShapes DEF Init, NextCloseAbsent, ReservationExact
<1>4. WithinBudget
  BY DEF Init, WithinBudget, SubmitBudget
<1>5. OneActivePerKey /\ FillsIffSuccess
  BY RequestShapes DEF Init, OneActivePerKey, InState, FillsIffSuccess
<1> QED
  BY <1>1, <1>2, <1>3, <1>4, <1>5 DEF IInv

\* Every step keeps the inductive invariant.
LEMMA IInvNext == IInv /\ [Next]_vars => IInv'
<1> SUFFICES ASSUME IInv, [Next]_vars PROVE IInv'
  OBVIOUS
<1>1. TypeInv
  BY DEF IInv, InHand, TypeInv, AttemptInHand
<1>2. TypeOK'
  BY <1>1, TypeInvNext DEF TypeInv
<1> QED
  BY <1>2, HandInvNext, TableInvNext DEF HandInv, TableInv, IInv

\* The inductive invariant holds in every reachable state.
THEOREM Inductive == Spec => []IInv
BY IInvInit, IInvNext, PTL DEF Spec

\* Exposure is reserved exactly while an OPEN is active, for any number of
\* trades, crashes, requeues and lost answers.
THEOREM ReservationIsExact == Spec => []ReservationExact
<1>1. IInv => ReservationExact
  BY DEF IInv
<1> QED
  BY <1>1, Inductive, PTL

\* Fills are stored for the successful requests and for no other.
THEOREM FillsMeanSuccess == Spec => []FillsIffSuccess
<1>1. IInv => FillsIffSuccess
  BY DEF IInv
<1> QED
  BY <1>1, Inductive, PTL

\* A LIVE order is sent once, plus once per requeue of the operator; a PAPER one
\* three times, plus once per crash.
THEOREM SubmissionsAreBounded == Spec => []SubmitBound
<1>1. IInv => SubmitBound
  <2> SUFFICES ASSUME IInv, NEW r \in Requests
               PROVE  attempts[r] <= IF Mode = "LIVE" THEN requeues[r] + 1 ELSE 3 + crashes
    BY DEF SubmitBound
  <2>1. attempts[r] \in Nat /\ requeues[r] \in Nat /\ crashes \in Nat
        /\ attempts[r] <= SubmitBudget(r)
    BY BoundsAssumption DEF IInv, TypeOK, WithinBudget
  <2> QED
    BY <2>1 DEF SubmitBudget
<1> QED
  BY <1>1, Inductive, PTL

\* No step undoes a success, revives a failed request or turns its failure into
\* a success: not the operator's reconcile, nor auto-resolve on a stale row.
THEOREM OutcomesAreFinal == Spec => OutcomeIsFinal
<1> DEFINE Kept == \A r \in Requests :
             /\ state[r] \in SUCCESS_TERMINAL_STATES => state'[r] = state[r]
             /\ state[r] \in FAILURE_TERMINAL_STATES => state'[r] \in FAILURE_TERMINAL_STATES
<1>1. IInv /\ [Next]_vars => Kept
  <2> SUFFICES ASSUME IInv, [Next]_vars PROVE Kept
    OBVIOUS
  <2>1. TableStep
    BY NextTable
  <2>2. CASE TableSame
    BY <2>2 DEF TableSame
  <2>3. ASSUME NEW t \in Trades, EnqueueOpen(t) PROVE Kept
    BY <2>3, RequestShapes DEF EnqueueOpen, IInv, TypeOK
  <2>4. ASSUME NEW t \in Trades, QueuesClose(t) PROVE Kept
    <3>1. NextClose(t) \in Requests /\ state[NextClose(t)] = "none"
      BY <2>4, NewClose
    <3> QED
      BY <2>4, <3>1 DEF QueuesClose, IInv, TypeOK
  <2>5. ASSUME NEW r \in Requests, NEW s \in RequestStates, TableMove(r, s) PROVE Kept
    BY <2>5 DEF TableMove, IInv, TypeOK, RequestStates
  <2>6. ASSUME NEW r \in Requests, NEW S \in SUBSET FillIds, NEW s \in RequestStates,
               NEW n \in Nat, NEW tp \in BOOLEAN, TableFill(r, S, s, n, tp)
        PROVE  Kept
    <3>1. state[r] # "none" /\ FinalizeFilled(r, S, s, n, tp)
      BY <2>6 DEF TableFill
    <3>2. EndsIn(r, s)
      BY <3>1, FilledState
    <3> QED
      BY <2>6, <3>2 DEF TableFill, EndsIn
  <2> QED
    BY <2>1, <2>2, <2>3, <2>4, <2>5, <2>6 DEF TableStep
<1> QED
  BY <1>1, Inductive, PTL DEF Spec, OutcomeIsFinal

-----------------------------------------------------------------------------
(***************************************************************************)
(* 3. Positions                                                            *)
(***************************************************************************)

(* Positions: what the venue may have traded                               *)

\* The counters of a position are numbers.
LEMMA PositionTypes ==
  ASSUME IInv, NEW t \in Trades
  PROVE  /\ entry[t] \in Nat /\ remaining[t] \in Nat /\ pos[t] \in PositionStates
         /\ Cardinality(OpenFills(fills, t)) \in Nat /\ IsFiniteSet(OpenFills(fills, t))
         /\ Cardinality(CloseFills(fills, t)) \in Nat /\ IsFiniteSet(CloseFills(fills, t))
<1>1. OpenFills(fills, t) \subseteq FillIds /\ CloseFills(fills, t) \subseteq FillIds
  BY DEF IInv, TypeOK, OpenFills, CloseFills
<1> QED
  BY <1>1, CardinalityOfFills DEF IInv, TypeOK

\* Shares of one order, numbered up to n, are at most n.
LEMMA SharesCounted ==
  ASSUME NEW S, S \subseteq FillIds, NEW o, NEW n \in Nat, \A f \in S : f[1] = o /\ f[2] <= n
  PROVE  Cardinality(S) <= n
<1>1. S \subseteq {o} \X (1 .. n)
  <2> SUFFICES ASSUME NEW f \in S PROVE f \in {o} \X (1 .. n)
    OBVIOUS
  <2>1. f = <<f[1], f[2]>> /\ f[2] \in 1 .. Size
    BY DEF FillIds
  <2> QED
    BY <2>1, SizeAssumption
<1>2. IsFiniteSet({o}) /\ Cardinality({o}) = 1
  BY FS_Singleton
<1>3. IsFiniteSet(1 .. n) /\ Cardinality(1 .. n) = n
  BY FS_Interval
<1>4. /\ IsFiniteSet({o} \X (1 .. n))
      /\ Cardinality({o} \X (1 .. n)) = Cardinality({o}) * Cardinality(1 .. n)
  BY <1>2, <1>3, FS_Product, Zenon
<1>5. Cardinality({o} \X (1 .. n)) = n
  BY <1>2, <1>3, <1>4
<1> QED
  BY <1>1, <1>4, <1>5, FS_Subset

\* The fills fetched for a request, or answered with it, are no more than it
\* asked for.
LEMMA FillsFit ==
  ASSUME IInv, PositionInv, NEW r \in Requests
  PROVE  /\ Cardinality(Fetched(r)) <= requested[r]
         /\ cur = r => Cardinality(ConfirmedFills(r)) <= requested[r]
<1>1. requested[r] \in Nat /\ Fetched(r) \subseteq FillIds /\ got \subseteq FillIds
  BY FetchedType DEF IInv, TypeOK
<1>2. \A f \in Fetched(r) : f[1] = CurrentOrder(r) /\ f[2] <= requested[r]
  BY DEF PositionInv, WithinRequest, Fetched, SharesOf, CurrentOrder
<1>3. cur = r => \A f \in got : f[1] = CurrentOrder(r) /\ f[2] <= requested[r]
  BY DEF PositionInv, WithinRequest, CurrentOrder
<1>4. Cardinality(Fetched(r)) <= requested[r]
  BY <1>1, <1>2, SharesCounted
<1>5. cur = r => Cardinality(got) <= requested[r]
  BY <1>1, <1>3, SharesCounted
<1> QED
  BY <1>4, <1>5 DEF ConfirmedFills

\* A stored row stays, and what it asks for never changes.
RowsKept ==
  \A q \in Requests : state[q] # "none" => state'[q] # "none" /\ requested'[q] = requested[q]

\* Away from the gateway and the venue nothing new is traded.
LEMMA VenueQuiet ==
  ASSUME IInv, PositionInv, RowsKept, listed' \subseteq traded', traded' \subseteq traded,
         resting' \subseteq resting,
         got' = {} \/ UNCHANGED <<got, cur, attempts>>
  PROVE  WithinRequest'
<1>1. \A f \in traded \cup got : f[1][1] \in Requests
  BY DEF IInv, TypeOK, FillIds, Orders
<1>2. \A o \in resting : o[1] \in Requests
  BY DEF IInv, TypeOK, Orders
<1>3. \A f \in traded' \cup got' : f \in traded \cup got
  OBVIOUS
<1>4. \A f \in traded' \cup got' : state'[f[1][1]] # "none" /\ f[2] <= requested'[f[1][1]]
  BY <1>1, <1>3 DEF RowsKept, PositionInv, WithinRequest
<1>5. \A f \in got' : f[1] = CurrentOrder(cur)'
  BY DEF PositionInv, WithinRequest, CurrentOrder
<1>6. \A o \in resting' : state'[o[1]] # "none"
  BY <1>2 DEF RowsKept, PositionInv, WithinRequest
<1> QED
  BY <1>4, <1>5, <1>6 DEF WithinRequest

\* The shares an answer reports are within the request in hand.
LEMMA FirstSharesFit ==
  ASSUME IInv, NEW r \in Requests, cur = r, pc \in { "submitting", "answered" },
         NEW n \in 1 .. Size, n <= requested[r],
         NEW f \in FirstShares(CurrentOrder(r), n)
  PROVE  /\ f[1] = CurrentOrder(r) /\ f[1][1] = r
         /\ state[r] # "none" /\ f[2] <= requested[r]
<1>1. f[1] = CurrentOrder(r) /\ f[2] \in 1 .. n /\ f[1][1] = r
  BY DEF FirstShares, CurrentOrder
<1>2. requested[r] \in Nat /\ n \in Nat /\ f[2] \in Nat /\ f[2] <= n
  BY <1>1, SizeAssumption DEF IInv, TypeOK
<1>3. state[r] # "none"
  BY DEF IInv, InHand
<1> QED
  BY <1>1, <1>2, <1>3

\* Every answer of the gateway is within the request.
LEMMA GatewayWithin ==
  ASSUME IInv, PositionInv, NEW r \in Requests, Gateway(r)
  PROVE  WithinRequest'
<1>1. /\ pc = "submitting" /\ cur = r /\ UNCHANGED <<state, requested, cur, attempts>>
  BY DEF Gateway, PaperAnswer, LiveNotPlaced, LiveTraded, LiveResting, Answered
<1>2. RowsKept /\ listed \subseteq traded /\ got = {} /\ state[r] # "none"
  BY <1>1 DEF RowsKept, PositionInv, WithinRequest, IInv, AnswerInHand, InHand
<1>3. CASE PaperAnswer(r)
  <2>1. UNCHANGED <<traded, listed, resting>>
    BY <1>3 DEF PaperAnswer
  <2>2. CASE got' = got
    BY <1>1, <1>2, <2>1, <2>2, VenueQuiet
  <2>3. ASSUME NEW n \in 1 .. Size, n <= requested[r], got' = FirstShares(CurrentOrder(r), n)
        PROVE  WithinRequest'
    <3>1. \A f \in got' : /\ f[1] = CurrentOrder(r) /\ f[1][1] = r
                          /\ state[r] # "none" /\ f[2] <= requested[r]
      BY <1>1, <2>3, FirstSharesFit
    <3>2. CurrentOrder(cur)' = CurrentOrder(r)
      BY <1>1 DEF CurrentOrder
    <3> QED
      BY <1>1, <2>1, <3>1, <3>2 DEF PositionInv, WithinRequest
  <2> QED
    BY <1>3, <2>2, <2>3 DEF PaperAnswer
<1>4. CASE LiveNotPlaced(r)
  <2>1. UNCHANGED <<got, traded, listed, resting>>
    BY <1>4 DEF LiveNotPlaced
  <2> QED
    BY <1>1, <1>2, <2>1, VenueQuiet
<1>5. CASE LiveTraded(r)
  <2>1. PICK n \in 1 .. Size :
          LET S == FirstShares(CurrentOrder(r), n) IN
          /\ n <= requested[r] /\ traded' = traded \cup S
          /\ listed' \in { listed \cup S, listed }
    BY <1>5 DEF LiveTraded
  <2>2. UNCHANGED <<got, resting>>
    BY <1>5 DEF LiveTraded
  <2>3. \A f \in FirstShares(CurrentOrder(r), n) :
           f[1][1] = r /\ state[r] # "none" /\ f[2] <= requested[r]
    BY <1>1, <2>1, FirstSharesFit
  <2>4. listed' \subseteq traded'
    BY <1>2, <2>1
  <2>5. \A f \in traded' : state'[f[1][1]] # "none" /\ f[2] <= requested'[f[1][1]]
    BY <1>1, <2>1, <2>3 DEF PositionInv, WithinRequest
  <2> QED
    BY <1>1, <1>2, <2>2, <2>4, <2>5 DEF PositionInv, WithinRequest
<1>6. CASE LiveResting(r)
  <2>1. UNCHANGED <<got, traded, listed>> /\ resting' = resting \cup { CurrentOrder(r) }
    BY <1>6 DEF LiveResting
  <2>2. CurrentOrder(r)[1] = r
    BY DEF CurrentOrder
  <2> QED
    BY <1>1, <1>2, <2>1, <2>2 DEF PositionInv, WithinRequest
<1> QED
  BY <1>3, <1>4, <1>5, <1>6 DEF Gateway

\* So is what a resting order trades later.
LEMMA VenueWithin ==
  ASSUME IInv, PositionInv,
         \/ \E o \in Orders : VenueTrade(o) \/ VenueDrop(o)
         \/ \E f \in FillIds : VenueList(f)
  PROVE  WithinRequest'
<1>1. ASSUME NEW o \in Orders, VenueTrade(o) PROVE WithinRequest'
  <2> DEFINE n == Cardinality(SharesOf(traded, o)) + 1
  <2>1. /\ o \in resting /\ n <= requested[o[1]] /\ traded' = traded \cup { <<o, n>> }
        /\ UNCHANGED <<state, requested, attempts, cur, got, resting, listed>>
    BY <1>1 DEF VenueTrade
  <2> HIDE DEF n
  <2>2. \A f \in traded' : state[f[1][1]] # "none" /\ f[2] <= requested[f[1][1]]
    BY <2>1 DEF PositionInv, WithinRequest
  <2> QED
    BY <2>1, <2>2 DEF PositionInv, WithinRequest, CurrentOrder
<1>2. ASSUME NEW o \in Orders, VenueDrop(o) PROVE WithinRequest'
  BY <1>2, VenueQuiet DEF VenueDrop, RowsKept, PositionInv, WithinRequest
<1>3. ASSUME NEW f \in FillIds, VenueList(f) PROVE WithinRequest'
  BY <1>3 DEF VenueList, PositionInv, WithinRequest, CurrentOrder
<1> QED
  BY <1>1, <1>2, <1>3

-----------------------------------------------------------------------------
(* Positions: rebuild_trade_accounting                                     *)

\* The parts of PositionInv that the gateway and the venue cannot disturb.
BookInv ==
  /\ UnfilledUntilSuccess /\ ClosesFollowEntry /\ RowFollowsEntry /\ CloseFits /\ FinalIsFlat
  /\ PositionMatchesFills /\ ExitRequestedHasClose

\* Until the market is settled, an entry that succeeded has shares.
LEMMA EntryHasShares ==
  ASSUME IInv, PositionInv, NEW t \in Trades, ~Resolved(t),
         state[OpenOf(t)] \in SUCCESS_TERMINAL_STATES
  PROVE  entry[t] > 0
<1>1. OpenFills(fills, t) # {}
  BY RequestShapes DEF OpenFills, IInv, FillsIffSuccess
<1>2. Cardinality(OpenFills(fills, t)) # 0
  BY <1>1, PositionTypes, FS_EmptySet
<1> QED
  BY <1>2, PositionTypes DEF PositionInv, PositionMatchesFills

\* Until the market is settled, stored fills of the OPEN mean it succeeded,
\* rebuild_trade_accounting counts what the position has as its entry, and
\* nothing was sold that had no entry.
LEMMA BoughtIsEntry ==
  ASSUME IInv, PositionInv, NEW t \in Trades, ~Resolved(t)
  PROVE  /\ (IF OpenFills(fills, t) = {} THEN entry[t]
             ELSE Cardinality(OpenFills(fills, t))) = entry[t]
         /\ entry[t] > 0 => state[OpenOf(t)] \in SUCCESS_TERMINAL_STATES
         /\ Cardinality(CloseFills(fills, t)) > 0 => entry[t] > 0
<1>1. entry[t] = Cardinality(OpenFills(fills, t))
  BY DEF PositionInv, PositionMatchesFills
<1>2. Cardinality({}) = 0
  BY FS_EmptySet
<1>3. entry[t] > 0 => OpenFills(fills, t) # {}
  BY <1>1, <1>2
<1>4. OpenFills(fills, t) # {} => state[OpenOf(t)] \in SUCCESS_TERMINAL_STATES
  BY RequestShapes DEF OpenFills, IInv, FillsIffSuccess
<1>5. ASSUME Cardinality(CloseFills(fills, t)) > 0 PROVE entry[t] > 0
  <2>1. CloseFills(fills, t) # {}
    <3>1. Cardinality(CloseFills(fills, t)) # 0
      BY <1>5, PositionTypes
    <3> QED
      BY <1>2, <3>1
  <2>2. PICK f \in fills : f[1][1][1] = t /\ f[1][1][2] > 0
    BY <2>1 DEF CloseFills
  <2>3. PICK q \in Requests : q = f[1][1] /\ TradeOf(q) = t /\ ~IsOpen(q)
    BY <2>2 DEF IInv, TypeOK, FillIds, Orders, TradeOf, IsOpen
  <2>4. state[q] \in SUCCESS_TERMINAL_STATES
    BY <2>2, <2>3 DEF IInv, FillsIffSuccess
  <2>5. state[OpenOf(t)] \in SUCCESS_TERMINAL_STATES
    BY <2>3, <2>4 DEF PositionInv, ClosesFollowEntry
  <2> QED
    BY <2>5, EntryHasShares
<1> QED
  BY <1>1, <1>3, <1>4, <1>5

\* Rebuilding from the same fills changes no share, and never marks a position
\* EXIT_REQUESTED.
LEMMA RebuiltSame ==
  ASSUME IInv, PositionInv, NEW t \in Trades, NEW p \in PositionStates, NEW b \in BOOLEAN,
         p \in FINAL_POSITION_STATES => p = pos[t]
  PROVE  LET R == Rebuilt(t, p, fills, b) IN
         /\ R.pos # "EXIT_REQUESTED"
         /\ ~Resolved(t) =>
              /\ R.entry = entry[t] /\ R.remaining = remaining[t]
              /\ R.pos = "MANUAL_REVIEW_REQUIRED" => Cardinality(CloseFills(fills, t)) > entry[t]
              /\ R.pos \in FINAL_POSITION_STATES =>
                   /\ R.pos = "CLOSED" /\ remaining[t] = 0
                   /\ state[OpenOf(t)] \in SUCCESS_TERMINAL_STATES
<1> DEFINE R == Rebuilt(t, p, fills, b)
           bought == IF OpenFills(fills, t) = {} THEN entry[t]
                     ELSE Cardinality(OpenFills(fills, t))
           sold == Cardinality(CloseFills(fills, t))
<1>1. entry[t] \in Nat /\ remaining[t] \in Nat /\ bought \in Nat /\ sold \in Nat
  BY PositionTypes
<1>2. CASE p \in FINAL_POSITION_STATES
  <2>1. R = [pos |-> p, entry |-> entry[t], remaining |-> remaining[t]]
    BY <1>2 DEF Rebuilt
  <2>2. p # "EXIT_REQUESTED" /\ p # "MANUAL_REVIEW_REQUIRED"
    BY <1>2 DEF FINAL_POSITION_STATES
  <2> QED
    BY <1>2, <2>1, <2>2 DEF PositionInv, FinalIsFlat
<1>3. CASE p \notin FINAL_POSITION_STATES
  <2>1. \/ /\ bought = 0
           /\ R = [pos |-> IF b \/ p = "ENTRY_FAILED" THEN "ENTRY_FAILED" ELSE "OPENING",
                   entry |-> 0, remaining |-> 0]
        \/ /\ bought > 0 /\ sold > bought
           /\ R = [pos |-> "MANUAL_REVIEW_REQUIRED", entry |-> entry[t], remaining |-> remaining[t]]
        \/ /\ bought > 0 /\ sold <= bought
           /\ R = [pos |-> IF sold = bought THEN "CLOSED"
                           ELSE IF sold > 0 THEN "PARTIALLY_CLOSED" ELSE "OPEN",
                   entry |-> bought, remaining |-> bought - sold]
    BY <1>1, <1>3 DEF Rebuilt
  <2>2. ~Resolved(t) => /\ bought = entry[t] /\ (sold > 0 => entry[t] > 0)
                        /\ entry[t] > 0 => state[OpenOf(t)] \in SUCCESS_TERMINAL_STATES
                        /\ sold <= entry[t] => remaining[t] = entry[t] - sold
    BY BoughtIsEntry DEF PositionInv, PositionMatchesFills
  <2> HIDE DEF R, bought, sold
  <2>3. R.pos # "EXIT_REQUESTED"
    BY <2>1
  <2>4. ASSUME ~Resolved(t)
        PROVE  /\ R.entry = entry[t] /\ R.remaining = remaining[t]
               /\ R.pos = "MANUAL_REVIEW_REQUIRED" => sold > entry[t]
               /\ R.pos \in FINAL_POSITION_STATES =>
                    /\ R.pos = "CLOSED" /\ remaining[t] = 0
                    /\ state[OpenOf(t)] \in SUCCESS_TERMINAL_STATES
    BY <1>1, <2>1, <2>2, <2>4 DEF FINAL_POSITION_STATES
  <2> QED
    BY <2>3, <2>4 DEF R, sold
<1> QED
  BY <1>2, <1>3

\* finalize_request moves a position only when its request failed.
LEMMA PosAfterMove ==
  ASSUME IInv, PositionInv, NEW r \in Requests, NEW s \in RequestStates, TableMove(r, s)
  PROVE  /\ PosAfterFinalize(r, s) \in PositionStates
         /\ PosAfterFinalize(r, s) \in FINAL_POSITION_STATES \cup { "EXIT_REQUESTED", "MANUAL_REVIEW_REQUIRED" }
              => PosAfterFinalize(r, s) = pos[TradeOf(r)]
         /\ PosAfterFinalize(r, s) = "EXIT_REQUESTED" => s \in ACTIVE_REQUEST_STATES
         /\ s \in ACTIVE_REQUEST_STATES => PosAfterFinalize(r, s) = pos[TradeOf(r)]
<1>1. filled[r] = 0
  BY DEF TableMove, PositionInv, UnfilledUntilSuccess
<1>2. s \in FAILURE_TERMINAL_STATES \/ s \in ACTIVE_REQUEST_STATES
  BY DEF TableMove, RequestStates
<1>3. PosAfterFinalize(r, s) \in PositionStates
  BY PosAfterFinalizeType DEF IInv
<1>4. CASE s \in FAILURE_TERMINAL_STATES
  <2>1. PosAfterFinalize(r, s) \in { "ENTRY_FAILED", "PARTIALLY_CLOSED", "OPEN" }
    BY <1>1, <1>4 DEF PosAfterFinalize
  <2>2. s \notin ACTIVE_REQUEST_STATES
    BY <1>4
  <2> QED
    BY <1>3, <2>1, <2>2 DEF FINAL_POSITION_STATES
<1>5. CASE s \in ACTIVE_REQUEST_STATES
  BY <1>3, <1>5 DEF PosAfterFinalize
<1> QED
  BY <1>2, <1>4, <1>5

\* What a move of request r does to its position: finalize_request, and a
\* rebuild from the same fills.
PositionMove(r, s) ==
  /\ UNCHANGED <<requested, filled, callerVars, market>>
  /\ \/ /\ pos' = [pos EXCEPT ![TradeOf(r)] = PosAfterFinalize(r, s)]
        /\ UNCHANGED <<entry, remaining>>
     \/ \E b \in BOOLEAN :
          SetPosition(TradeOf(r), Rebuilt(TradeOf(r), PosAfterFinalize(r, s), fills, b))

\* Its effect, as far as the invariants can tell.
LEMMA MovedPosition ==
  ASSUME IInv, PositionInv, NEW r \in Requests, NEW s \in RequestStates, TableMove(r, s),
         PositionMove(r, s)
  PROVE  LET t == TradeOf(r) IN
         /\ t \in Trades
         /\ \A u \in Trades \ { t } :
              pos'[u] = pos[u] /\ entry'[u] = entry[u] /\ remaining'[u] = remaining[u]
         /\ pos'[t] = "EXIT_REQUESTED" => pos[t] = "EXIT_REQUESTED" /\ s \in ACTIVE_REQUEST_STATES
         /\ ~Resolved(t) =>
              /\ entry'[t] = entry[t] /\ remaining'[t] = remaining[t]
              /\ pos'[t] = "MANUAL_REVIEW_REQUIRED" => Cardinality(CloseFills(fills, t)) > entry[t]
              /\ pos'[t] \in FINAL_POSITION_STATES =>
                   /\ pos'[t] = "CLOSED" /\ remaining[t] = 0
                   /\ state[OpenOf(t)] \in SUCCESS_TERMINAL_STATES
<1> DEFINE t == TradeOf(r)
           p == PosAfterFinalize(r, s)
<1>1. t \in Trades
  BY RequestShapes
<1>2. /\ pos \in [Trades -> PositionStates] /\ entry \in [Trades -> Nat]
      /\ remaining \in [Trades -> Nat]
  BY DEF IInv, TypeOK
<1>3. /\ p \in PositionStates
      /\ p \in FINAL_POSITION_STATES \cup { "EXIT_REQUESTED", "MANUAL_REVIEW_REQUIRED" } => p = pos[t]
      /\ p = "EXIT_REQUESTED" => s \in ACTIVE_REQUEST_STATES
  BY PosAfterMove
<1>4. ~Resolved(t) => /\ pos[t] = "MANUAL_REVIEW_REQUIRED" => Cardinality(CloseFills(fills, t)) > entry[t]
                      /\ pos[t] \in FINAL_POSITION_STATES =>
                           /\ pos[t] = "CLOSED" /\ remaining[t] = 0
                           /\ state[OpenOf(t)] \in SUCCESS_TERMINAL_STATES
  BY <1>1 DEF PositionInv, PositionMatchesFills, FinalIsFlat
<1> HIDE DEF t, p
<1>5. CASE pos' = [pos EXCEPT ![t] = p] /\ UNCHANGED <<entry, remaining>>
  BY <1>1, <1>2, <1>3, <1>4, <1>5 DEF t
<1>6. ASSUME NEW b \in BOOLEAN, SetPosition(t, Rebuilt(t, p, fills, b))
      PROVE  /\ \A u \in Trades \ { t } :
                  pos'[u] = pos[u] /\ entry'[u] = entry[u] /\ remaining'[u] = remaining[u]
             /\ pos'[t] # "EXIT_REQUESTED"
             /\ ~Resolved(t) =>
                  /\ entry'[t] = entry[t] /\ remaining'[t] = remaining[t]
                  /\ pos'[t] = "MANUAL_REVIEW_REQUIRED" => Cardinality(CloseFills(fills, t)) > entry[t]
                  /\ pos'[t] \in FINAL_POSITION_STATES =>
                       /\ pos'[t] = "CLOSED" /\ remaining[t] = 0
                       /\ state[OpenOf(t)] \in SUCCESS_TERMINAL_STATES
  <2> DEFINE R == Rebuilt(t, p, fills, b)
  <2>1. /\ R.pos # "EXIT_REQUESTED"
        /\ ~Resolved(t) =>
              /\ R.entry = entry[t] /\ R.remaining = remaining[t]
              /\ R.pos = "MANUAL_REVIEW_REQUIRED" => Cardinality(CloseFills(fills, t)) > entry[t]
              /\ R.pos \in FINAL_POSITION_STATES =>
                   /\ R.pos = "CLOSED" /\ remaining[t] = 0
                   /\ state[OpenOf(t)] \in SUCCESS_TERMINAL_STATES
    BY <1>1, <1>3, RebuiltSame
  <2>2. SetPosition(t, R)
    BY <1>6
  <2> HIDE DEF R
  <2>3. /\ pos'[t] = R.pos /\ entry'[t] = R.entry /\ remaining'[t] = R.remaining
        /\ \A u \in Trades \ { t } :
             pos'[u] = pos[u] /\ entry'[u] = entry[u] /\ remaining'[u] = remaining[u]
    BY <1>1, <1>2, <2>2 DEF SetPosition
  <2> QED
    BY <2>1, <2>3
<1> QED
  BY <1>1, <1>5, <1>6 DEF PositionMove, t, p

\* A move of a row keeps the invariants on positions.
LEMMA MoveBook ==
  ASSUME IInv, PositionInv, NEW r \in Requests, NEW s \in RequestStates, TableMove(r, s),
         PositionMove(r, s)
  PROVE  BookInv' /\ RowsKept
<1> DEFINE t == TradeOf(r)
<1>1. /\ t \in Trades
      /\ \A u \in Trades \ { t } :
           pos'[u] = pos[u] /\ entry'[u] = entry[u] /\ remaining'[u] = remaining[u]
      /\ pos'[t] = "EXIT_REQUESTED" => pos[t] = "EXIT_REQUESTED" /\ s \in ACTIVE_REQUEST_STATES
      /\ ~Resolved(t) =>
           /\ entry'[t] = entry[t] /\ remaining'[t] = remaining[t]
           /\ pos'[t] = "MANUAL_REVIEW_REQUIRED" => Cardinality(CloseFills(fills, t)) > entry[t]
           /\ pos'[t] \in FINAL_POSITION_STATES =>
                /\ pos'[t] = "CLOSED" /\ remaining[t] = 0
                /\ state[OpenOf(t)] \in SUCCESS_TERMINAL_STATES
  BY MovedPosition
<1>2. /\ state'[r] = s /\ \A q \in Requests \ { r } : state'[q] = state[q]
      /\ state[r] \notin { "none" } \cup SUCCESS_TERMINAL_STATES
      /\ s \notin { "none" } \cup SUCCESS_TERMINAL_STATES
      /\ UNCHANGED <<fills, requested, filled, row, stale, market>>
  BY DEF TableMove, PositionMove, IInv, TypeOK
<1>3. s \in ACTIVE_REQUEST_STATES => state[r] \in ACTIVE_REQUEST_STATES
  BY DEF TableMove
<1>4. \A u \in Trades : Resolved(u)' <=> Resolved(u)
  BY <1>2 DEF Resolved
<1> HIDE DEF t
<1>5. UnfilledUntilSuccess'
  BY <1>2 DEF PositionInv, UnfilledUntilSuccess
<1>6. ClosesFollowEntry'
  BY <1>2, RequestShapes DEF PositionInv, ClosesFollowEntry
<1>7. \A u \in Trades : ~Resolved(u) => entry'[u] = entry[u] /\ remaining'[u] = remaining[u]
  BY <1>1
<1>8. CloseFits'
  <2> SUFFICES ASSUME NEW q \in Requests, ~IsOpen(q), state'[q] \in ACTIVE_REQUEST_STATES,
                      ~Resolved(TradeOf(q))', TradeOf(q) \notin stale'
               PROVE  requested'[q] <= remaining'[TradeOf(q)]
    BY DEF CloseFits, IsOpen, TradeOf
  <2>1. TradeOf(q) \in Trades /\ ~Resolved(TradeOf(q))
    BY <1>4, RequestShapes
  <2>2. state[q] \in ACTIVE_REQUEST_STATES
    BY <1>2, <1>3
  <2> QED
    BY <1>2, <1>7, <2>1, <2>2 DEF PositionInv, CloseFits
<1>9. FinalIsFlat'
  <2> SUFFICES ASSUME NEW u \in Trades, ~Resolved(u)', pos'[u] \in FINAL_POSITION_STATES
               PROVE  pos'[u] = "CLOSED" /\ remaining'[u] = 0
                      /\ state'[OpenOf(u)] \in SUCCESS_TERMINAL_STATES
    BY DEF FinalIsFlat, OpenOf
  <2>1. pos'[u] = "CLOSED" /\ remaining[u] = 0 /\ state[OpenOf(u)] \in SUCCESS_TERMINAL_STATES
    BY <1>1, <1>4 DEF PositionInv, FinalIsFlat
  <2> QED
    BY <1>2, <1>4, <1>7, <2>1, RequestShapes
<1>10. PositionMatchesFills'
  <2> SUFFICES ASSUME NEW u \in Trades, ~Resolved(u)'
               PROVE  LET sold == Cardinality(CloseFills(fills', u)) IN
                      /\ entry'[u] = Cardinality(OpenFills(fills', u))
                      /\ sold <= entry'[u] => remaining'[u] = entry'[u] - sold
                      /\ pos'[u] = "MANUAL_REVIEW_REQUIRED" => sold > entry'[u]
                      /\ u \notin stale' => sold <= entry'[u]
    BY DEF PositionMatchesFills, OpenFills, CloseFills, OpenOf
  <2>1. ~Resolved(u)
    BY <1>4
  <2>2. pos'[u] = "MANUAL_REVIEW_REQUIRED" => Cardinality(CloseFills(fills, u)) > entry[u]
    BY <1>1, <2>1 DEF PositionInv, PositionMatchesFills
  <2> QED
    BY <1>2, <1>7, <2>1, <2>2 DEF PositionInv, PositionMatchesFills
<1>11. ExitRequestedHasClose'
  <2> SUFFICES ASSUME NEW u \in Trades, pos'[u] = "EXIT_REQUESTED"
               PROVE  \E q \in ClosesOf(u) : state'[q] \in ACTIVE_REQUEST_STATES
    BY DEF ExitRequestedHasClose, InState, ClosesOf
  <2>1. pos[u] = "EXIT_REQUESTED" /\ (u = t => s \in ACTIVE_REQUEST_STATES)
    BY <1>1
  <2>2. PICK q \in ClosesOf(u) : state[q] \in ACTIVE_REQUEST_STATES
    BY <2>1 DEF PositionInv, ExitRequestedHasClose, InState
  <2>3. q \in Requests /\ TradeOf(q) = u
    BY RequestShapes
  <2>4. q = r => u = t
    BY <2>3 DEF t
  <2> QED
    BY <1>2, <2>1, <2>2, <2>3, <2>4
<1>12. RowsKept
  BY <1>2 DEF RowsKept
<1>13. RowFollowsEntry'
  BY <1>2, RequestShapes DEF PositionInv, RowFollowsEntry
<1> QED
  BY <1>5, <1>6, <1>8, <1>9, <1>10, <1>11, <1>12, <1>13 DEF BookInv

\* A step that leaves the rows, the fills and the positions alone; a market may
\* end or be settled.
LEMMA QuietBook ==
  ASSUME PositionInv,
         UNCHANGED <<state, requested, filled, fills, pos, entry, remaining, stale>>,
         UNCHANGED row \/ RowFollowsEntry',
         \A t \in Trades : Resolved(t) => Resolved(t)'
  PROVE  BookInv' /\ RowsKept
<1>1. UnfilledUntilSuccess' /\ ClosesFollowEntry' /\ ExitRequestedHasClose' /\ RowsKept
  BY DEF PositionInv, UnfilledUntilSuccess, ClosesFollowEntry, ExitRequestedHasClose, InState,
         RowsKept
<1>2. CloseFits'
  BY RequestShapes DEF PositionInv, CloseFits
<1>3. FinalIsFlat' /\ PositionMatchesFills'
  BY DEF PositionInv, FinalIsFlat, PositionMatchesFills
<1>4. RowFollowsEntry'
  BY DEF PositionInv, RowFollowsEntry
<1> QED
  BY <1>1, <1>2, <1>3, <1>4 DEF BookInv

\* A new OPEN brings an empty position.
LEMMA OpenBook ==
  ASSUME IInv, PositionInv, NEW t \in Trades, EnqueueOpen(t)
  PROVE  BookInv' /\ RowsKept
<1> DEFINE r == OpenOf(t)
<1>1. r \in Requests /\ IsOpen(r) /\ TradeOf(r) = t
  BY RequestShapes
<1>2. /\ state[r] = "none" /\ state'[r] \in { "READY", "AWAITING_APPROVAL" }
      /\ \A q \in Requests \ { r } : state'[q] = state[q] /\ requested'[q] = requested[q]
      /\ pos'[t] = "OPENING" /\ \A u \in Trades \ { t } : pos'[u] = pos[u]
      /\ UNCHANGED <<filled, fills, entry, remaining, row, stale, market>>
  BY <1>1 DEF EnqueueOpen, IInv, TypeOK
<1>3. \A u \in Trades : Resolved(u)' <=> Resolved(u)
  BY <1>2 DEF Resolved
<1> HIDE DEF r
<1>4. UnfilledUntilSuccess' /\ RowsKept
  BY <1>1, <1>2 DEF PositionInv, UnfilledUntilSuccess, RowsKept
<1>5. ClosesFollowEntry'
  BY <1>1, <1>2, RequestShapes DEF PositionInv, ClosesFollowEntry
<1>6. CloseFits'
  BY <1>1, <1>2, <1>3, RequestShapes DEF PositionInv, CloseFits
<1>7. FinalIsFlat'
  BY <1>1, <1>2, <1>3, RequestShapes DEF PositionInv, FinalIsFlat, FINAL_POSITION_STATES, r
<1>8. PositionMatchesFills'
  BY <1>2, <1>3 DEF PositionInv, PositionMatchesFills
<1>9. ExitRequestedHasClose'
  BY <1>1, <1>2, RequestShapes DEF PositionInv, ExitRequestedHasClose, InState
<1>10. RowFollowsEntry'
  BY <1>1, <1>2, RequestShapes DEF PositionInv, RowFollowsEntry
<1> QED
  BY <1>4, <1>5, <1>6, <1>7, <1>8, <1>9, <1>10 DEF BookInv

\* Until the market is settled, a position with shares left has its entry.
LEMMA SharesMeanEntry ==
  ASSUME IInv, PositionInv, NEW t \in Trades, ~Resolved(t), remaining[t] > 0
  PROVE  state[OpenOf(t)] \in SUCCESS_TERMINAL_STATES
<1>1. entry[t] > 0
  BY PositionTypes, BoughtIsEntry DEF PositionInv, PositionMatchesFills
<1> QED
  BY <1>1, BoughtIsEntry

\* A new CLOSE asks for what the position has left, or comes from an old row.
LEMMA CloseBook ==
  ASSUME IInv, PositionInv, NEW t \in Trades, EnqueueClose(t) \/ CallerEnqueues(t)
  PROVE  BookInv' /\ RowsKept
<1> DEFINE r == NextClose(t)
<1>1. r \in ClosesOf(t) /\ r \in Requests /\ ~IsOpen(r) /\ TradeOf(r) = t /\ state[r] = "none"
  BY ClosesQueued, NewClose
<1>2. /\ state'[r] = "READY"
      /\ \A q \in Requests \ { r } : state'[q] = state[q] /\ requested'[q] = requested[q]
      /\ pos'[t] = "EXIT_REQUESTED" /\ \A u \in Trades \ { t } : pos'[u] = pos[u]
      /\ row'[t] = 0 /\ \A u \in Trades \ { t } : row'[u] = row[u]
      /\ stale \subseteq stale'
      /\ UNCHANGED <<filled, fills, entry, remaining, market>>
  BY <1>1 DEF EnqueueClose, CallerEnqueues, IInv, TypeOK
<1>3. t \notin stale' => requested'[r] = remaining[t]
  BY <1>1 DEF EnqueueClose, CallerEnqueues, IInv, TypeOK
<1>4. \A u \in Trades : Resolved(u)' <=> Resolved(u)
  BY <1>2 DEF Resolved
<1>5. state[OpenOf(t)] \in SUCCESS_TERMINAL_STATES
  <2>1. CASE EnqueueClose(t)
    <3>1. ~Resolved(t) /\ remaining[t] > 0
      BY <2>1 DEF EnqueueClose, Resolved
    <3> QED
      BY <3>1, SharesMeanEntry
  <2>2. CASE CallerEnqueues(t)
    BY <2>2 DEF CallerEnqueues, PositionInv, RowFollowsEntry
  <2> QED
    BY <2>1, <2>2
<1>6. remaining[t] \in Nat
  BY PositionTypes
<1> HIDE DEF r
<1>7. UnfilledUntilSuccess' /\ RowsKept
  BY <1>1, <1>2 DEF PositionInv, UnfilledUntilSuccess, RowsKept
<1>8. ClosesFollowEntry'
  BY <1>1, <1>2, <1>5, RequestShapes DEF PositionInv, ClosesFollowEntry
<1>9. CloseFits'
  BY <1>1, <1>2, <1>3, <1>4, <1>6, RequestShapes DEF PositionInv, CloseFits
<1>10. FinalIsFlat'
  BY <1>1, <1>2, <1>4, RequestShapes DEF PositionInv, FinalIsFlat, FINAL_POSITION_STATES
<1>11. PositionMatchesFills'
  BY <1>2, <1>4 DEF PositionInv, PositionMatchesFills
<1>12. ExitRequestedHasClose'
  BY <1>1, <1>2, RequestShapes DEF PositionInv, ExitRequestedHasClose, InState
<1>13. RowFollowsEntry'
  BY <1>1, <1>2, RequestShapes DEF PositionInv, RowFollowsEntry
<1> QED
  BY <1>7, <1>8, <1>9, <1>10, <1>11, <1>12, <1>13 DEF BookInv

\* A caller loads rows of filled entries only, and loses them.
LEMMA RowBook ==
  ASSUME IInv, PositionInv, NEW t \in Trades, CallerLoads(t) \/ CallerDrops(t)
  PROVE  BookInv' /\ RowsKept
<1>1. UNCHANGED <<state, requested, filled, fills, pos, entry, remaining, stale, market>>
  BY DEF CallerLoads, CallerDrops
<1>2. \A u \in Trades \ { t } : row'[u] = row[u]
  BY DEF CallerLoads, CallerDrops, IInv, TypeOK
<1>3. CASE CallerLoads(t)
  <2>1. ~Resolved(t) /\ remaining[t] > 0
    BY <1>3 DEF CallerLoads, Resolved
  <2>2. state[OpenOf(t)] \in SUCCESS_TERMINAL_STATES
    BY <2>1, SharesMeanEntry
  <2>3. RowFollowsEntry'
    BY <1>1, <1>2, <2>2 DEF PositionInv, RowFollowsEntry
  <2> QED
    BY <1>1, <2>3, QuietBook DEF Resolved
<1>4. CASE CallerDrops(t)
  <2>1. row'[t] = 0
    BY <1>4 DEF CallerDrops, IInv, TypeOK
  <2>2. RowFollowsEntry'
    BY <1>1, <1>2, <2>1 DEF PositionInv, RowFollowsEntry
  <2> QED
    BY <1>1, <2>2, QuietBook DEF Resolved
<1> QED
  BY <1>3, <1>4

\* Settlement ends positions on settled markets only.
LEMMA SettleBook ==
  ASSUME IInv, PositionInv, NEW t \in Trades, Settle(t)
  PROVE  BookInv' /\ RowsKept
<1>1. /\ Resolved(t) /\ pos'[t] \in { "CLOSED", "RESOLVED_REDEEMABLE", "RESOLVED_LOST" }
      /\ \A u \in Trades \ { t } : pos'[u] = pos[u] /\ remaining'[u] = remaining[u]
      /\ UNCHANGED <<state, requested, filled, fills, entry, row, stale, market>>
  BY DEF Settle, SettlePaper, SettleLive, OperatorSettle, MarkResolved, IInv, TypeOK
<1>2. \A u \in Trades : Resolved(u)' <=> Resolved(u)
  BY <1>1 DEF Resolved
<1>3. UnfilledUntilSuccess' /\ ClosesFollowEntry' /\ RowFollowsEntry' /\ RowsKept
  BY <1>1 DEF PositionInv, UnfilledUntilSuccess, ClosesFollowEntry, RowFollowsEntry, RowsKept
<1>4. CloseFits'
  BY <1>1, <1>2, RequestShapes DEF PositionInv, CloseFits
<1>5. FinalIsFlat' /\ PositionMatchesFills'
  BY <1>1, <1>2 DEF PositionInv, FinalIsFlat, PositionMatchesFills
<1>6. ExitRequestedHasClose'
  BY <1>1 DEF PositionInv, ExitRequestedHasClose, InState
<1> QED
  BY <1>3, <1>4, <1>5, <1>6 DEF BookInv

\* What a rebuilt position b of trade t says of the shares bought and sold.
Accounts(b, t, bought, sold) ==
  /\ b.entry = bought
  /\ sold <= bought => b.remaining = bought - sold
  /\ b.pos = "MANUAL_REVIEW_REQUIRED" => sold > bought
  /\ t \notin stale => sold <= bought
  /\ b.pos \in { "CLOSED", "PARTIALLY_CLOSED", "OPEN", "MANUAL_REVIEW_REQUIRED" }
  /\ b.pos = "CLOSED" => b.remaining = 0

\* Until the market is settled, the position rebuilt after new fills is what
\* all the fills say: an OPEN had no fills and no CLOSE before, and a CLOSE was
\* the only active one.  It is oversold only where a CLOSE was queued from an
\* old row: any other asked for no more than was left.
LEMMA FilledPosition ==
  ASSUME IInv, PositionInv, NEW r \in Requests, NEW S, S \subseteq FillIds, S # {},
         \A f \in S : f[1][1] = r, Cardinality(S) <= requested[r],
         state[r] \in ACTIVE_REQUEST_STATES, ~Resolved(TradeOf(r))
  PROVE  LET t == TradeOf(r)
             b == Rebuilt(t, pos[t], fills \cup S, FALSE) IN
         Accounts(b, t, Cardinality(OpenFills(fills \cup S, t)),
                  Cardinality(CloseFills(fills \cup S, t)))
<1>1. PICK t \in Trades : t = TradeOf(r)
  BY RequestShapes
<1> DEFINE O == OpenFills(fills \cup S, t)
           C == CloseFills(fills \cup S, t)
           b == Rebuilt(t, pos[t], fills \cup S, FALSE)
<1>2. /\ entry[t] = Cardinality(OpenFills(fills, t)) /\ entry[t] \in Nat /\ remaining[t] \in Nat
      /\ Cardinality(CloseFills(fills, t)) <= entry[t] =>
           remaining[t] = entry[t] - Cardinality(CloseFills(fills, t))
      /\ t \notin stale => Cardinality(CloseFills(fills, t)) <= entry[t]
      /\ Cardinality(CloseFills(fills, t)) \in Nat /\ IsFiniteSet(CloseFills(fills, t))
  BY <1>1, PositionTypes DEF PositionInv, PositionMatchesFills
<1>3. IsFiniteSet(S) /\ Cardinality(S) \in Nat /\ Cardinality(S) > 0 /\ requested[r] \in Nat
  <2>1. IsFiniteSet(S) /\ Cardinality(S) \in Nat
    BY CardinalityOfFills
  <2>2. Cardinality(S) # 0
    BY <2>1, FS_EmptySet
  <2> QED
    BY <2>1, <2>2 DEF IInv, TypeOK
<1>4. \A f \in fills : f[1][1] # r
  BY DEF IInv, FillsIffSuccess
<1>5. /\ r = OpenOf(t) => O = OpenFills(fills, t) \cup S
      /\ r # OpenOf(t) => O = OpenFills(fills, t)
      /\ IsOpen(r) => C = CloseFills(fills, t)
      /\ ~IsOpen(r) => C = CloseFills(fills, t) \cup S
  <2>1. r[2] \in Nat /\ TradeOf(r) = t /\ \A f \in S : f[1][1] = r
    BY <1>1, BoundsAssumption DEF Requests
  <2>2. r # OpenOf(t) => O = OpenFills(fills, t)
    BY <2>1 DEF OpenFills
  <2>3. r = OpenOf(t) => O = OpenFills(fills, t) \cup S
    BY <2>1 DEF OpenFills
  <2>4. IsOpen(r) => C = CloseFills(fills, t)
    BY <2>1 DEF CloseFills, IsOpen
  <2>5. ~IsOpen(r) => C = CloseFills(fills, t) \cup S
    BY <2>1 DEF CloseFills, IsOpen, TradeOf
  <2> QED
    BY <2>2, <2>3, <2>4, <2>5
<1>6. ASSUME NEW bought \in Nat, NEW sold \in Nat,
             bought = IF O = {} THEN entry[t] ELSE Cardinality(O), sold = Cardinality(C), bought > 0
      PROVE  \/ /\ pos[t] \in FINAL_POSITION_STATES
                /\ b = [pos |-> pos[t], entry |-> entry[t], remaining |-> remaining[t]]
             \/ /\ pos[t] \notin FINAL_POSITION_STATES /\ sold > bought
                /\ b = [pos |-> "MANUAL_REVIEW_REQUIRED", entry |-> entry[t],
                        remaining |-> remaining[t]]
             \/ /\ pos[t] \notin FINAL_POSITION_STATES /\ sold <= bought
                /\ b = [pos |-> IF sold = bought THEN "CLOSED"
                                ELSE IF sold > 0 THEN "PARTIALLY_CLOSED" ELSE "OPEN",
                        entry |-> bought, remaining |-> bought - sold]
  <2>1. bought > 0
    BY <1>6
  <2>2. CASE pos[t] \in FINAL_POSITION_STATES
    BY <2>2 DEF Rebuilt
  <2>3. CASE pos[t] \notin FINAL_POSITION_STATES /\ sold > bought
    <3>1. bought # 0 /\ ~(sold <= bought)
      BY ONLY <2>3, <2>1, bought \in Nat, sold \in Nat
    <3> QED
      BY <1>6, <2>3, <3>1 DEF Rebuilt
  <2>4. CASE pos[t] \notin FINAL_POSITION_STATES /\ sold <= bought
    <3>1. bought # 0 /\ ~(sold > bought)
      BY ONLY <2>4, <2>1, bought \in Nat, sold \in Nat
    <3> QED
      BY <1>6, <2>4, <3>1 DEF Rebuilt
  <2>5. sold > bought \/ sold <= bought
    BY ONLY bought \in Nat, sold \in Nat
  <2> QED
    BY <2>2, <2>3, <2>4, <2>5
<1> HIDE DEF O, C, b
<1>7. pos[t] \in FINAL_POSITION_STATES =>
        /\ pos[t] = "CLOSED" /\ remaining[t] = 0
        /\ state[OpenOf(t)] \in SUCCESS_TERMINAL_STATES
  BY <1>1 DEF PositionInv, FinalIsFlat
<1>8. CASE IsOpen(r)
  <2>1. r = OpenOf(t)
    BY <1>1, <1>8, RequestShapes
  <2>2. OpenFills(fills, t) = {}
    BY <1>4, <2>1 DEF OpenFills
  <2>3. O = S /\ C = CloseFills(fills, t)
    BY <1>5, <1>8, <2>1, <2>2
  <2>4. entry[t] = 0 /\ Cardinality(CloseFills(fills, t)) = 0
    BY <1>1, <1>2, <2>2, FS_EmptySet, BoughtIsEntry
  <2>5. pos[t] \notin FINAL_POSITION_STATES
    BY <1>7, <2>1
  <2>6. Cardinality(C) = 0 /\ O # {} /\ Cardinality(O) \in Nat /\ Cardinality(O) > 0
    BY <1>3, <2>3, <2>4
  <2>7. (IF O = {} THEN entry[t] ELSE Cardinality(O)) = Cardinality(O)
    BY <2>6
  <2>8. b = [pos |-> "OPEN", entry |-> Cardinality(O), remaining |-> Cardinality(O)]
    BY <1>6, <2>5, <2>6, <2>7
  <2>9. Accounts(b, t, Cardinality(O), Cardinality(C))
    BY <2>6, <2>8 DEF Accounts
  <2> QED
    BY <1>1, <2>9 DEF O, C, b
<1>9. CASE ~IsOpen(r)
  <2>1. t \notin stale => requested[r] <= remaining[t]
    BY <1>1, <1>9 DEF PositionInv, CloseFits
  <2>2. r # OpenOf(t)
    BY <1>9, RequestShapes
  <2>3. O = OpenFills(fills, t) /\ C = CloseFills(fills, t) \cup S
    BY <1>5, <1>9, <2>2
  <2>4. CloseFills(fills, t) \cap S = {}
    BY <1>4 DEF CloseFills
  <2>5. Cardinality(C) = Cardinality(CloseFills(fills, t)) + Cardinality(S)
    <3>1. Cardinality(CloseFills(fills, t) \cup S)
            = Cardinality(CloseFills(fills, t)) + Cardinality(S)
                - Cardinality(CloseFills(fills, t) \cap S)
      BY <1>2, <1>3, FS_Union
    <3>2. Cardinality(CloseFills(fills, t) \cap S) = 0
      BY <2>4, FS_EmptySet
    <3> QED
      BY <1>2, <1>3, <2>3, <3>1, <3>2
  <2>6. (IF O = {} THEN entry[t] ELSE Cardinality(O)) = entry[t] /\ Cardinality(O) = entry[t]
    BY <1>1, <1>2, <2>3, BoughtIsEntry
  <2>7. entry[t] > 0 /\ Cardinality(C) \in Nat
    <3>1. state[OpenOf(t)] \in SUCCESS_TERMINAL_STATES
      BY <1>1, <1>9 DEF PositionInv, ClosesFollowEntry
    <3> QED
      BY <1>1, <1>2, <1>3, <2>5, <3>1, EntryHasShares
  <2>8. t \notin stale => Cardinality(C) <= entry[t]
    BY <1>2, <1>3, <2>1, <2>5
  <2>9. pos[t] \in FINAL_POSITION_STATES => Cardinality(C) > entry[t]
    BY <1>2, <1>3, <1>7, <2>5
  <2>10. Accounts(b, t, Cardinality(O), Cardinality(C))
    BY <1>2, <1>6, <1>7, <2>6, <2>7, <2>8, <2>9 DEF Accounts
  <2> QED
    BY <1>1, <2>10 DEF O, C, b
<1> QED
  BY <1>8, <1>9

\* A rebuild never marks a position EXIT_REQUESTED.
LEMMA RebuiltNotExit ==
  ASSUME IInv, NEW t \in Trades, NEW S, S \subseteq FillIds
  PROVE  Rebuilt(t, pos[t], S, FALSE).pos # "EXIT_REQUESTED"
<1> DEFINE bought == IF OpenFills(S, t) = {} THEN entry[t] ELSE Cardinality(OpenFills(S, t))
           sold == Cardinality(CloseFills(S, t))
<1>1. bought \in Nat /\ sold \in Nat
  BY PositionTypes, CardinalityOfFills DEF OpenFills, CloseFills
<1>2. pos[t] \in FINAL_POSITION_STATES => pos[t] # "EXIT_REQUESTED"
  BY DEF FINAL_POSITION_STATES
<1> QED
  BY <1>1, <1>2 DEF Rebuilt

\* Storing fills, and queueing a take-profit behind them, keeps the invariants
\* on positions.
LEMMA FillBook ==
  ASSUME IInv, PositionInv, NEW r \in Requests, NEW S \in SUBSET FillIds, NEW s \in RequestStates,
         NEW n \in Nat, NEW tp \in BOOLEAN, TableFill(r, S, s, n, tp),
         Cardinality(S) <= requested[r], UNCHANGED <<callerVars, market>>
  PROVE  BookInv' /\ RowsKept
<1>1. PICK t \in Trades : t = TradeOf(r)
  BY RequestShapes
<1>2. PICK b : b = Rebuilt(t, pos[t], fills \cup S, FALSE)
  OBVIOUS
<1>3. PICK c : c = NextClose(t)
  OBVIOUS
<1>4. /\ state[r] \in ACTIVE_REQUEST_STATES /\ state[r] \notin SUCCESS_TERMINAL_STATES
      /\ s \in SUCCESS_TERMINAL_STATES /\ S # {}
      /\ fills' = fills \cup S /\ filled' = [filled EXCEPT ![r] = n]
  BY DEF TableFill, FinalizeFilled
<1>5. \A f \in S : f[1][1] = r
  BY DEF TableFill
<1>6. /\ tp => TakeProfitDue(r, s, b)
      /\ state' = IF tp THEN [state EXCEPT ![r] = s, ![c] = "READY"] ELSE [state EXCEPT ![r] = s]
      /\ requested' = IF tp THEN [requested EXCEPT ![c] = b.remaining] ELSE requested
      /\ SetPosition(t, IF tp THEN [b EXCEPT !.pos = "EXIT_REQUESTED"] ELSE b)
  BY <1>1, <1>2, <1>3 DEF TableFill, FinalizeFilled
<1>7. b \in [pos : PositionStates, entry : Nat, remaining : Nat]
  <2>1. pos[t] \in PositionStates /\ fills \cup S \subseteq FillIds
    BY PositionTypes DEF IInv, TypeOK
  <2> QED
    BY <1>2, <2>1, RebuiltType DEF IInv
<1>8. /\ entry'[t] = b.entry /\ remaining'[t] = b.remaining
      /\ pos'[t] = IF tp THEN "EXIT_REQUESTED" ELSE b.pos
      /\ \A u \in Trades \ { t } :
           pos'[u] = pos[u] /\ entry'[u] = entry[u] /\ remaining'[u] = remaining[u]
  <2> DEFINE q == IF tp THEN [b EXCEPT !.pos = "EXIT_REQUESTED"] ELSE b
  <2>1. q.entry = b.entry /\ q.remaining = b.remaining
        /\ q.pos = IF tp THEN "EXIT_REQUESTED" ELSE b.pos
    BY <1>7
  <2>2. SetPosition(t, q)
    BY <1>6
  <2> HIDE DEF q
  <2> QED
    BY <2>1, <2>2 DEF SetPosition, IInv, TypeOK
<1>9. tp => /\ IsOpen(r) /\ r = OpenOf(t) /\ c \in ClosesOf(t) /\ c \in Requests /\ ~IsOpen(c)
            /\ TradeOf(c) = t /\ state[c] = "none" /\ c # r /\ ~Resolved(t)
  <2> SUFFICES ASSUME tp
               PROVE  /\ IsOpen(r) /\ r = OpenOf(t) /\ c \in ClosesOf(t) /\ c \in Requests
                      /\ ~IsOpen(c) /\ TradeOf(c) = t /\ state[c] = "none" /\ c # r /\ ~Resolved(t)
    OBVIOUS
  <2>1. /\ IsOpen(r) /\ market[MarketOf[t]] = "TRADING" /\ version[t] < MaxCloses
    BY <1>1, <1>6 DEF TakeProfitDue, MarketOfRequest
  <2>2. c \in ClosesOf(t) /\ c \in Requests /\ c[1] = t /\ c[2] = version[t] + 1
    BY <1>3, <2>1, BoundsAssumption DEF IInv, TypeOK, NextClose, ClosesOf, Requests
  <2>3. ~IsOpen(c) /\ TradeOf(c) = t /\ r = OpenOf(t)
    BY <1>1, <2>1, <2>2, RequestShapes
  <2>4. state[c] = "none"
    BY <2>2, <2>3 DEF IInv, TypeOK, NextCloseAbsent
  <2>5. ~Resolved(t)
    BY <2>1 DEF Resolved
  <2> QED
    BY <2>1, <2>2, <2>3, <2>4, <2>5
<1>10. /\ state'[r] = s
       /\ \A q \in Requests \ { r } :
            \/ state'[q] = state[q] /\ requested'[q] = requested[q]
            \/ tp /\ q = c /\ state'[q] = "READY" /\ requested'[q] = b.remaining
       /\ requested'[r] = requested[r]
       /\ tp => state'[c] = "READY" /\ requested'[c] = b.remaining
  BY <1>6, <1>9 DEF IInv, TypeOK
<1>11. \A u \in Trades : Resolved(u)' <=> Resolved(u)
  BY DEF Resolved
<1>12. ~Resolved(t) =>
         Accounts(b, t, Cardinality(OpenFills(fills \cup S, t)),
                  Cardinality(CloseFills(fills \cup S, t)))
  BY <1>1, <1>2, <1>4, <1>5, FilledPosition
<1>13. b.pos # "EXIT_REQUESTED"
  BY <1>2, RebuiltNotExit DEF IInv, TypeOK
<1>14. state'[OpenOf(t)] \in SUCCESS_TERMINAL_STATES
  <2>1. OpenOf(t) \in Requests /\ IsOpen(OpenOf(t))
    BY RequestShapes
  <2>2. OpenOf(t) # r => state[OpenOf(t)] \in SUCCESS_TERMINAL_STATES
    BY <1>1, <1>4, RequestShapes DEF PositionInv, ClosesFollowEntry
  <2> QED
    BY <1>4, <1>9, <1>10, <2>1, <2>2
<1>15. UnfilledUntilSuccess'
  <2> SUFFICES ASSUME NEW q \in Requests, state'[q] \notin SUCCESS_TERMINAL_STATES
               PROVE  filled'[q] = 0
    BY DEF UnfilledUntilSuccess
  <2>1. q # r /\ state[q] \notin SUCCESS_TERMINAL_STATES
    BY <1>4, <1>9, <1>10
  <2> QED
    BY <1>4, <2>1 DEF PositionInv, UnfilledUntilSuccess, IInv, TypeOK
<1>16. ClosesFollowEntry'
  <2> SUFFICES ASSUME NEW q \in Requests, ~IsOpen(q), state'[q] # "none"
               PROVE  state'[OpenOf(TradeOf(q))] \in SUCCESS_TERMINAL_STATES
    BY DEF ClosesFollowEntry, IsOpen, OpenOf, TradeOf
  <2>1. CASE TradeOf(q) = t
    BY <1>14, <2>1
  <2>2. CASE TradeOf(q) # t
    <3>1. q # r /\ ~(tp /\ q = c)
      BY <1>1, <1>9, <2>2
    <3>2. state[OpenOf(TradeOf(q))] \in SUCCESS_TERMINAL_STATES /\ OpenOf(TradeOf(q)) \in Requests
      BY <1>10, <3>1, RequestShapes DEF PositionInv, ClosesFollowEntry
    <3>3. OpenOf(TradeOf(q)) # r /\ ~(tp /\ OpenOf(TradeOf(q)) = c)
      BY <1>4, <1>9, <3>2
    <3> QED
      BY <1>10, <3>2, <3>3
  <2> QED
    BY <2>1, <2>2
<1>17. CloseFits'
  <2> SUFFICES ASSUME NEW q \in Requests, ~IsOpen(q), state'[q] \in ACTIVE_REQUEST_STATES,
                      ~Resolved(TradeOf(q))', TradeOf(q) \notin stale'
               PROVE  requested'[q] <= remaining'[TradeOf(q)]
    BY DEF CloseFits, IsOpen, TradeOf
  <2>1. q # r /\ TradeOf(q) \in Trades /\ ~Resolved(TradeOf(q))
    BY <1>4, <1>10, <1>11, RequestShapes
  <2>2. CASE tp /\ q = c
    BY <1>7, <1>8, <1>9, <1>10, <2>2
  <2>3. CASE ~(tp /\ q = c)
    <3>1. state[q] \in ACTIVE_REQUEST_STATES /\ requested'[q] = requested[q]
      BY <1>10, <2>1, <2>3
    <3>2. TradeOf(q) # t
      <4> SUFFICES ASSUME TradeOf(q) = t PROVE FALSE
        OBVIOUS
      <4>1. q \in ClosesOf(t) /\ state[q] # "none"
        BY <3>1, RequestShapes
      <4>2. ~IsOpen(r)
        BY <1>1, <1>4, <4>1, RequestShapes DEF PositionInv, ClosesFollowEntry
      <4>3. r \in ClosesOf(t)
        BY <1>1, <4>2, RequestShapes
      <4> QED
        BY <1>4, <2>1, <3>1, <4>1, <4>3 DEF IInv, OneActivePerKey, InState
    <3> QED
      BY <1>8, <2>1, <3>1, <3>2 DEF PositionInv, CloseFits
  <2> QED
    BY <2>2, <2>3
<1>18. FinalIsFlat'
  <2> SUFFICES ASSUME NEW u \in Trades, ~Resolved(u)', pos'[u] \in FINAL_POSITION_STATES
               PROVE  pos'[u] = "CLOSED" /\ remaining'[u] = 0
                      /\ state'[OpenOf(u)] \in SUCCESS_TERMINAL_STATES
    BY DEF FinalIsFlat, OpenOf
  <2>1. CASE u = t
    <3>1. ~tp /\ pos'[t] = b.pos /\ b.pos = "CLOSED"
      BY <1>8, <1>11, <1>12, <2>1 DEF FINAL_POSITION_STATES, Accounts
    <3> QED
      BY <1>8, <1>11, <1>12, <1>14, <2>1, <3>1 DEF Accounts
  <2>2. CASE u # t
    <3>1. /\ pos'[u] = "CLOSED" /\ remaining'[u] = 0
          /\ state[OpenOf(u)] \in SUCCESS_TERMINAL_STATES /\ OpenOf(u) \in Requests
      BY <1>8, <1>11, <2>2, RequestShapes DEF PositionInv, FinalIsFlat
    <3> QED
      BY <1>4, <1>9, <1>10, <3>1
  <2> QED
    BY <2>1, <2>2
<1>19. PositionMatchesFills'
  <2> SUFFICES ASSUME NEW u \in Trades, ~Resolved(u)'
               PROVE  LET sold == Cardinality(CloseFills(fills', u)) IN
                      /\ entry'[u] = Cardinality(OpenFills(fills', u))
                      /\ sold <= entry'[u] => remaining'[u] = entry'[u] - sold
                      /\ pos'[u] = "MANUAL_REVIEW_REQUIRED" => sold > entry'[u]
                      /\ u \notin stale' => sold <= entry'[u]
    BY DEF PositionMatchesFills, OpenFills, CloseFills, OpenOf
  <2>1. ~Resolved(u)
    BY <1>11
  <2>2. CASE u = t
    BY <1>4, <1>8, <1>12, <2>1, <2>2 DEF Accounts
  <2>3. CASE u # t
    <3>1. r # OpenOf(u) /\ TradeOf(r) # u
      BY <1>1, <2>3, RequestShapes
    <3>2. OpenFills(fills \cup S, u) = OpenFills(fills, u)
          /\ CloseFills(fills \cup S, u) = CloseFills(fills, u)
      <4>1. OpenFills(fills \cup S, u) = OpenFills(fills, u)
        BY <1>5, <3>1 DEF OpenFills
      <4>2. CloseFills(fills \cup S, u) = CloseFills(fills, u)
        BY <1>5, <3>1 DEF CloseFills, TradeOf
      <4> QED
        BY <4>1, <4>2
    <3> QED
      BY <1>4, <1>8, <2>1, <2>3, <3>2 DEF PositionInv, PositionMatchesFills
  <2> QED
    BY <2>2, <2>3
<1>20. ExitRequestedHasClose'
  <2> SUFFICES ASSUME NEW u \in Trades, pos'[u] = "EXIT_REQUESTED"
               PROVE  \E q \in ClosesOf(u) : state'[q] \in ACTIVE_REQUEST_STATES
    BY DEF ExitRequestedHasClose, InState, ClosesOf
  <2>1. CASE u = t
    <3>1. tp
      BY <1>8, <1>13, <2>1
    <3> QED
      BY <1>9, <1>10, <2>1, <3>1
  <2>2. CASE u # t
    <3>1. PICK q \in ClosesOf(u) : state[q] \in ACTIVE_REQUEST_STATES
      BY <1>8, <2>2 DEF PositionInv, ExitRequestedHasClose, InState
    <3>2. q \in Requests /\ q # r
      BY <1>1, <2>2, RequestShapes
    <3> QED
      BY <1>10, <3>1, <3>2
  <2> QED
    BY <2>1, <2>2
<1>21. RowsKept
  BY <1>4, <1>9, <1>10 DEF RowsKept
<1>22. RowFollowsEntry'
  <2> SUFFICES ASSUME NEW u \in Trades, row'[u] > 0
               PROVE  state'[OpenOf(u)] \in SUCCESS_TERMINAL_STATES
    BY DEF RowFollowsEntry, OpenOf
  <2>1. state[OpenOf(u)] \in SUCCESS_TERMINAL_STATES /\ OpenOf(u) \in Requests
    BY RequestShapes DEF PositionInv, RowFollowsEntry
  <2> QED
    BY <1>4, <1>9, <1>10, <2>1
<1> QED
  BY <1>15, <1>16, <1>17, <1>18, <1>19, <1>20, <1>21, <1>22 DEF BookInv

-----------------------------------------------------------------------------
(* Positions: action by action                                             *)

\* finalize_request, with or without a rebuild.
LEMMA FinalizeBook ==
  ASSUME IInv, PositionInv, NEW r \in Requests, NEW s \in RequestStates,
         FinalizeOnly(r, s) \/ FinalizeAndRebuild(r, s),
         UNCHANGED <<fills, requested, filled, callerVars, market>>,
         state[r] \notin { "none" } \cup SUCCESS_TERMINAL_STATES,
         s \notin { "none" } \cup SUCCESS_TERMINAL_STATES,
         s \in ACTIVE_REQUEST_STATES \/ IsOpen(r) => state[r] \in ACTIVE_REQUEST_STATES
  PROVE  BookInv' /\ RowsKept
<1>1. TableMove(r, s)
  BY DEF TableMove, FinalizeOnly, FinalizeAndRebuild, Finalize
<1>2. PositionMove(r, s)
  <2>1. CASE FinalizeOnly(r, s)
    BY <2>1 DEF FinalizeOnly, PositionMove
  <2>2. CASE FinalizeAndRebuild(r, s)
    <3>1. OpenFailed(r, s) \in BOOLEAN
      BY DEF OpenFailed
    <3> QED
      BY <2>2, <3>1 DEF FinalizeAndRebuild, PositionMove
  <2> QED
    BY <2>1, <2>2
<1> QED
  BY <1>1, <1>2, MoveBook

\* Any other write of an active state to an active row, which may rebuild the
\* position.
LEMMA ActiveBook ==
  ASSUME IInv, PositionInv, NEW r \in Requests, NEW s \in ACTIVE_REQUEST_STATES,
         state[r] \in ACTIVE_REQUEST_STATES,
         state' = [state EXCEPT ![r] = s],
         UNCHANGED <<reservation, version, fills, requested, filled, callerVars, market>>,
         \/ UNCHANGED <<pos, entry, remaining>>
         \/ \E b \in BOOLEAN : SetPosition(TradeOf(r), Rebuilt(TradeOf(r), pos[TradeOf(r)], fills, b))
  PROVE  BookInv' /\ RowsKept
<1>1. TableMove(r, s) /\ s \in RequestStates
  BY NoRelease DEF TableMove, RequestStates
<1>2. PosAfterFinalize(r, s) = pos[TradeOf(r)] /\ TradeOf(r) \in Trades
  BY <1>1, PosAfterMove, RequestShapes
<1>3. PositionMove(r, s)
  BY <1>2 DEF PositionMove, IInv, TypeOK
<1> QED
  BY <1>1, <1>3, MoveBook

\* Claiming a row and checking it before the submission.
LEMMA QueueBook ==
  ASSUME IInv, PositionInv, NEW r \in Requests, ClaimStep(r) \/ Preflight(r)
  PROVE  BookInv' /\ WithinRequest'
<1>1. BookInv' /\ RowsKept
  <2>1. CASE ClaimExpired(r)
    BY <2>1, FinalizeBook, RequestStatesHas DEF ClaimExpired, Claimable
  <2>2. CASE Claim(r)
    BY <2>2, ActiveBook DEF Claim, Claimable
  <2>3. ASSUME Preflight(r) PROVE state[r] = "CLAIMED"
    BY <2>3 DEF Preflight, PreflightReject, PreflightReview, PreflightRequeue, BeginSubmit,
         IInv, InHand
  <2>4. CASE PreflightReject(r)
    BY <2>3, <2>4, FinalizeBook, RequestStatesHas DEF Preflight, PreflightReject
  <2>5. CASE PreflightReview(r)
    BY <2>3, <2>5, FinalizeBook, RequestStatesHas DEF Preflight, PreflightReview
  <2>6. CASE PreflightRequeue(r)
    BY <2>3, <2>6, FinalizeBook, RequestStatesHas DEF Preflight, PreflightRequeue
  <2>7. CASE BeginSubmit(r)
    BY <2>3, <2>7, ActiveBook DEF Preflight, BeginSubmit
  <2> QED
    BY <2>1, <2>2, <2>4, <2>5, <2>6, <2>7 DEF ClaimStep, Preflight
<1>2. UNCHANGED <<listed, traded, resting>> /\ (got' = {} \/ got' = got) /\ got = {}
  BY DEF ClaimStep, ClaimExpired, Claim, Preflight, PreflightReject, PreflightReview,
         PreflightRequeue, BeginSubmit, Rest, IInv, AnswerInHand
<1>3. listed' \subseteq traded' /\ got' = {}
  BY <1>2 DEF PositionInv, WithinRequest
<1> QED
  BY <1>1, <1>2, <1>3, VenueQuiet

\* Applying an answer.
LEMMA ApplyBook ==
  ASSUME IInv, PositionInv, NEW r \in Requests, Apply(r)
  PROVE  BookInv' /\ WithinRequest'
<1>1. state[r] = "SUBMITTING" /\ cur = r
  BY DEF Apply, ApplyRejected, ApplyConfirmed, ApplyPending, FinishSubmitException,
         IInv, InHand
<1>2. BookInv' /\ RowsKept
  <2>1. CASE ApplyRejected(r)
    BY <1>1, <2>1, FinalizeBook, RequestStatesHas DEF ApplyRejected
  <2>2. CASE ApplyConfirmed(r)
    <3> DEFINE S == ConfirmedFills(r)
    <3>1. PICK tp \in BOOLEAN : FinalizeFilled(r, S, FillState(r, S), Cardinality(S), tp)
      BY <2>2 DEF ApplyConfirmed
    <3>2. /\ S \in SUBSET FillIds /\ FillState(r, S) \in RequestStates
          /\ Cardinality(S) \in Nat /\ FillState(r, S) \in SUCCESS_TERMINAL_STATES
      BY FetchedType, CardinalityOfFills, RequestStatesHas DEF IInv
    <3>3. S # {} /\ \A f \in S : f[1][1] = r
      BY <1>1, <2>2, OwnFills DEF ApplyConfirmed
    <3>4. TableFill(r, S, FillState(r, S), Cardinality(S), tp)
      BY <1>1, <3>1, <3>2, <3>3 DEF TableFill
    <3>5. Cardinality(S) <= requested[r] /\ UNCHANGED <<callerVars, market>>
      BY <1>1, <2>2, FillsFit DEF ApplyConfirmed
    <3> HIDE DEF S
    <3> QED
      BY <3>2, <3>4, <3>5, FillBook
  <2>3. CASE ApplyPending(r)
    <3>1. OpenFailed(r, "RECONCILING") \in BOOLEAN
      BY DEF OpenFailed
    <3> QED
      BY <1>1, <2>3, <3>1, ActiveBook DEF ApplyPending
  <2>4. CASE FinishSubmitException(r)
    <3>1. CASE RequeueFresh(r)
      BY <1>1, <2>4, <3>1, ActiveBook DEF FinishSubmitException, RequeueFresh
    <3>2. ASSUME NEW s \in { "REJECTED", "MANUAL_REVIEW_REQUIRED" }, FinalizeOnly(r, s)
          PROVE  BookInv' /\ RowsKept
      BY <1>1, <2>4, <3>2, FinalizeBook, RequestStatesHas DEF FinishSubmitException
    <3> QED
      BY <2>4, <3>1, <3>2 DEF FinishSubmitException
  <2> QED
    BY <2>1, <2>2, <2>3, <2>4 DEF Apply
<1>3. UNCHANGED <<listed, traded, resting>> /\ got' = {}
  BY DEF Apply, ApplyRejected, ApplyConfirmed, ApplyPending, FinishSubmitException, Rest
<1>4. listed' \subseteq traded'
  BY <1>3 DEF PositionInv, WithinRequest
<1> QED
  BY <1>2, <1>3, <1>4, VenueQuiet

\* Reconciliation, auto-resolve and the operator.
LEMMA LateBook ==
  ASSUME IInv, PositionInv, NEW r \in Requests, Reconcile(r) \/ AutoResolve(r) \/ Operator(r)
  PROVE  BookInv' /\ WithinRequest'
<1>1. ASSUME Reconcile(r) PROVE BookInv' /\ RowsKept
  <2>1. state[r] \in RECONCILABLE_REQUEST_STATES
    BY <1>1 DEF Reconcile, ReconcileTimeout, ReconcileRequeue, ReconcileFills,
         ReconcileGtdExpired, Reconcilable
  <2>2. CASE ReconcileTimeout(r)
    BY <2>1, <2>2, FinalizeBook, RequestStatesHas DEF ReconcileTimeout
  <2>3. CASE ReconcileRequeue(r)
    BY <2>1, <2>3, ActiveBook DEF ReconcileRequeue, RequeueFresh
  <2>4. CASE ReconcileFills(r)
    <3> DEFINE S == Fetched(r)
    <3>1. PICK tp \in BOOLEAN : FinalizeFilled(r, S, FillState(r, S), Cardinality(S), tp)
      BY <2>4 DEF ReconcileFills
    <3>2. /\ S \in SUBSET FillIds /\ FillState(r, S) \in RequestStates
          /\ Cardinality(S) \in Nat /\ FillState(r, S) \in SUCCESS_TERMINAL_STATES
      BY FetchedType, CardinalityOfFills, RequestStatesHas DEF IInv
    <3>3. S # {} /\ \A f \in S : f[1][1] = r
      BY <2>4, OwnFills DEF ReconcileFills
    <3>4. TableFill(r, S, FillState(r, S), Cardinality(S), tp)
      BY <2>1, <3>1, <3>2, <3>3 DEF TableFill
    <3>5. Cardinality(S) <= requested[r] /\ UNCHANGED <<callerVars, market>>
      BY <2>4, FillsFit DEF ReconcileFills
    <3> HIDE DEF S
    <3> QED
      BY <3>2, <3>4, <3>5, FillBook
  <2>5. CASE ReconcileGtdExpired(r)
    BY <2>1, <2>5, FinalizeBook, RequestStatesHas DEF ReconcileGtdExpired
  <2> QED
    BY <1>1, <2>2, <2>3, <2>4, <2>5 DEF Reconcile
<1>2. ASSUME AutoResolve(r) PROVE BookInv' /\ RowsKept
  <2>1. /\ ~IsOpen(r)
        /\ state[r] \in { "MANUAL_REVIEW_REQUIRED", "READY", "RECONCILING",
                          "MANUAL_REVIEW_FAILED" }
    BY <1>2 DEF AutoResolve, AutoResolveFilled, AutoResolveRejected, LeaveBatch, IInv,
         BatchOfCloses
  <2>2. CASE AutoResolveFilled(r)
    <3>1. FinalizeFilled(r, Fetched(r), "FILLED", filled[r], FALSE) /\ UNCHANGED <<callerVars, market>>
      BY <2>2 DEF AutoResolveFilled
    <3>2. state[r] \in { "RECONCILING", "MANUAL_REVIEW_REQUIRED" }
      BY <2>1, <2>2 DEF AutoResolveFilled, HasProviderId, CurrentOrder, IInv, ProviderIdFinal
    <3>3. TableFill(r, Fetched(r), "FILLED", filled[r], FALSE)
      BY <2>2, <3>1, <3>2, OwnFills DEF AutoResolveFilled, TableFill
    <3>4. Fetched(r) \in SUBSET FillIds /\ filled[r] \in Nat /\ "FILLED" \in RequestStates
      BY FetchedType, RequestStatesHas DEF IInv, TypeOK
    <3>5. Cardinality(Fetched(r)) <= requested[r]
      BY FillsFit
    <3> QED
      BY <3>1, <3>3, <3>4, <3>5, FillBook
  <2>3. CASE AutoResolveRejected(r)
    BY <2>1, <2>3, FinalizeBook, RequestStatesHas DEF AutoResolveRejected
  <2> QED
    BY <1>2, <2>2, <2>3 DEF AutoResolve
<1>3. ASSUME Operator(r) PROVE BookInv' /\ RowsKept
  <2>1. CASE OperatorRequeue(r)
    BY <2>1, ActiveBook DEF OperatorRequeue
  <2>2. CASE MarkFailedNoFill(r)
    BY <2>2, FinalizeBook, RequestStatesHas DEF MarkFailedNoFill, NoFillEligible
  <2>3. CASE OperatorReconcile(r)
    BY <2>3, ActiveBook DEF OperatorReconcile
  <2> QED
    BY <1>3, <2>1, <2>2, <2>3 DEF Operator
<1>4. UNCHANGED <<listed, traded, got, cur, attempts>> /\ resting' \subseteq resting
  BY DEF Reconcile, ReconcileTimeout, ReconcileRequeue, ReconcileFills, ReconcileGtdExpired,
         AutoResolve, AutoResolveFilled, AutoResolveRejected, LeaveBatch,
         Operator, OperatorRequeue, MarkFailedNoFill, OperatorReconcile
<1>5. listed' \subseteq traded'
  BY <1>4 DEF PositionInv, WithinRequest
<1> QED
  BY <1>1, <1>2, <1>3, <1>4, <1>5, VenueQuiet

\* Every step keeps the invariants on positions.
LEMMA PositionInvNext == IInv /\ PositionInv /\ [Next]_vars => PositionInv'
<1> SUFFICES ASSUME IInv, PositionInv, [Next]_vars PROVE BookInv' /\ WithinRequest'
  BY DEF BookInv, PositionInv
<1>1. ASSUME RowsKept, UNCHANGED <<listed, traded, resting, got, cur, attempts>>
      PROVE  WithinRequest'
  BY <1>1, VenueQuiet DEF PositionInv, WithinRequest
<1>2. ASSUME NEW t \in Trades, EnqueueOpen(t) PROVE BookInv' /\ WithinRequest'
  BY <1>1, <1>2, OpenBook DEF EnqueueOpen
<1>3. ASSUME NEW t \in Trades, EnqueueClose(t) \/ Caller(t) PROVE BookInv' /\ WithinRequest'
  <2>1. UNCHANGED <<listed, traded, resting, got, cur, attempts>>
    BY <1>3 DEF EnqueueClose, Caller, CallerLoads, CallerEnqueues, CallerDrops
  <2> QED
    BY <1>1, <1>3, <2>1, CloseBook, RowBook DEF Caller
<1>4. ASSUME NEW t \in Trades, Settle(t) PROVE BookInv' /\ WithinRequest'
  <2>1. UNCHANGED <<listed, traded, resting, got, cur, attempts>>
    BY <1>4 DEF Settle, SettlePaper, SettleLive, OperatorSettle, MarkResolved
  <2> QED
    BY <1>1, <1>4, <2>1, SettleBook
<1>5. ASSUME NEW r \in Requests, Gateway(r) PROVE BookInv' /\ WithinRequest'
  <2>1. UNCHANGED <<state, requested, filled, fills, pos, entry, remaining, callerVars, market>>
    BY <1>5 DEF Gateway, PaperAnswer, LiveNotPlaced, LiveTraded, LiveResting, Answered
  <2> QED
    BY <1>5, <2>1, QuietBook, GatewayWithin DEF Resolved
<1>6. ASSUME NEW r \in Requests, Clock(r) PROVE BookInv' /\ WithinRequest'
  <2>1. UNCHANGED <<state, requested, filled, fills, pos, entry, remaining, callerVars, market,
                    listed, traded, resting, got, cur, attempts>>
    BY <1>6 DEF Clock, Expire, Age
  <2> QED
    BY <1>1, <2>1, QuietBook DEF Resolved
<1>7. CASE AutoResolveScan \/ Crash
  <2>1. UNCHANGED <<state, requested, filled, fills, pos, entry, remaining, callerVars, market,
                    listed, traded, resting>>
    BY <1>7 DEF AutoResolveScan, Crash
  <2>2. got' = {} \/ UNCHANGED <<got, cur, attempts>>
    BY <1>7 DEF AutoResolveScan, Crash, Rest
  <2>3. BookInv' /\ RowsKept
    BY <2>1, QuietBook DEF Resolved
  <2>4. listed' \subseteq traded'
    BY <2>1 DEF PositionInv, WithinRequest
  <2> QED
    BY <2>1, <2>2, <2>3, <2>4, VenueQuiet
<1>8. ASSUME NEW m \in Markets, MarketEnds(m) \/ MarketResolves(m)
      PROVE  BookInv' /\ WithinRequest'
  <2>1. UNCHANGED <<state, requested, filled, fills, pos, entry, remaining, callerVars,
                    listed, traded, resting, got, cur, attempts>>
    BY <1>8 DEF MarketEnds, MarketResolves
  <2>2. ASSUME NEW t \in Trades, Resolved(t) PROVE Resolved(t)'
    BY <1>8, <2>2, TradesAssumption DEF MarketEnds, MarketResolves, Resolved, IInv, TypeOK
  <2> QED
    BY <1>1, <2>1, <2>2, QuietBook
<1>9. ASSUME \/ \E o \in Orders : VenueTrade(o) \/ VenueDrop(o)
             \/ \E f \in FillIds : VenueList(f)
      PROVE  BookInv' /\ WithinRequest'
  <2>1. UNCHANGED <<state, requested, filled, fills, pos, entry, remaining, callerVars, market>>
    BY <1>9 DEF VenueTrade, VenueDrop, VenueList
  <2> QED
    BY <1>9, <2>1, QuietBook, VenueWithin DEF Resolved
<1>10. CASE UNCHANGED vars
  <2>1. UNCHANGED <<state, requested, filled, fills, pos, entry, remaining, callerVars, market,
                    listed, traded, resting, got, cur, attempts>>
    BY <1>10 DEF vars
  <2> QED
    BY <1>1, <2>1, QuietBook DEF Resolved
<1> QED
  BY <1>2, <1>3, <1>4, <1>5, <1>6, <1>7, <1>8, <1>9, <1>10, QueueBook, ApplyBook, LateBook DEF Next

\* Empty books satisfy the invariants on positions.
LEMMA PositionInvInit == Init => PositionInv
<1> SUFFICES ASSUME Init PROVE PositionInv
  OBVIOUS
<1>1. UnfilledUntilSuccess /\ ClosesFollowEntry /\ RowFollowsEntry /\ WithinRequest
  BY DEF Init, UnfilledUntilSuccess, ClosesFollowEntry, RowFollowsEntry, WithinRequest
<1>2. CloseFits /\ FinalIsFlat /\ ExitRequestedHasClose
  BY DEF Init, CloseFits, FinalIsFlat, ExitRequestedHasClose, FINAL_POSITION_STATES
<1>3. PositionMatchesFills
  <2>1. \A t \in Trades : OpenFills(fills, t) = {} /\ CloseFills(fills, t) = {}
    BY DEF Init, OpenFills, CloseFills
  <2> QED
    <3>1. Cardinality({}) = 0
      BY FS_EmptySet
    <3> QED
      BY <2>1, <3>1 DEF Init, PositionMatchesFills
<1> QED
  BY <1>1, <1>2, <1>3 DEF PositionInv

\* The two invariants hold together in every reachable state.
LEMMA PositionsInductive == Spec => [](IInv /\ PositionInv)
BY IInvInit, IInvNext, PositionInvInit, PositionInvNext, PTL DEF Spec

\* Until its market is settled, the shares of a trade are what its stored fills
\* say: whatever the venue still trades for orders the worker gave up on, and
\* however often rows are requeued, reconciled or auto-resolved.  It sold more
\* than it bought only if a CLOSE was queued from a row loaded before another
\* CLOSE booked its fills (outbox.py:216), and is under review only then.
THEOREM PositionsMatchFills == Spec => []PositionMatchesFills
<1>1. PositionInv => PositionMatchesFills
  BY DEF PositionInv
<1> QED
  BY <1>1, PositionsInductive, PTL

\* A position marked EXIT_REQUESTED always has an active CLOSE, so the mark
\* cannot lock a position that nothing will sell.
THEOREM ExitsAreUnderWay == Spec => []ExitRequestedHasClose
<1>1. PositionInv => ExitRequestedHasClose
  BY DEF PositionInv
<1> QED
  BY <1>1, PositionsInductive, PTL

-----------------------------------------------------------------------------
(***************************************************************************)
(* 4. Entries: what a refusal proves                                       *)
(***************************************************************************)

\* Nothing new is traded or placed for an OPEN that had nothing.
VenueHolds ==
  /\ Mode = "PAPER" => traded' = {} /\ resting' = {}
  /\ \A t \in Trades : Untraded(OpenOf(t)) => Untraded(OpenOf(t))'

\* No OPEN becomes a take-profit, and one that returns to the queue or is given
\* up had nothing at the venue, or the operator requeued it.
EntriesHold ==
  \A t \in Trades :
    LET r == OpenOf(t) IN
    /\ takeProfit'[r] = takeProfit[r]
    /\ requeues'[r] = 0 =>
         /\ requeues[r] = 0
         /\ state'[r] \in UNSENT => state[r] \in UNSENT \/ Untraded(r)

\* The worker is not submitting, or what it holds stays.
HandHolds ==
  \/ pc' \notin { "submitting", "answered" }
  \/ UNCHANGED <<pc, cur, answer, got, attempts>> /\ listed \subseteq listed'

\* Where nothing is traded, nothing is lost.
LEMMA VenueStill ==
  ASSUME EntryEvidence, traded' \subseteq traded, resting' \subseteq resting
  PROVE  VenueHolds
<1>1. Mode = "PAPER" => traded' = {} /\ resting' = {}
  BY DEF EntryEvidence
<1>2. \A t \in Trades : Untraded(OpenOf(t)) => Untraded(OpenOf(t))'
  BY DEF Untraded, OpenOf
<1> QED
  BY <1>1, <1>2 DEF VenueHolds

\* The evidence is kept by every step of this shape.
LEMMA EvidenceKept ==
  ASSUME IInv, EntryEvidence, VenueHolds, EntriesHold, HandHolds
  PROVE  EntryEvidence'
<1>1. Mode = "PAPER" => traded' = {} /\ resting' = {}
  BY DEF VenueHolds
<1>2. ASSUME NEW t \in Trades PROVE ~takeProfit'[OpenOf(t)]
  BY Zenon DEF EntriesHold, EntryEvidence
<1>3. ASSUME NEW t \in Trades, requeues'[OpenOf(t)] = 0
      PROVE  LET r == OpenOf(t) IN
             /\ state'[r] \in UNSENT => Untraded(r)'
             /\ pc' = "submitting" /\ cur' = r => Untraded(r)'
             /\ pc' = "answered" /\ cur' = r /\ answer' \in { "rejected", "failed", "denied" } => Untraded(r)'
             /\ pc' = "answered" /\ cur' = r /\ answer' = "confirmed" => ConfirmedFills(r)' # {}
  <2> DEFINE r == OpenOf(t)
  <2>1. requeues[r] = 0 /\ (state'[r] \in UNSENT => state[r] \in UNSENT \/ Untraded(r))
    BY <1>3 DEF EntriesHold
  <2>2. /\ state[r] \in UNSENT => Untraded(r)
        /\ pc = "submitting" /\ cur = r => Untraded(r)
        /\ pc = "answered" /\ cur = r /\ answer \in { "rejected", "failed", "denied" } => Untraded(r)
        /\ pc = "answered" /\ cur = r /\ answer = "confirmed" => ConfirmedFills(r) # {}
    BY <2>1 DEF EntryEvidence
  <2>3. Untraded(r) => Untraded(r)'
    BY DEF VenueHolds
  <2>4. ASSUME UNCHANGED <<pc, cur, answer, got, attempts>>, listed \subseteq listed'
        PROVE  ConfirmedFills(r) # {} => ConfirmedFills(r)' # {}
    <3>1. ConfirmedFills(r) \subseteq ConfirmedFills(r)'
      BY <2>4 DEF ConfirmedFills, Fetched, SharesOf, CurrentOrder, OpenOf
    <3> QED
      BY <3>1
  <2> HIDE DEF r
  <2>5. state'[r] \in UNSENT => Untraded(r)'
    BY <2>1, <2>2, <2>3
  <2>6. CASE pc' \notin { "submitting", "answered" }
    BY <2>5, <2>6 DEF r
  <2>7. CASE UNCHANGED <<pc, cur, answer, got, attempts>> /\ listed \subseteq listed'
    <3>1. pc' = pc /\ cur' = cur /\ answer' = answer
      BY <2>7
    <3>2. ConfirmedFills(r) # {} => ConfirmedFills(r)' # {}
      BY <2>4, <2>7
    <3> QED
      BY <2>2, <2>3, <2>5, <3>1, <3>2 DEF r
  <2> QED
    BY <2>6, <2>7 DEF HandHolds
<1> QED
  BY <1>1, <1>2, <1>3 DEF EntryEvidence

\* One request ends in s; rows may be inserted next to it.
LEMMA EndedEntries ==
  ASSUME IInv, EntryEvidence, NEW r \in Requests, NEW s, EndsIn(r, s),
         \A t \in Trades : takeProfit'[OpenOf(t)] = takeProfit[OpenOf(t)],
         UNCHANGED requeues,
         IsOpen(r) /\ requeues[r] = 0 /\ s \in UNSENT => state[r] \in UNSENT \/ Untraded(r)
  PROVE  EntriesHold
<1> SUFFICES ASSUME NEW t \in Trades, requeues[OpenOf(t)] = 0, state'[OpenOf(t)] \in UNSENT
             PROVE  state[OpenOf(t)] \in UNSENT \/ Untraded(OpenOf(t))
  BY DEF EntriesHold
<1>1. OpenOf(t) \in Requests /\ IsOpen(OpenOf(t))
  BY RequestShapes
<1>2. CASE OpenOf(t) = r
  BY <1>1, <1>2 DEF EndsIn
<1>3. CASE OpenOf(t) # r
  BY <1>1, <1>3 DEF EndsIn, UNSENT
<1> QED
  BY <1>2, <1>3

\* A fill queues its take-profit as a CLOSE.
LEMMA FilledTakeProfit ==
  ASSUME IInv, NEW r \in Requests, NEW S, NEW s, NEW n, NEW tp \in BOOLEAN,
         FinalizeFilled(r, S, s, n, tp)
  PROVE  \A t \in Trades : takeProfit'[OpenOf(t)] = takeProfit[OpenOf(t)]
<1> DEFINE c == NextClose(TradeOf(r))
<1>1. TradeOf(r) \in Trades /\ takeProfit \in [Requests -> BOOLEAN]
  BY RequestShapes DEF IInv, TypeOK
<1>2. version[TradeOf(r)] \in Nat
  BY <1>1, BoundsAssumption DEF IInv, TypeOK
<1>3. \A t \in Trades : OpenOf(t) # c /\ OpenOf(t) \in Requests
  <2>1. \A t \in Trades : OpenOf(t) \in Requests /\ OpenOf(t)[2] = 0
    BY RequestShapes DEF IsOpen
  <2>2. c[2] # 0
    BY <1>2 DEF NextClose
  <2> QED
    BY <2>1, <2>2
<1>4. takeProfit' = IF tp THEN [takeProfit EXCEPT ![c] = TRUE] ELSE takeProfit
  BY DEF FinalizeFilled
<1> HIDE DEF c
<1> QED
  BY <1>1, <1>3, <1>4

\* A whole answer or a failed finalize writes the state of one request.
LEMMA WrittenEndsIn ==
  ASSUME IInv, NEW r \in Requests, NEW s, state' = [state EXCEPT ![r] = s]
  PROVE  EndsIn(r, s)
BY DEF IInv, TypeOK, EndsIn

\* Rows in the queue have nothing at the venue; the worker that drops one, or
\* takes one up, learns nothing new.
LEMMA QueueEvidence ==
  ASSUME IInv, EntryEvidence, NEW r \in Requests, ClaimStep(r) \/ Preflight(r)
  PROVE  EntryEvidence'
<1>1. /\ UNCHANGED <<traded, resting, listed, requeues, takeProfit>>
      /\ state[r] \in { "READY", "CLAIMED" }
  BY DEF ClaimStep, ClaimExpired, Claim, Claimable, Preflight, PreflightReject,
         PreflightReview, PreflightRequeue, BeginSubmit, IInv, InHand
<1>2. state[r] \in UNSENT
  BY <1>1 DEF UNSENT
<1>3. VenueHolds
  BY <1>1, VenueStill
<1>4. PICK s : state' = [state EXCEPT ![r] = s]
  BY FinalizeState DEF ClaimStep, ClaimExpired, Claim, Preflight, PreflightReject,
         PreflightReview, PreflightRequeue, BeginSubmit
<1>5. EndsIn(r, s)
  BY <1>4, WrittenEndsIn
<1>6. EntriesHold
  BY <1>1, <1>2, <1>5, EndedEntries
<1>7. CASE ~BeginSubmit(r)
  <2>1. \/ pc' \notin { "submitting", "answered" }
        \/ UNCHANGED <<pc, cur, answer, got, attempts>> /\ listed' = listed
    BY <1>7 DEF ClaimStep, ClaimExpired, Claim, Preflight, PreflightReject,
         PreflightReview, PreflightRequeue, Rest
  <2> QED
    BY <1>3, <1>6, <2>1, EvidenceKept DEF HandHolds
<1>8. CASE BeginSubmit(r)
  <2>1. pc' = "submitting" /\ cur' = r /\ state'[r] = "SUBMITTING"
    BY <1>8 DEF BeginSubmit, IInv, TypeOK
  <2>2. ASSUME NEW t \in Trades, requeues[OpenOf(t)] = 0, state[OpenOf(t)] \in UNSENT
        PROVE  Untraded(OpenOf(t)) /\ Untraded(OpenOf(t))'
    BY <1>3, <2>2 DEF EntryEvidence, VenueHolds
  <2>3. ASSUME NEW t \in Trades, requeues[OpenOf(t)] = 0, state'[OpenOf(t)] \in UNSENT
        PROVE  Untraded(OpenOf(t))'
    BY <1>1, <1>3, <1>6, <2>2, <2>3 DEF EntriesHold, VenueHolds
  <2>4. ASSUME NEW t \in Trades, requeues[OpenOf(t)] = 0, cur' = OpenOf(t)
        PROVE  Untraded(OpenOf(t))'
    BY <1>2, <2>1, <2>2, <2>4
  <2>5. \A t \in Trades : ~takeProfit'[OpenOf(t)]
    BY <1>1 DEF EntryEvidence
  <2> QED
    BY <1>1, <1>3, <2>1, <2>3, <2>4, <2>5 DEF EntryEvidence, VenueHolds
<1> QED
  BY <1>7, <1>8

\* A LIVE order that trades is listed when the answer says CONFIRMED, and a
\* refusal is heard only of an order that never reached the book.
LEMMA GatewayEvidence ==
  ASSUME ~ListingLag, IInv, EntryEvidence, NEW r \in Requests, Gateway(r)
  PROVE  EntryEvidence'
<1>1. /\ pc = "submitting" /\ cur = r /\ pc' = "answered" /\ state[r] = "SUBMITTING"
      /\ UNCHANGED <<state, requeues, takeProfit, cur, attempts>>
  BY DEF Gateway, PaperAnswer, LiveNotPlaced, LiveTraded, LiveResting, Answered, IInv, InHand
<1>2. \A t \in Trades : ~takeProfit'[OpenOf(t)]
  BY <1>1, Zenon DEF EntryEvidence
<1>3. \A t \in Trades : OpenOf(t) = r => ~takeProfit[r] /\ (requeues[r] = 0 => Untraded(r))
  BY <1>1, Zenon DEF EntryEvidence
<1>4. /\ Mode = "PAPER" => traded' = {} /\ resting' = {}
      /\ \A f \in traded' \ traded : f[1][1] = r
      /\ \A o \in resting' \ resting : o[1] = r
  <2>1. CASE PaperAnswer(r) \/ LiveNotPlaced(r)
    BY <2>1 DEF PaperAnswer, LiveNotPlaced, EntryEvidence
  <2>2. CASE LiveTraded(r)
    BY <2>2 DEF LiveTraded, FirstShares, CurrentOrder
  <2>3. CASE LiveResting(r)
    BY <2>3 DEF LiveResting, CurrentOrder
  <2> QED
    BY <2>1, <2>2, <2>3 DEF Gateway
<1>5. ASSUME NEW t \in Trades, OpenOf(t) # r, Untraded(OpenOf(t)) PROVE Untraded(OpenOf(t))'
  <2>1. PICK q : q = OpenOf(t)
    OBVIOUS
  <2>2. (\A f \in traded' : f[1][1] # q) /\ (\A o \in resting' : o[1] # q)
    BY <1>4, <1>5, <2>1 DEF Untraded
  <2> QED
    BY <2>1, <2>2 DEF Untraded, OpenOf
<1>6. ASSUME NEW t \in Trades, OpenOf(t) = r, requeues[r] = 0
      PROVE  /\ answer' \in { "rejected", "failed", "denied" } => Untraded(r)'
             /\ answer' = "confirmed" => ConfirmedFills(r)' # {}
  <2>0. ~takeProfit[r] /\ Untraded(r)
    BY <1>3, <1>6
  <2>1. CASE PaperAnswer(r)
    <3>1. Untraded(r)'
      BY <2>0, <2>1 DEF PaperAnswer, Untraded
    <3>2. answer' = "confirmed" => got' # {}
      <4>1. ASSUME NEW n \in 1 .. Size, got' = FirstShares(CurrentOrder(r), n) PROVE got' # {}
        <5>1. <<CurrentOrder(r), 1>> \in FirstShares(CurrentOrder(r), n)
          BY SizeAssumption DEF FirstShares
        <5> QED
          BY <4>1, <5>1
      <4> QED
        BY <2>1, <4>1 DEF PaperAnswer, Answered
    <3> QED
      BY <2>1, <3>1, <3>2 DEF PaperAnswer, ConfirmedFills
  <2>2. CASE LiveNotPlaced(r)
    <3>1. Untraded(r)'
      BY <2>0, <2>2 DEF LiveNotPlaced, Untraded
    <3>2. answer' # "confirmed"
      BY <2>2 DEF LiveNotPlaced, Answered
    <3> QED
      BY <3>1, <3>2
  <2>3. CASE LiveTraded(r)
    <3>1. PICK n \in 1 .. Size :
            \/ answer' = "confirmed" /\ listed' = listed \cup FirstShares(CurrentOrder(r), n)
            \/ answer' \in { "pending", "unknown" }
      BY <2>3 DEF LiveTraded, Answered
    <3>2. <<CurrentOrder(r), 1>> \in FirstShares(CurrentOrder(r), n)
      BY SizeAssumption DEF FirstShares
    <3>3. CurrentOrder(r)' = CurrentOrder(r) /\ Mode # "PAPER"
      BY <1>1, <2>3 DEF CurrentOrder, LiveTraded
    <3>4. answer' = "confirmed" => <<CurrentOrder(r), 1>> \in ConfirmedFills(r)'
      BY <3>1, <3>2, <3>3 DEF ConfirmedFills, Fetched, SharesOf
    <3> QED
      BY <3>1, <3>4
  <2>4. CASE LiveResting(r)
    BY <2>0, <2>4 DEF LiveResting, Answered
  <2> QED
    BY <2>1, <2>2, <2>3, <2>4 DEF Gateway
<1>7. \A t \in Trades : requeues[OpenOf(t)] = 0 /\ state[OpenOf(t)] \in UNSENT => Untraded(OpenOf(t))'
  <2>1. "SUBMITTING" \notin UNSENT
    BY DEF UNSENT
  <2> QED
    BY <1>1, <1>5, <2>1 DEF EntryEvidence
<1> QED
  BY <1>1, <1>2, <1>4, <1>6, <1>7 DEF EntryEvidence

\* The PAPER venue has nothing of anybody.
LEMMA PaperUntraded ==
  ASSUME EntryEvidence, Mode = "PAPER", NEW r
  PROVE  Untraded(r)
BY DEF EntryEvidence, Untraded

\* An OPEN is rejected only on an answer that proves nothing was bought.
LEMMA ApplyEvidence ==
  ASSUME IInv, EntryEvidence, NEW r \in Requests, Apply(r)
  PROVE  EntryEvidence'
<1>1. /\ pc = "answered" /\ cur = r /\ state[r] = "SUBMITTING" /\ pc' = "idle"
      /\ UNCHANGED <<traded, resting, listed, requeues>>
  BY DEF Apply, ApplyRejected, ApplyConfirmed, ApplyPending, FinishSubmitException, Rest,
         IInv, InHand
<1>2. VenueHolds /\ HandHolds
  BY <1>1, VenueStill DEF HandHolds
<1>3. IsOpen(r) /\ requeues[r] = 0 =>
        /\ answer \in { "rejected", "failed", "denied" } => Untraded(r)
        /\ answer = "confirmed" => ConfirmedFills(r) # {}
  <2>1. IsOpen(r) => \E t \in Trades : r = OpenOf(t)
    BY RequestShapes
  <2> QED
    BY <1>1, <2>1 DEF EntryEvidence
<1>4. CASE ApplyRejected(r)
  <2>1. EndsIn(r, "REJECTED") /\ UNCHANGED takeProfit
    BY <1>4, FinalizeState, WrittenEndsIn DEF ApplyRejected
  <2>2. IsOpen(r) /\ requeues[r] = 0 => Untraded(r)
    BY <1>3, <1>4 DEF ApplyRejected
  <2>3. EntriesHold
    BY <1>1, <2>1, <2>2, EndedEntries
  <2> QED
    BY <1>2, <2>3, EvidenceKept
<1>5. CASE ApplyConfirmed(r)
  <2> DEFINE S == ConfirmedFills(r)
             s == FillState(r, S)
  <2>1. PICK tp \in BOOLEAN : FinalizeFilled(r, S, s, Cardinality(S), tp)
    BY <1>5 DEF ApplyConfirmed
  <2>2. s \in { "FILLED", "PARTIALLY_FILLED_FINAL" }
    BY DEF FillState
  <2>3. s \notin UNSENT
    BY <2>2 DEF UNSENT
  <2>4. state[r] # "none"
    BY <1>1
  <2> HIDE DEF S, s
  <2>5. EndsIn(r, s)
    BY <2>1, <2>4, FilledState, Zenon
  <2>6. \A t \in Trades : takeProfit'[OpenOf(t)] = takeProfit[OpenOf(t)]
    BY <2>1, FilledTakeProfit, Zenon
  <2>7. EntriesHold
    BY <1>1, <2>3, <2>5, <2>6, EndedEntries
  <2> QED
    BY <1>2, <2>7, EvidenceKept
<1>6. CASE ApplyPending(r)
  <2>1. EndsIn(r, "RECONCILING") /\ UNCHANGED takeProfit /\ "RECONCILING" \notin UNSENT
    BY <1>6, WrittenEndsIn DEF ApplyPending, UNSENT
  <2>2. EntriesHold
    BY <1>1, <2>1, EndedEntries
  <2> QED
    BY <1>2, <2>2, EvidenceKept
<1>7. CASE FinishSubmitException(r)
  <2>1. PICK s \in { "READY", "REJECTED", "MANUAL_REVIEW_REQUIRED" } :
          /\ state' = [state EXCEPT ![r] = s]
          /\ s = "READY" => Mode = "PAPER"
          /\ s = "REJECTED" => answer = "denied" \/ Mode = "PAPER"
    BY <1>7, FinalizeState DEF FinishSubmitException, PaperRetry, RequeueFresh
  <2>2. EndsIn(r, s) /\ UNCHANGED takeProfit
    BY <1>7, <2>1, WrittenEndsIn DEF FinishSubmitException
  <2>3. IsOpen(r) /\ requeues[r] = 0 /\ s \in UNSENT => Untraded(r)
    BY <1>3, <2>1, PaperUntraded DEF UNSENT
  <2>4. EntriesHold
    BY <1>1, <2>2, <2>3, EndedEntries
  <2> QED
    BY <1>2, <2>4, EvidenceKept
<1> QED
  BY <1>4, <1>5, <1>6, <1>7 DEF Apply

\* Reconciliation never fails an OPEN, and auto-resolve never touches one.
LEMMA LateEvidence ==
  ASSUME IInv, EntryEvidence, NEW r \in Requests, Reconcile(r) \/ AutoResolve(r)
  PROVE  EntryEvidence'
<1>1. /\ pc' \in { "idle", "resolving" } /\ state[r] # "none"
      /\ traded' = traded /\ resting' \subseteq resting /\ UNCHANGED requeues
  BY DEF Reconcile, ReconcileTimeout, ReconcileRequeue, ReconcileFills, ReconcileGtdExpired,
         Reconcilable, AutoResolve, AutoResolveFilled, AutoResolveRejected, LeaveBatch,
         IInv, BatchOfCloses
<1>2. VenueHolds /\ HandHolds
  BY <1>1, VenueStill DEF HandHolds
<1>3. ASSUME NEW S, NEW s \in { "FILLED", "PARTIALLY_FILLED_FINAL" }, NEW n,
             NEW tp \in BOOLEAN, FinalizeFilled(r, S, s, n, tp)
      PROVE  EntryEvidence'
  <2>1. s \notin UNSENT
    BY DEF UNSENT
  <2>2. EndsIn(r, s)
    BY <1>1, <1>3, FilledState
  <2>3. \A t \in Trades : takeProfit'[OpenOf(t)] = takeProfit[OpenOf(t)]
    BY <1>3, FilledTakeProfit
  <2>4. EntriesHold
    BY <1>1, <2>1, <2>2, <2>3, EndedEntries
  <2> QED
    BY <1>2, <2>4, EvidenceKept
<1>4. CASE ReconcileTimeout(r)
  <2>1. EndsIn(r, "MANUAL_REVIEW_REQUIRED") /\ "MANUAL_REVIEW_REQUIRED" \notin UNSENT
        /\ UNCHANGED takeProfit
    BY <1>4, FinalizeState, WrittenEndsIn DEF ReconcileTimeout, UNSENT
  <2>2. EntriesHold
    BY <1>1, <2>1, EndedEntries
  <2> QED
    BY <1>2, <2>2, EvidenceKept
<1>5. CASE ReconcileRequeue(r)
  <2>1. EndsIn(r, "READY") /\ UNCHANGED takeProfit /\ Untraded(r)
    BY <1>5, WrittenEndsIn, PaperUntraded DEF ReconcileRequeue, RequeueFresh
  <2>2. EntriesHold
    BY <1>1, <2>1, EndedEntries
  <2> QED
    BY <1>2, <2>2, EvidenceKept
<1>6. CASE ReconcileGtdExpired(r) \/ AutoResolveRejected(r)
  <2>1. ~IsOpen(r)
    <3>1. CASE ReconcileGtdExpired(r)
      <4>1. takeProfit[r]
        BY <3>1 DEF ReconcileGtdExpired, GtdExpired
      <4>2. IsOpen(r) => \E t \in Trades : r = OpenOf(t)
        BY RequestShapes
      <4> QED
        BY <4>1, <4>2 DEF EntryEvidence
    <3>2. CASE AutoResolveRejected(r)
      BY <3>2 DEF AutoResolveRejected, LeaveBatch, IInv, BatchOfCloses
    <3> QED
      BY <1>6, <3>1, <3>2
  <2>2. PICK s : EndsIn(r, s)
    BY <1>6, FinalizeState, WrittenEndsIn DEF ReconcileGtdExpired, AutoResolveRejected
  <2>3. UNCHANGED takeProfit
    BY <1>6 DEF ReconcileGtdExpired, AutoResolveRejected
  <2>4. EntriesHold
    BY <1>1, <2>1, <2>2, <2>3, EndedEntries
  <2> QED
    BY <1>2, <2>4, EvidenceKept
<1>7. CASE ReconcileFills(r)
  <2> DEFINE s == FillState(r, Fetched(r))
  <2>1. s \in { "FILLED", "PARTIALLY_FILLED_FINAL" }
    BY DEF FillState
  <2>2. PICK tp \in BOOLEAN : FinalizeFilled(r, Fetched(r), s, Cardinality(Fetched(r)), tp)
    BY <1>7 DEF ReconcileFills
  <2> HIDE DEF s
  <2> QED
    BY <1>3, <2>1, <2>2
<1>8. CASE AutoResolveFilled(r)
  <2>1. FinalizeFilled(r, Fetched(r), "FILLED", filled[r], FALSE)
    BY <1>8 DEF AutoResolveFilled
  <2> QED
    BY <1>3, <2>1
<1> QED
  BY <1>4, <1>5, <1>6, <1>7, <1>8 DEF Reconcile, AutoResolve

\* The operator fails an OPEN only as MANUAL_REVIEW_FAILED; a requeue is counted.
LEMMA OperatorEvidence ==
  ASSUME IInv, EntryEvidence, NEW r \in Requests, Operator(r)
  PROVE  EntryEvidence'
<1>1. UNCHANGED <<pc, cur, answer, got, attempts, listed, traded, resting, takeProfit>>
  BY DEF Operator, OperatorRequeue, MarkFailedNoFill, OperatorReconcile
<1>2. VenueHolds /\ HandHolds
  BY <1>1, VenueStill DEF HandHolds
<1>3. CASE MarkFailedNoFill(r) \/ OperatorReconcile(r)
  <2>1. PICK s \in { "MANUAL_REVIEW_FAILED", "RECONCILING" } : EndsIn(r, s)
    BY <1>3, FinalizeState, WrittenEndsIn DEF MarkFailedNoFill, OperatorReconcile
  <2>2. s \notin UNSENT /\ UNCHANGED requeues
    BY <1>3, <2>1 DEF MarkFailedNoFill, OperatorReconcile, UNSENT
  <2>3. EntriesHold
    BY <1>1, <2>1, <2>2, EndedEntries
  <2> QED
    BY <1>2, <2>3, EvidenceKept
<1>4. CASE OperatorRequeue(r)
  <2>1. /\ requeues'[r] # 0
        /\ \A q \in Requests \ { r } : requeues'[q] = requeues[q] /\ state'[q] = state[q]
    BY <1>4, BoundsAssumption DEF OperatorRequeue, IInv, TypeOK
  <2>2. \A t \in Trades : OpenOf(t) \in Requests
    BY RequestShapes
  <2>3. EntriesHold
    BY <1>1, <2>1, <2>2 DEF EntriesHold
  <2> QED
    BY <1>2, <2>3, EvidenceKept
<1> QED
  BY <1>3, <1>4 DEF Operator

\* Every step keeps the evidence.
LEMMA EvidenceNext ==
  ASSUME ~ListingLag
  PROVE  IInv /\ EntryEvidence /\ [Next]_vars => EntryEvidence'
<1> SUFFICES ASSUME IInv, EntryEvidence, [Next]_vars PROVE EntryEvidence'
  OBVIOUS
<1>1. ASSUME UNCHANGED <<state, takeProfit, requeues>> PROVE EntriesHold
  BY <1>1 DEF EntriesHold
<1>2. ASSUME UNCHANGED <<pc, cur, answer, got, attempts, listed>> PROVE HandHolds
  BY <1>2 DEF HandHolds
<1>3. ASSUME UNCHANGED <<traded, resting>> PROVE VenueHolds
  BY <1>3, VenueStill
<1>4. ASSUME NEW t \in Trades, EnqueueOpen(t) PROVE EntryEvidence'
  <2>1. state[OpenOf(t)] = "none" /\ OpenOf(t) \in Requests
        /\ \E s : state' = [state EXCEPT ![OpenOf(t)] = s]
    BY <1>4, RequestShapes DEF EnqueueOpen
  <2>2. state[OpenOf(t)] \in UNSENT
    BY <2>1 DEF UNSENT
  <2>3. UNCHANGED <<traded, resting, pc, cur, answer, got, attempts, listed, takeProfit, requeues>>
    BY <1>4 DEF EnqueueOpen
  <2>4. EntriesHold
    BY <2>1, <2>2, <2>3, WrittenEndsIn, EndedEntries
  <2> QED
    BY <1>2, <1>3, <2>3, <2>4, EvidenceKept
<1>5. ASSUME NEW t \in Trades, QueuesClose(t) PROVE EntryEvidence'
  <2> DEFINE c == NextClose(t)
  <2>1. version[t] \in 0 .. MaxCloses /\ version[t] < MaxCloses
    BY <1>5 DEF QueuesClose, IInv, TypeOK
  <2>2. c \in Requests /\ ~IsOpen(c)
    BY <2>1, BoundsAssumption DEF NextClose, Requests, IsOpen
  <2>3. state' = [state EXCEPT ![c] = "READY"]
        /\ UNCHANGED <<traded, resting, pc, cur, answer, got, attempts, listed, takeProfit, requeues>>
    BY <1>5 DEF QueuesClose
  <2> HIDE DEF c
  <2>4. EntriesHold
    BY <2>2, <2>3, WrittenEndsIn, EndedEntries
  <2> QED
    BY <1>2, <1>3, <2>3, <2>4, EvidenceKept
<1>6. ASSUME NEW t \in Trades, Settle(t) PROVE EntryEvidence'
  <2>1. UNCHANGED <<state, takeProfit, requeues, traded, resting, pc, cur, answer, got, attempts, listed>>
    BY <1>6 DEF Settle, SettlePaper, SettleLive, OperatorSettle, MarkResolved
  <2> QED
    BY <1>1, <1>2, <1>3, <2>1, EvidenceKept
<1>7. ASSUME NEW r \in Requests, Clock(r) PROVE EntryEvidence'
  <2>1. UNCHANGED <<state, takeProfit, requeues, traded, resting, pc, cur, answer, got, attempts, listed>>
    BY <1>7 DEF Clock, Expire, Age
  <2> QED
    BY <1>1, <1>2, <1>3, <2>1, EvidenceKept
<1>8. CASE AutoResolveScan \/ Crash
  <2>1. UNCHANGED <<state, takeProfit, requeues, traded, resting>>
        /\ pc' \notin { "submitting", "answered" }
    BY <1>8 DEF AutoResolveScan, Crash, Rest
  <2> QED
    BY <1>1, <1>3, <2>1, EvidenceKept DEF HandHolds
<1>9. ASSUME NEW m \in Markets, MarketEnds(m) \/ MarketResolves(m) PROVE EntryEvidence'
  <2>1. UNCHANGED <<state, takeProfit, requeues, traded, resting, pc, cur, answer, got, attempts, listed>>
    BY <1>9 DEF MarketEnds, MarketResolves
  <2> QED
    BY <1>1, <1>2, <1>3, <2>1, EvidenceKept
<1>10. ASSUME NEW o \in Orders, VenueTrade(o) PROVE EntryEvidence'
  <2>1. PICK n : o \in resting /\ traded' = traded \cup { <<o, n>> }
    BY <1>10 DEF VenueTrade
  <2>2. UNCHANGED <<state, takeProfit, requeues, resting, pc, cur, answer, got, attempts, listed>>
    BY <1>10 DEF VenueTrade
  <2>3. Mode # "PAPER"
    BY <2>1 DEF EntryEvidence
  <2>4. ASSUME NEW t \in Trades, Untraded(OpenOf(t)) PROVE Untraded(OpenOf(t))'
    <3>1. PICK q : q = OpenOf(t)
      OBVIOUS
    <3>2. (\A f \in traded' : f[1][1] # q) /\ (\A p \in resting' : p[1] # q)
      BY <2>1, <2>2, <2>4, <3>1 DEF Untraded
    <3> QED
      BY <3>1, <3>2 DEF Untraded, OpenOf
  <2>5. VenueHolds
    BY <2>3, <2>4 DEF VenueHolds
  <2> QED
    BY <1>1, <1>2, <2>2, <2>5, EvidenceKept
<1>11. ASSUME NEW o \in Orders, VenueDrop(o) PROVE EntryEvidence'
  <2>1. UNCHANGED <<state, takeProfit, requeues, pc, cur, answer, got, attempts, listed, traded>>
        /\ resting' \subseteq resting
    BY <1>11 DEF VenueDrop
  <2> QED
    BY <1>1, <1>2, <2>1, VenueStill, EvidenceKept
<1>12. ASSUME NEW f \in FillIds, VenueList(f) PROVE EntryEvidence'
  <2>1. UNCHANGED <<state, takeProfit, requeues, pc, cur, answer, got, attempts, traded, resting>>
        /\ listed \subseteq listed'
    BY <1>12 DEF VenueList
  <2> QED
    BY <1>1, <1>3, <2>1, EvidenceKept DEF HandHolds
<1>13. CASE UNCHANGED vars
  <2>1. UNCHANGED <<state, takeProfit, requeues, traded, resting, pc, cur, answer, got, attempts, listed>>
    BY <1>13 DEF vars
  <2> QED
    BY <1>1, <1>2, <1>3, <2>1, EvidenceKept
<1>14. ASSUME NEW t \in Trades, Caller(t) PROVE EntryEvidence'
  <2>1. CASE CallerLoads(t) \/ CallerDrops(t)
    <3>1. UNCHANGED <<state, takeProfit, requeues, traded, resting, pc, cur, answer, got, attempts, listed>>
      BY <2>1 DEF CallerLoads, CallerDrops
    <3> QED
      BY <1>1, <1>2, <1>3, <3>1, EvidenceKept
  <2> QED
    BY <1>5, <1>14, <2>1, ClosesQueued DEF Caller
<1>15. ASSUME NEW t \in Trades, EnqueueClose(t) PROVE EntryEvidence'
  BY <1>5, <1>15, ClosesQueued
<1> QED
  BY <1>4, <1>6, <1>7, <1>8, <1>9, <1>10, <1>11, <1>12, <1>13, <1>14, <1>15,
     QueueEvidence, GatewayEvidence, ApplyEvidence, LateEvidence, OperatorEvidence
  DEF Next

\* Nothing is traded before anything is sent.
LEMMA EvidenceInit == Init => EntryEvidence
<1> SUFFICES ASSUME Init PROVE EntryEvidence
  OBVIOUS
<1>1. \A t \in Trades : OpenOf(t) \in Requests
  BY RequestShapes
<1>2. \A t \in Trades : Untraded(OpenOf(t))
  BY DEF Init, Untraded
<1>3. pc = "idle" /\ traded = {} /\ resting = {} /\ \A t \in Trades : ~takeProfit[OpenOf(t)]
  BY <1>1 DEF Init
<1> QED
  BY <1>2, <1>3 DEF EntryEvidence

\* As long as a settled trade is listed when its answer says CONFIRMED, an OPEN
\* that ended REJECTED or EXPIRED without the operator's requeue bought nothing:
\* no crash, lost answer, delayed order or late trade leaves shares behind a
\* request the system reports as failed.
THEOREM FailedEntriesBoughtNothing ==
  ASSUME ~ListingLag
  PROVE  Spec => []FailedEntryBoughtNothing
<1>1. EntryEvidence => FailedEntryBoughtNothing
  <2> SUFFICES ASSUME EntryEvidence, NEW t \in Trades,
                      state[OpenOf(t)] \in { "REJECTED", "EXPIRED" },
                      requeues[OpenOf(t)] = 0
               PROVE  OpenFills(traded, t) = {}
    BY DEF FailedEntryBoughtNothing
  <2>1. Untraded(OpenOf(t))
    BY DEF EntryEvidence, UNSENT
  <2> QED
    BY <2>1 DEF Untraded, OpenFills
<1>2. IInv /\ EntryEvidence /\ [Next]_vars => EntryEvidence'
  BY EvidenceNext
<1> QED
  BY <1>1, <1>2, IInvInit, IInvNext, EvidenceInit, PTL DEF Spec

-----------------------------------------------------------------------------
(***************************************************************************)
(* 5. Refinement: the four kinds of step of part 2 map to steps of the     *)
(* contract or leave it alone                                              *)
(***************************************************************************)

\* The abstract variables.
Phase == [r \in Requests |-> PhaseOf(state[r])]
Holders == { OpenOf(t) : t \in { u \in Trades : reservation[u] = "held" } }
Entries == { OpenOf(t) : t \in Trades }

\* The phases of the states, for the leaves that compute with them.
LEMMA PhaseValues ==
  ASSUME NEW s \in RequestStates
  PROVE  /\ s \in ACTIVE_REQUEST_STATES <=> PhaseOf(s) \in { "queued", "sent", "review" }
         /\ s = "none" <=> PhaseOf(s) = "absent"
         /\ s \in FAILURE_TERMINAL_STATES <=> PhaseOf(s) = "failed"
         /\ s \in SUCCESS_TERMINAL_STATES <=> PhaseOf(s) = "done"
         /\ s \in { "READY", "AWAITING_APPROVAL" } => PhaseOf(s) = "queued"
         /\ s \in RECONCILABLE_REQUEST_STATES \cup { "MANUAL_REVIEW_REQUIRED" }
              => PhaseOf(s) \in { "sent", "review" }
BY DEF PhaseOf, RequestStates

\* Writing the state of a request writes its phase.
LEMMA PhaseAfter ==
  ASSUME NEW r \in Requests, NEW s,
         state'[r] = s, \A q \in Requests \ { r } : state'[q] = state[q]
  PROVE  Phase' = [Phase EXCEPT ![r] = PhaseOf(s)]
BY DEF Phase

\* The entries that hold exposure, after finalize_request.
LEMMA HoldersAfter ==
  ASSUME TypeOK, NEW r \in Requests, NEW s, s \in TERMINAL_REQUEST_STATES,
         reservation' = ReservationAfterFinalize(r, s)
  PROVE  Holders' = Holders \ { r }
<1>1. CASE IsOpen(r)
  <2>1. r = OpenOf(TradeOf(r)) /\ TradeOf(r) \in Trades
    BY <1>1, RequestShapes
  <2>2. reservation' = [reservation EXCEPT ![TradeOf(r)] = "released"]
    BY <1>1 DEF ReservationAfterFinalize
  <2>3. \A t \in Trades : reservation'[t] = "held" <=> reservation[t] = "held" /\ t # TradeOf(r)
    BY <2>1, <2>2 DEF TypeOK
  <2>4. \A t \in Trades : OpenOf(t) = r <=> t = TradeOf(r)
    BY <2>1, RequestShapes
  <2> QED
    BY <2>3, <2>4 DEF Holders
<1>2. CASE ~IsOpen(r)
  <2>1. r \notin Holders
    BY <1>2, RequestShapes DEF Holders
  <2> QED
    BY <1>2, <2>1 DEF ReservationAfterFinalize, Holders
<1> QED
  BY <1>1, <1>2

\* The instance's variables are the ones above.
LEMMA ContractState ==
  /\ Contract!Init <=> Phase = [r \in Requests |-> "absent"] /\ Holders = {}
  /\ Contract!vars = <<Phase, Holders>>
BY DEF Contract!Init, Contract!vars, Phase, Holders

\* A key is free in the contract when the unique index finds no active row.
LEMMA KeyFreeOfClose ==
  ASSUME IInv, NEW t \in Trades, NEW c \in ClosesOf(t),
         InState(ClosesOf(t), ACTIVE_INDEX_STATES) = {}
  PROVE  Contract!KeyFree(c)
<1> SUFFICES ASSUME NEW q \in Requests, KeyOf(q) = KeyOf(c)
             PROVE  Phase[q] \notin { "queued", "sent", "review" }
  BY DEF Contract!KeyFree, Contract!Live, Phase
<1>1. ~IsOpen(c) /\ TradeOf(c) = t
  BY RequestShapes
<1>2. ~IsOpen(q) /\ TradeOf(q) = t
  BY <1>1 DEF KeyOf
<1>3. state[q] \notin ACTIVE_REQUEST_STATES /\ state[q] \in RequestStates
  BY <1>2, RequestShapes DEF InState, IInv, TypeOK
<1> QED
  BY <1>3, PhaseValues DEF Phase

\* Disposition lets an insert through only when nothing live has its key.
LEMMA KeyFreeOfOpen ==
  ASSUME IInv, NEW t \in Trades,
         InState(OpensOn(MarketOf[t]), ACTIVE_INDEX_STATES) = {}
  PROVE  Contract!KeyFree(OpenOf(t))
<1> SUFFICES ASSUME NEW q \in Requests, KeyOf(q) = KeyOf(OpenOf(t))
             PROVE  Phase[q] \notin { "queued", "sent", "review" }
  BY DEF Contract!KeyFree, Contract!Live, Phase
<1>1. IsOpen(OpenOf(t)) /\ TradeOf(OpenOf(t)) = t
  BY RequestShapes
<1>2. IsOpen(q) /\ MarketOf[TradeOf(q)] = MarketOf[t]
  BY <1>1 DEF KeyOf, MarketOfRequest
<1>3. q \in OpensOn(MarketOf[t])
  BY <1>2, RequestShapes DEF OpensOn
<1>4. state[q] \notin ACTIVE_REQUEST_STATES /\ state[q] \in RequestStates
  BY <1>3 DEF InState, IInv, TypeOK
<1> QED
  BY <1>4, PhaseValues DEF Phase

\* A single move of a row is Move, Fail or Succeed of the contract.
LEMMA MoveImplements ==
  ASSUME IInv, NEW r \in Requests, NEW s \in RequestStates, TableMove(r, s)
  PROVE  [Contract!Next]_(Contract!vars)
<1>1. /\ state'[r] = s /\ \A q \in Requests \ { r } : state'[q] = state[q]
      /\ state[r] \in RequestStates /\ Phase[r] = PhaseOf(state[r])
  BY DEF TableMove, IInv, TypeOK, Phase
<1>2. Phase' = [Phase EXCEPT ![r] = PhaseOf(s)]
  BY <1>1, PhaseAfter
<1>3. CASE s \in ACTIVE_REQUEST_STATES
  <2>1. Holders' = Holders
    BY <1>3, NoRelease DEF TableMove, Holders
  <2>2. Contract!Move(r)
    BY <1>1, <1>2, <1>3, <2>1, PhaseValues
    DEF TableMove, Contract!Move, Contract!Live, Phase, Holders
  <2> QED
    BY <2>2 DEF Contract!Next
<1>4. CASE s \in FAILURE_TERMINAL_STATES /\ state[r] \in ACTIVE_REQUEST_STATES
  <2>1. Holders' = Holders \ { r }
    BY <1>4, HoldersAfter DEF TableMove, IInv
  <2>2. Contract!Fail(r)
    BY <1>1, <1>2, <1>4, <2>1, PhaseValues
    DEF Contract!Fail, Contract!Live, Phase, Holders
  <2> QED
    BY <2>2 DEF Contract!Next
<1>5. CASE s \in FAILURE_TERMINAL_STATES /\ state[r] \in FAILURE_TERMINAL_STATES
  <2>1. ~IsOpen(r)
    BY <1>5 DEF TableMove
  <2>2. Holders' = Holders
    BY <2>1 DEF TableMove, ReservationAfterFinalize, Holders
  <2>3. PhaseOf(s) = Phase[r]
    BY <1>1, <1>5, PhaseValues
  <2>4. Phase' = Phase
    BY <1>2, <2>3 DEF Phase
  <2> QED
    BY <2>2, <2>4, ContractState DEF Contract!vars, Phase, Holders
<1> QED
  BY <1>1, <1>3, <1>4, <1>5 DEF TableMove, RequestStates

\* enqueue_open_request is Queue of an entry.
LEMMA OpenImplements ==
  ASSUME IInv, NEW t \in Trades, EnqueueOpen(t)
  PROVE  Contract!Next
<1> DEFINE r == OpenOf(t)
<1>1. r \in Requests /\ IsOpen(r) /\ TradeOf(r) = t /\ r \in Entries
  BY RequestShapes DEF Entries
<1>2. PICK s \in { "READY", "AWAITING_APPROVAL" } :
        state'[r] = s /\ \A q \in Requests \ { r } : state'[q] = state[q]
  BY <1>1 DEF EnqueueOpen, IInv, TypeOK
<1>3. Phase' = [Phase EXCEPT ![r] = "queued"]
  BY <1>1, <1>2, PhaseAfter, PhaseValues, RequestStatesHas
<1>4. state[r] = "none" /\ Phase[r] = "absent"
  BY <1>1, PhaseValues DEF EnqueueOpen, Phase, RequestStates
<1>5. Contract!KeyFree(r)
  BY CreatedMeansFree, KeyFreeOfOpen DEF EnqueueOpen
<1>6. Holders' = Holders \cup { r }
  <2>1. \A u \in Trades : reservation'[u] = "held" <=> reservation[u] = "held" \/ u = t
    BY DEF EnqueueOpen, IInv, TypeOK
  <2> QED
    BY <2>1 DEF Holders
<1> HIDE DEF r
<1>7. Contract!Queue(r)
  BY <1>1, <1>3, <1>4, <1>5, <1>6 DEF Contract!Queue, Phase, Holders, Entries
<1> QED
  BY <1>1, <1>7 DEF Contract!Next

\* enqueue_close_request is Queue of a request that holds no exposure.
LEMMA CloseImplements ==
  ASSUME IInv, NEW t \in Trades, QueuesClose(t)
  PROVE  Contract!Next
<1>1. PICK r \in Requests : r = NextClose(t)
  BY BoundsAssumption DEF QueuesClose, IInv, TypeOK, NextClose, Requests
<1>2. r \in ClosesOf(t) /\ r[1] = t /\ r[2] = version[t] + 1
  BY <1>1, BoundsAssumption DEF QueuesClose, IInv, TypeOK, NextClose, ClosesOf
<1>3. state[r] = "none" /\ ~IsOpen(r)
  BY <1>2, RequestShapes DEF IInv, TypeOK, NextCloseAbsent
<1>4. /\ state' = [state EXCEPT ![r] = "READY"] /\ UNCHANGED reservation
      /\ InState(ClosesOf(t), ACTIVE_INDEX_STATES) = {}
  BY <1>1, CreatedMeansFree DEF QueuesClose
<1>5. state'[r] = "READY" /\ \A q \in Requests \ { r } : state'[q] = state[q]
  BY <1>4 DEF IInv, TypeOK
<1>6. Phase' = [Phase EXCEPT ![r] = "queued"] /\ Phase[r] = "absent"
  BY <1>3, <1>5, PhaseAfter, PhaseValues, RequestStatesHas DEF Phase, RequestStates
<1>7. Contract!KeyFree(r)
  BY <1>2, <1>4, KeyFreeOfClose
<1>8. r \notin Entries /\ Holders' = Holders
  BY <1>3, <1>4, RequestShapes DEF Entries, Holders
<1>9. Contract!Queue(r)
  BY <1>6, <1>7, <1>8 DEF Contract!Queue, Phase, Holders, Entries
<1> QED
  BY <1>9 DEF Contract!Next

\* Storing fills is Succeed, or SucceedAndQueue with the take-profit.
LEMMA FillImplements ==
  ASSUME IInv, NEW r \in Requests, NEW S \in SUBSET FillIds, NEW s \in RequestStates,
         NEW n \in Nat, NEW tp \in BOOLEAN, TableFill(r, S, s, n, tp)
  PROVE  Contract!Next
<1> DEFINE t == TradeOf(r)
<1>1. /\ state[r] \in RECONCILABLE_REQUEST_STATES \cup { "MANUAL_REVIEW_REQUIRED" }
      /\ s \in SUCCESS_TERMINAL_STATES
      /\ reservation' = ReservationAfterFinalize(r, s)
  BY DEF TableFill, FinalizeFilled
<1>2. Holders' = Holders \ { r }
  BY <1>1, HoldersAfter DEF IInv
<1>3. Phase[r] \in { "sent", "review" } /\ PhaseOf(s) = "done"
  BY <1>1, PhaseValues DEF Phase, IInv, TypeOK
<1>4. CASE ~tp
  <2>1. state'[r] = s /\ \A q \in Requests \ { r } : state'[q] = state[q]
    BY <1>4 DEF TableFill, FinalizeFilled, IInv, TypeOK
  <2>2. Phase' = [Phase EXCEPT ![r] = "done"]
    BY <1>3, <2>1, PhaseAfter
  <2>3. Contract!Succeed(r)
    BY <1>2, <1>3, <2>2 DEF Contract!Succeed, Phase, Holders
  <2> QED
    BY <2>3 DEF Contract!Next
<1>5. CASE tp
  <2>1. /\ state' = [state EXCEPT ![r] = s, ![NextClose(t)] = "READY"]
        /\ version[t] < MaxCloses /\ IsOpen(r)
        /\ InState(ClosesOf(t), ACTIVE_INDEX_STATES) = {}
    BY <1>5, CreatedMeansFree DEF TableFill, FinalizeFilled, TakeProfitDue
  <2>2. t \in Trades /\ r = OpenOf(t) /\ r \in Entries
    BY <2>1, RequestShapes DEF Entries
  <2>3. PICK c \in Requests : c = NextClose(t)
    BY <2>1, <2>2, BoundsAssumption DEF IInv, TypeOK, NextClose, Requests
  <2>4. c \in ClosesOf(t) /\ c[1] = t /\ c[2] = version[t] + 1
    BY <2>1, <2>2, <2>3, BoundsAssumption DEF IInv, TypeOK, NextClose, ClosesOf
  <2>5. state[c] = "none" /\ ~IsOpen(c) /\ c # r
    BY <2>1, <2>2, <2>4, RequestShapes DEF IInv, TypeOK, NextCloseAbsent
  <2> HIDE DEF t
  <2>6. /\ state'[r] = s /\ state'[c] = "READY"
        /\ \A q \in Requests \ { r, c } : state'[q] = state[q]
    BY <2>1, <2>3, <2>5 DEF IInv, TypeOK
  <2>7. PhaseOf("READY") = "queued" /\ PhaseOf("none") = "absent"
    BY PhaseValues, RequestStatesHas DEF RequestStates
  <2>8. Phase' = [Phase EXCEPT ![r] = "done", ![c] = "queued"] /\ Phase[c] = "absent"
    BY <1>3, <2>5, <2>6, <2>7 DEF Phase
  <2>9. c \notin Entries
    BY <2>5, RequestShapes DEF Entries
  <2>10. Contract!SucceedAndQueue(r, c)
    BY <1>2, <1>3, <2>1, <2>2, <2>4, <2>8, <2>9, KeyFreeOfClose
    DEF Contract!SucceedAndQueue, Phase, Holders, Entries
  <2> QED
    BY <2>10 DEF Contract!Next
<1> QED
  BY <1>4, <1>5

\* Every step is a step of the contract, or leaves it alone.
LEMMA StepImplements == IInv /\ [Next]_vars => [Contract!Next]_(Contract!vars)
<1> SUFFICES ASSUME IInv, [Next]_vars PROVE [Contract!Next]_(Contract!vars)
  OBVIOUS
<1>1. TableStep
  BY NextTable
<1>2. CASE TableSame
  BY <1>2 DEF TableSame, Contract!vars
<1>3. ASSUME NEW r \in Requests, NEW S \in SUBSET FillIds, NEW s \in RequestStates,
             NEW n \in Nat, NEW tp \in BOOLEAN, TableFill(r, S, s, n, tp)
      PROVE  Contract!Next
  BY <1>3, FillImplements
<1> QED
  BY <1>1, <1>2, <1>3, MoveImplements, OpenImplements, CloseImplements DEF TableStep

\* The empty tables are an initial state of the contract.
LEMMA InitImplements == Init => Contract!Init
<1> SUFFICES ASSUME Init PROVE Contract!Init
  OBVIOUS
<1>1. Phase = [r \in Requests |-> "absent"]
  BY PhaseValues DEF Init, Phase, RequestStates
<1>2. Holders = {}
  BY DEF Init, Holders
<1> QED
  BY <1>1, <1>2, ContractState

\* Everything the outbox, the worker, the operator and the settlement job do is
\* allowed by ExecutionContract: one live request per key, final outcomes,
\* success only for what was sent, exposure held exactly while an entry is live.
THEOREM Implements == Spec => ImplementsContract
BY InitImplements, StepImplements, Inductive, PTL
DEF Spec, ImplementsContract, Contract!Spec
=============================================================================
