--------------------------- MODULE LiveReleaseProofs ---------------------------
(***************************************************************************)
(* Theorems about LiveRelease for every set of signals, sessions, gates    *)
(* and operators, and every choice of limits.                              *)
(***************************************************************************)
EXTENDS LiveRelease, FiniteSetTheorems, FunctionTheorems, TLAPS

\* Past the session query a gate works for a session that is ACTIVE, and whose
\* row no endpoint holds.
GateOnActive ==
  \A g \in Gates :
    /\ gate[g].pc # "idle" => gate[g].sig \in Signals
    /\ gate[g].pc \in { "exposure", "risk", "reserve" } =>
         /\ gate[g].sess \in Sessions
         /\ status[gate[g].sess] = "ACTIVE"
         /\ ~LockedByCall(gate[g].sess)

\* The endpoints in progress: a session being created has no row yet and one
\* creator, and the others found the row they will write.
CallsInProgress ==
  \A o \in Operators :
    /\ call[o].kind = "create" =>
         /\ call[o].on \in Sessions /\ status[call[o].on] = "none"
         /\ \A p \in Operators : call[p].kind = "create" /\ call[p].on = call[o].on => p = o
    /\ call[o].kind \in { "readiness", "activate", "finish" } =>
         call[o].on \in Sessions /\ status[call[o].on] # "none"
    /\ call[o].kind = "readiness" => call[o].from \in { "READY", "DRAFT" }
    /\ call[o].kind = "approve" => call[o].on \in Signals

\* An entry in flight has its reservation, and a position without shares.
EntryInFlight ==
  \A s \in Signals :
    req[s] \in REQUEST_HOLD_STATES => pos[s] = "OPENING" /\ left[s] = 0 /\ s \in held

\* A signal with a LIVE request has used up its idempotency key.
KeyIsTaken == \A s \in Signals : req[s] # "none" => made[s] > 0

LInv ==
  /\ TypeOK
  /\ HandOK
  /\ GateOnActive
  /\ CallsInProgress
  /\ EntryInFlight
  /\ KeyIsTaken
  /\ CompletedHasNoEntryInFlight

-----------------------------------------------------------------------------
(* Sums                                                                     *)

\* The disjoint union that SumOver counts, for a function f.
Units(f, S) == UNION { { s } \X (1 .. f[s]) : s \in S }

\* Its members are the pairs of a member of S and one of its units.
LEMMA UnitsMember ==
  ASSUME NEW f, NEW S, NEW p
  PROVE  p \in Units(f, S) <=> \E s \in S : \E i \in 1 .. f[s] : p = <<s, i>>
BY DEF Units

\* A sum over signals is of finitely many units.
LEMMA UnitsFinite ==
  ASSUME NEW f \in [Signals -> Nat], NEW S \in SUBSET Signals
  PROVE  IsFiniteSet(Units(f, S)) /\ Cardinality(Units(f, S)) \in Nat
<1> DEFINE part(s) == { s } \X (1 .. f[s])
           parts == { part(s) : s \in S }
           map == [s \in S |-> part(s)]
<1>1. IsFiniteSet(S)
  BY SignalsAssumption, FS_Subset
<1>2. map \in Surjection(S, parts)
  BY DEF Surjection
<1>3. IsFiniteSet(parts)
  BY <1>1, <1>2, FS_Surjection
<1>4. \A s \in S : IsFiniteSet(part(s))
  <2> SUFFICES ASSUME NEW s \in S PROVE IsFiniteSet(part(s))
    OBVIOUS
  <2>1. IsFiniteSet({ s })
    BY FS_Singleton
  <2>2. 1 \in Int /\ f[s] \in Int
    OBVIOUS
  <2>3. IsFiniteSet(1 .. f[s])
    BY <2>2, FS_Interval
  <2> QED
    BY <2>1, <2>3, FS_Product
<1>5. IsFiniteSet(Units(f, S))
  BY <1>3, <1>4, FS_UNION DEF Units
<1> QED
  BY <1>5, FS_CardinalityType

\* A sum grows with its set and with its terms.
LEMMA UnitsMonotone ==
  ASSUME NEW f \in [Signals -> Nat], NEW h \in [Signals -> Nat],
         NEW S \in SUBSET Signals, NEW T \in SUBSET Signals,
         \A s \in S : (s \in T /\ f[s] <= h[s]) \/ f[s] = 0
  PROVE  Cardinality(Units(f, S)) <= Cardinality(Units(h, T))
<1>1. Units(f, S) \subseteq Units(h, T)
  <2> SUFFICES ASSUME NEW s \in S, NEW i \in 1 .. f[s] PROVE <<s, i>> \in Units(h, T)
    BY UnitsMember
  <2>1. s \in T /\ i \in 1 .. h[s]
    OBVIOUS
  <2> QED
    BY <2>1, UnitsMember
<1> QED
  BY <1>1, UnitsFinite, FS_Subset

\* One more term adds what it is worth.
LEMMA UnitsAdd ==
  ASSUME NEW f \in [Signals -> Nat], NEW S \in SUBSET Signals, NEW s \in Signals, s \notin S
  PROVE  Cardinality(Units(f, S \cup { s })) = Cardinality(Units(f, S)) + f[s]
<1> DEFINE part == { s } \X (1 .. f[s])
<1>1. IsFiniteSet(part) /\ Cardinality(part) = f[s]
  <2>1. IsFiniteSet({ s }) /\ Cardinality({ s }) = 1
    BY FS_Singleton
  <2>2. IsFiniteSet(1 .. f[s]) /\ Cardinality(1 .. f[s]) = f[s]
    BY FS_Interval
  <2>3. IsFiniteSet(part) /\ Cardinality(part) = 1 * f[s]
    BY <2>1, <2>2, FS_Product, Zenon
  <2> QED
    BY <2>3
<1>2. Units(f, S \cup { s }) = Units(f, S) \cup part
  BY DEF Units
<1>3. Units(f, S) \cap part = {}
  <2> SUFFICES ASSUME NEW p, p \in Units(f, S), p \in part PROVE FALSE
    OBVIOUS
  <2>1. PICK u \in S : \E i \in 1 .. f[u] : p = <<u, i>>
    BY UnitsMember
  <2> QED
    BY <2>1
<1>4. Cardinality(Units(f, S) \cup part)
        = Cardinality(Units(f, S)) + Cardinality(part) - Cardinality({})
  BY <1>1, <1>3, UnitsFinite, FS_Union
<1>5. Cardinality({}) = 0 /\ Cardinality(Units(f, S)) \in Nat
  BY UnitsFinite, FS_EmptySet
<1> HIDE DEF part
<1>6. f[s] \in Nat
  OBVIOUS
<1>7. Cardinality(Units(f, S \cup { s }))
        = Cardinality(Units(f, S)) + Cardinality(part) - Cardinality({})
  BY <1>2, <1>4, Zenon
<1> QED
  BY <1>1, <1>5, <1>6, <1>7

\* What the limits compare, as sums.
LEMMA SumsAsUnits ==
  ASSUME NEW s, NEW S, NEW x, NEW states
  PROVE  /\ Reserved(S) = Cardinality(Units(amount, S \cap held))
         /\ AtRiskCostBut(s) = Cardinality(Units(left, { u \in Signals \ { s } : pos[u] \in ACTIVE_POSITION_STATES }))
         /\ PositionCost(x, states) = Cardinality(Units(cost, { u \in OwnedBy(x) : pos[u] \in states }))
BY DEF Reserved, AtRiskCostBut, PositionCost, SumOver, Units

-----------------------------------------------------------------------------
(* Type correctness                                                         *)

\* The empty tables have their types.
LEMMA TypeInit == Init => TypeOK
<1> SUFFICES ASSUME Init PROVE TypeOK
  OBVIOUS
<1>1. trading \in BOOLEAN /\ mirror \in BOOLEAN /\ cursor \in BOOLEAN /\ release \in ReleaseModes
  BY DEF Init, ReleaseModes
<1>2. /\ status \in [Sessions -> SessionStates] /\ limits \in [Sessions -> LimitRecords]
      /\ completed \subseteq Sessions
  BY DEF Init, SessionStates, LimitRecords, NoLimits
<1>3. /\ paper \in [Signals -> { "none", "filled", "past" }] /\ old \subseteq Signals
      /\ cand \in [Signals -> CandidateStates] /\ req \in [Signals -> LiveRequestStates]
      /\ owner \in [Signals -> Sessions \cup { NoSession }] /\ held \subseteq Signals
      /\ pos \in [Signals -> LivePositionStates]
  BY DEF Init, CandidateStates, LiveRequestStates, LivePositionStates, NoSession
<1>4. /\ made \in [Signals -> Nat] /\ amount \in [Signals -> Nat]
      /\ cost \in [Signals -> Nat] /\ left \in [Signals -> Nat]
  BY DEF Init
<1>5. gate \in [Gates -> [pc : GatePhases, sig : Signals \cup { NoSignal },
                         sess : Sessions \cup { NoSession }, seen : Nat]]
  BY DEF Init, Idle, GatePhases
<1>6. call \in [Operators ->
                [kind : { "none", "create", "readiness", "activate", "finish", "approve" },
                 on : { "none" } \cup Sessions \cup Signals,
                 from : SessionStates \cup CandidateStates]]
  BY DEF Init, NoCall, SessionStates
<1>7. calls \in 0 .. MaxCalls
  BY CallsAssumption DEF Init
<1> QED
  BY <1>1, <1>2, <1>3, <1>4, <1>5, <1>6, <1>7 DEF TypeOK

\* PAPER entries and candidates.
LEMMA SignalType ==
  ASSUME TypeOK, NEW s \in Signals, PaperFilled(s) \/ SignalAges(s) \/ MirrorBatch(s)
  PROVE  TypeOK'
<1>1. /\ paper' \in [Signals -> { "none", "filled", "past" }]
      /\ old' \subseteq Signals /\ cand' \in [Signals -> CandidateStates]
  BY DEF TypeOK, PaperFilled, SignalAges, MirrorBatch, CandidateStates
<1>2. UNCHANGED <<flagVars, sessionVars, requestVars, positionVars, gate, callVars>>
  BY DEF PaperFilled, SignalAges, MirrorBatch
<1> QED
  BY <1>1, <1>2
  DEF TypeOK, flagVars, sessionVars, requestVars, positionVars, callVars

GateRecords == [pc : GatePhases, sig : Signals \cup { NoSignal },
                sess : Sessions \cup { NoSession }, seen : Nat]

\* A gate that gives up, or moves to another phase, keeps the types.
LEMMA GateMoveType ==
  ASSUME TypeOK, NEW g \in Gates, NEW r \in GateRecords, SetGate(g, r),
         UNCHANGED <<flagVars, sessionVars, signalVars, requestVars, positionVars, callVars>>
  PROVE  TypeOK'
<1>1. gate' \in [Gates -> GateRecords]
  BY DEF TypeOK, SetGate, GateRecords
<1> QED
  BY <1>1 DEF TypeOK, GateRecords, flagVars, sessionVars, signalVars, requestVars, positionVars, callVars

\* Rejecting a candidate.
LEMMA GateRejectType ==
  ASSUME TypeOK, NEW g \in Gates, GateRejects(g)
  PROVE  TypeOK'
<1>1. cand' \in [Signals -> CandidateStates]
  BY DEF TypeOK, GateRejects, CandidateStates
<1>2. gate' \in [Gates -> GateRecords]
  BY DEF TypeOK, GateRejects, SetGate, Idle, GateRecords, GatePhases
<1> QED
  BY <1>1, <1>2 DEF TypeOK, GateRejects, GateRecords, flagVars, sessionVars, requestVars, positionVars, callVars

\* The steps of a gate.
LEMMA GateType ==
  ASSUME TypeOK, GateOnActive, NEW g \in Gates, GateStep(g)
  PROVE  TypeOK'
<1>0. gate[g] \in GateRecords /\ Idle \in GateRecords
  BY DEF TypeOK, GateRecords, Idle, GatePhases
<1>1. ASSUME NEW s \in Signals, GateSnapshot(g, s) PROVE TypeOK'
  <2>1. [Idle EXCEPT !.pc = "quoted", !.sig = s] \in GateRecords
    BY DEF Idle, GateRecords, GatePhases
  <2> QED
    BY <1>1, <2>1, GateMoveType DEF GateSnapshot
<1>2. CASE GateLock(g)
  <2>1. [gate[g] EXCEPT !.pc = "locked"] \in GateRecords
    BY <1>0 DEF GateRecords, GatePhases
  <2> QED
    BY <1>0, <1>2, <2>1, GateMoveType, GateRejectType DEF GateLock, GateDefers
<1>3. CASE GateReadsSession(g)
  <2>1. PICK x \in ActiveSessions :
          SetGate(g, [gate[g] EXCEPT !.pc = "exposure", !.sess = x,
                        !.seen = PositionCost(x, SESSION_POSITION_STATES)])
    BY <1>3 DEF GateReadsSession
  <2>2. PositionCost(x, SESSION_POSITION_STATES) \in Nat
    <3> DEFINE S == { u \in OwnedBy(x) : pos[u] \in SESSION_POSITION_STATES }
    <3>1. S \in SUBSET Signals /\ cost \in [Signals -> Nat]
      BY DEF TypeOK, OwnedBy
    <3> HIDE DEF S
    <3>2. Cardinality(Units(cost, S)) \in Nat
      BY <3>1, UnitsFinite
    <3> QED
      BY <3>2, SumsAsUnits DEF S
  <2>3. [gate[g] EXCEPT !.pc = "exposure", !.sess = x,
           !.seen = PositionCost(x, SESSION_POSITION_STATES)] \in GateRecords
    BY <1>0, <2>2 DEF GateRecords, GatePhases, ActiveSessions
  <2> QED
    BY <1>3, <2>1, <2>3, GateMoveType DEF GateReadsSession
<1>4. CASE GateReadsReservations(g)
  <2>1. [gate[g] EXCEPT !.pc = "risk", !.seen = 0] \in GateRecords
    BY <1>0 DEF GateRecords, GatePhases
  <2> QED
    BY <1>4, <2>1, GateMoveType DEF GateReadsReservations
<1>5. CASE GateChecksRisk(g)
  <2>1. AtRiskCostBut(NoSignal) \in Nat
    <3> DEFINE S == { u \in Signals \ { NoSignal } : pos[u] \in ACTIVE_POSITION_STATES }
    <3>1. S \in SUBSET Signals /\ left \in [Signals -> Nat]
      BY DEF TypeOK
    <3> HIDE DEF S
    <3>2. Cardinality(Units(left, S)) \in Nat
      BY <3>1, UnitsFinite
    <3> QED
      BY <3>2, SumsAsUnits DEF S
  <2>2. [gate[g] EXCEPT !.pc = "reserve", !.seen = AtRiskCostBut(NoSignal)] \in GateRecords
    BY <1>0, <2>1 DEF GateRecords, GatePhases
  <2> QED
    BY <1>5, <2>2, GateMoveType, GateRejectType DEF GateChecksRisk
<1>6. CASE GateReleases(g)
  <2>1. CASE GateRejects(g)
    BY <2>1, GateRejectType
  <2>2. CASE CreateLiveRows(g) /\ SetGate(g, Idle) /\ UNCHANGED <<flagVars, sessionVars, paper, old, callVars>>
    <3>1. gate[g].sess \in Sessions /\ limits[gate[g].sess].order \in Nat
      BY <1>6 DEF GateReleases, GateAt, GateOnActive, TypeOK, LimitRecords
    <3>2. gate' \in [Gates -> GateRecords]
      BY <1>0, <2>2 DEF SetGate, TypeOK, GateRecords
    <3>3. /\ req' \in [Signals -> LiveRequestStates]
          /\ owner' \in [Signals -> Sessions \cup { NoSession }]
          /\ pos' \in [Signals -> LivePositionStates]
          /\ cand' \in [Signals -> CandidateStates]
      BY <2>2, <3>1 DEF CreateLiveRows, TypeOK, LiveRequestStates, LivePositionStates, CandidateStates
    <3>5. /\ made' \in [Signals -> Nat] /\ cost' \in [Signals -> Nat] /\ left' \in [Signals -> Nat]
      <4>1. gate[g].sig \in Signals
        BY <1>6 DEF GateReleases, GateAt, GateOnActive
      <4>2. cost' \in [Signals -> Nat] /\ left' \in [Signals -> Nat]
        BY <2>2 DEF CreateLiveRows, TypeOK
      <4>3. made' \in [Signals -> Nat]
        BY <2>2, <4>1 DEF CreateLiveRows, TypeOK
      <4> QED
        BY <4>2, <4>3
    <3>6. amount' \in [Signals -> Nat]
      BY <2>2, <3>1 DEF CreateLiveRows, TypeOK
    <3>4. held' \subseteq Signals
      BY <1>6, <2>2 DEF CreateLiveRows, TypeOK, GateReleases, GateAt, GateOnActive
    <3> QED
      BY <2>2, <3>2, <3>3, <3>4, <3>5, <3>6 DEF TypeOK, GateRecords, flagVars, sessionVars, callVars
  <2> QED
    BY <1>6, <2>1, <2>2 DEF GateReleases
<1>7. CASE GateDefers(g)
  BY <1>0, <1>7, GateMoveType DEF GateDefers
<1> QED
  BY <1>1, <1>2, <1>3, <1>4, <1>5, <1>6, <1>7 DEF GateStep

\* The steps of the execution worker.
LEMMA WorkerType ==
  ASSUME TypeOK, NEW s \in Signals, WorkerStep(s)
  PROVE  TypeOK'
<1>1. ASSUME NEW q \in LiveRequestStates, SetRequest(s, q)
      PROVE  /\ req' \in [Signals -> LiveRequestStates] /\ held' \subseteq Signals
             /\ UNCHANGED <<made, owner, amount>>
  BY <1>1 DEF SetRequest, HeldAfter, TypeOK
<1>2. { "SUBMITTING", "REJECTED", "MANUAL_REVIEW_REQUIRED", "FILLED" } \subseteq LiveRequestStates
  BY DEF LiveRequestStates
<1>3. CASE WorkerChecks(s) \/ EntryNeedsReview(s)
  BY <1>1, <1>2, <1>3
  DEF WorkerChecks, EntryNeedsReview, TypeOK, flagVars, sessionVars, signalVars, requestVars,
      positionVars, callVars
<1>4. CASE EntryFails(s)
  <2>1. pos' \in [Signals -> LivePositionStates]
    BY <1>4 DEF EntryFails, TypeOK, LivePositionStates
  <2> QED
    BY <1>1, <1>2, <1>4, <2>1 DEF EntryFails, TypeOK, flagVars, sessionVars, signalVars, callVars
<1>5. CASE EntryFills(s)
  <2>1. pos' \in [Signals -> LivePositionStates]
    BY <1>5 DEF EntryFills, TypeOK, LivePositionStates
  <2>2. cost' \in [Signals -> Nat] /\ left' \in [Signals -> Nat]
    BY <1>5 DEF EntryFills, TypeOK
  <2> QED
    BY <1>1, <1>2, <1>5, <2>1, <2>2 DEF EntryFills, TypeOK, flagVars, sessionVars, signalVars, callVars
<1>6. ASSUME NEW p \in LivePositionStates, NEW n \in Nat, SetPosition(s, p, n) PROVE TypeOK'
  <2>1. pos' \in [Signals -> LivePositionStates] /\ left' \in [Signals -> Nat]
    BY <1>6 DEF SetPosition, TypeOK
  <2> QED
    BY <1>6, <2>1 DEF SetPosition, TypeOK, flagVars, sessionVars, signalVars, requestVars, callVars
<1>7. CASE ExitRequested(s) \/ ExitEnds(s) \/ Resolve(s)
  <2>1. left[s] \in Nat /\ { "EXIT_REQUESTED", "CLOSED", "PARTIALLY_CLOSED", "OPEN", "RESOLVED_REDEEMABLE" }
                             \subseteq LivePositionStates
    BY DEF TypeOK, LivePositionStates
  <2>2. PICK p \in LivePositionStates, n \in Nat : SetPosition(s, p, n)
    BY <1>7, <2>1 DEF ExitRequested, ExitEnds, Resolve
  <2> QED
    BY <1>6, <2>2
<1> QED
  BY <1>3, <1>4, <1>5, <1>7 DEF WorkerStep

\* The request in hand.
LEMMA HandType ==
  ASSUME TypeOK, HandStep
  PROVE  TypeOK'
<1>1. /\ req' \in [Signals -> LiveRequestStates] /\ held' \subseteq Signals
      /\ UNCHANGED <<made, owner, amount>>
  BY DEF HandStep, WorkerCompares, WorkerSubmits, WorkerLetsGo, SetRequest, HeldAfter, TypeOK,
         LiveRequestStates, requestVars
<1>2. UNCHANGED <<flagVars, sessionVars, signalVars, positionVars, gate, callVars>>
  BY DEF HandStep, WorkerCompares, WorkerSubmits, WorkerLetsGo
<1> QED
  BY <1>1, <1>2 DEF TypeOK, flagVars, sessionVars, signalVars, positionVars, callVars

CallRecords == [kind : { "none", "create", "readiness", "activate", "finish", "approve" },
                on : { "none" } \cup Sessions \cup Signals,
                from : SessionStates \cup CandidateStates]

\* The bookkeeping of the endpoints.
LEMMA CallType ==
  ASSUME TypeOK, NEW o \in Operators
  PROVE  /\ \A kind \in { "create", "readiness", "activate", "finish", "approve" },
               on \in Sessions \cup Signals, from \in SessionStates \cup CandidateStates :
              Begins(o, kind, on, from) => TypeOK'
         /\ \A kind \in { "create", "readiness", "activate", "finish", "approve" } : Ends(o, kind) =>
              call' \in [Operators -> CallRecords] /\ calls' \in 0 .. MaxCalls
         /\ AtOnce(o) => call' \in [Operators -> CallRecords] /\ calls' \in 0 .. MaxCalls
<1>0. call \in [Operators -> CallRecords] /\ calls \in 0 .. MaxCalls /\ NoCall \in CallRecords
  BY DEF TypeOK, CallRecords, NoCall, SessionStates
<1>1. ASSUME NEW kind \in { "create", "readiness", "activate", "finish", "approve" },
             NEW on \in Sessions \cup Signals, NEW from \in SessionStates \cup CandidateStates,
             Begins(o, kind, on, from)
      PROVE  TypeOK'
  <2>1. [kind |-> kind, on |-> on, from |-> from] \in CallRecords
    BY DEF CallRecords
  <2>2. call' \in [Operators -> CallRecords]
    BY <1>0, <1>1, <2>1 DEF Begins
  <2>3. calls' \in 0 .. MaxCalls
    BY <1>0, <1>1, CallsAssumption DEF Begins
  <2> QED
    BY <1>1, <2>2, <2>3
    DEF Begins, TypeOK, CallRecords, flagVars, sessionVars, signalVars, requestVars, positionVars
<1>2. ASSUME NEW kind, Ends(o, kind)
      PROVE  call' \in [Operators -> CallRecords] /\ calls' \in 0 .. MaxCalls
  BY <1>0, <1>2 DEF Ends
<1>3. ASSUME AtOnce(o) PROVE call' \in [Operators -> CallRecords] /\ calls' \in 0 .. MaxCalls
  BY <1>0, <1>3, CallsAssumption DEF AtOnce
<1> QED
  BY <1>1, <1>2, <1>3

\* The endpoints that write sessions, switches and candidates.
LEMMA OperatorType ==
  ASSUME TypeOK, CallsInProgress, NEW o \in Operators, OperatorStep(o)
  PROVE  TypeOK'
<1> USE DEF SessionStates, CandidateStates
<1>1. ASSUME NEW x \in Sessions,
             \/ CreateBegins(o, x) \/ ReadinessBegins(o, x) \/ ActivateBegins(o, x)
             \/ FinishBegins(o, x)
      PROVE  TypeOK'
  <2>1. status[x] \in SessionStates
    BY DEF TypeOK
  <2> QED
    BY <1>1, <2>1, CallType DEF CreateBegins, ReadinessBegins, ActivateBegins, FinishBegins
<1>2. ASSUME NEW s \in Signals, ApproveBegins(o, s) PROVE TypeOK'
  <2>1. cand[s] \in CandidateStates
    BY DEF TypeOK
  <2> QED
    BY <1>2, <2>1, CallType DEF ApproveBegins
<1>3. CASE CreateEnds(o)
  <2>1. call' \in [Operators -> CallRecords] /\ calls' \in 0 .. MaxCalls
    BY <1>3, CallType DEF CreateEnds
  <2>2. status' \in [Sessions -> SessionStates] /\ limits' \in [Sessions -> LimitRecords]
    BY <1>3, LimitsAssumption DEF CreateEnds, TypeOK
  <2> QED
    BY <1>3, <2>1, <2>2
    DEF CreateEnds, TypeOK, CallRecords, flagVars, signalVars, requestVars, positionVars
<1>4. ASSUME NEW x \in Sessions, UpdateLimits(o, x) PROVE TypeOK'
  <2>1. call' \in [Operators -> CallRecords] /\ calls' \in 0 .. MaxCalls
    BY <1>4, CallType DEF UpdateLimits
  <2>2. status' \in [Sessions -> SessionStates] /\ limits' \in [Sessions -> LimitRecords]
    BY <1>4, LimitsAssumption DEF UpdateLimits, TypeOK
  <2> QED
    BY <1>4, <2>1, <2>2
    DEF UpdateLimits, TypeOK, CallRecords, flagVars, signalVars, requestVars, positionVars
<1>5. CASE ReadinessEnds(o)
  <2>1. call' \in [Operators -> CallRecords] /\ calls' \in 0 .. MaxCalls
    BY <1>5, CallType DEF ReadinessEnds
  <2>2. call[o].kind = "readiness" => call[o].from \in { "READY", "DRAFT" }
    BY DEF CallsInProgress
  <2>3. status' \in [Sessions -> SessionStates]
    BY <1>5, <2>2 DEF ReadinessEnds, Ends, TypeOK
  <2> QED
    BY <1>5, <2>1, <2>3
    DEF ReadinessEnds, TypeOK, CallRecords, flagVars, signalVars, requestVars, positionVars
<1>6. CASE ActivateEnds(o)
  <2>1. call' \in [Operators -> CallRecords] /\ calls' \in 0 .. MaxCalls
    BY <1>6, CallType DEF ActivateEnds
  <2>2. status' \in [Sessions -> SessionStates] /\ completed' \subseteq Sessions
    BY <1>6 DEF ActivateEnds, StatusAfterActivate, TypeOK
  <2>3. paper' \in [Signals -> { "none", "filled", "past" }]
    BY <1>6 DEF ActivateEnds, CursorToNow, TypeOK
  <2>4. trading' \in BOOLEAN /\ mirror' \in BOOLEAN /\ cursor' \in BOOLEAN /\ release' \in ReleaseModes
    BY <1>6 DEF ActivateEnds, CursorToNow, ReleaseModes
  <2> QED
    BY <1>6, <2>1, <2>2, <2>3, <2>4
    DEF ActivateEnds, TypeOK, CallRecords, requestVars, positionVars
<1>7. ASSUME NEW x \in Sessions, StopSession(o, x) PROVE TypeOK'
  <2>1. call' \in [Operators -> CallRecords] /\ calls' \in 0 .. MaxCalls
    BY <1>7, CallType DEF StopSession
  <2>2. status' \in [Sessions -> SessionStates] /\ completed' \subseteq Sessions
    BY <1>7 DEF StopSession, TypeOK
  <2>3. trading' \in BOOLEAN /\ mirror' \in BOOLEAN /\ cursor' \in BOOLEAN /\ release' \in ReleaseModes
    BY <1>7 DEF StopSession, ReleaseModes
  <2> QED
    BY <1>7, <2>1, <2>2, <2>3
    DEF StopSession, TypeOK, CallRecords, signalVars, requestVars, positionVars
<1>8. CASE FinishEnds(o)
  <2>1. call' \in [Operators -> CallRecords] /\ calls' \in 0 .. MaxCalls
    BY <1>8, CallType DEF FinishEnds
  <2>2. call[o].on \in Sessions
    BY <1>8 DEF FinishEnds, Ends, CallsInProgress
  <2>3. status' \in [Sessions -> SessionStates] /\ completed' \subseteq Sessions
    BY <1>8, <2>2 DEF FinishEnds, TypeOK
  <2> QED
    BY <1>8, <2>1, <2>3
    DEF FinishEnds, TypeOK, CallRecords, flagVars, signalVars, requestVars, positionVars
<1>9. CASE KillSwitch(o) \/ MirrorSwitch(o) \/ SetReleaseMode(o)
  <2>1. call' \in [Operators -> CallRecords] /\ calls' \in 0 .. MaxCalls
    BY <1>9, CallType DEF KillSwitch, MirrorSwitch, SetReleaseMode
  <2>2. paper' \in [Signals -> { "none", "filled", "past" }] /\ UNCHANGED <<old, cand>>
    BY <1>9 DEF KillSwitch, MirrorSwitch, SetReleaseMode, CursorToNow, TypeOK, signalVars
  <2>3. trading' \in BOOLEAN /\ mirror' \in BOOLEAN /\ cursor' \in BOOLEAN /\ release' \in ReleaseModes
    BY <1>9 DEF KillSwitch, MirrorSwitch, SetReleaseMode, CursorToNow, TypeOK
  <2>4. UNCHANGED <<sessionVars, requestVars, positionVars, gate>>
    BY <1>9 DEF KillSwitch, MirrorSwitch, SetReleaseMode
  <2> QED
    BY <2>1, <2>2, <2>3, <2>4 DEF TypeOK, CallRecords, sessionVars, requestVars, positionVars
<1>10. CASE ApproveEnds(o)
  <2>1. call' \in [Operators -> CallRecords] /\ calls' \in 0 .. MaxCalls
    BY <1>10, CallType DEF ApproveEnds
  <2>2. cand' \in [Signals -> CandidateStates]
    BY <1>10 DEF ApproveEnds, TypeOK
  <2> QED
    BY <1>10, <2>1, <2>2
    DEF ApproveEnds, TypeOK, CallRecords, flagVars, sessionVars, requestVars, positionVars
<1> QED
  BY <1>1, <1>2, <1>3, <1>4, <1>5, <1>6, <1>7, <1>8, <1>9, <1>10 DEF OperatorStep

-----------------------------------------------------------------------------
(* Gates, endpoints and entries                                             *)

\* The rest of LInv does not read the candidates.
Rest == GateOnActive /\ CallsInProgress /\ EntryInFlight /\ KeyIsTaken
        /\ CompletedHasNoEntryInFlight

\* A step that writes none of the rows keeps the rest.
LEMMA RowsSame ==
  ASSUME LInv, UNCHANGED <<sessionVars, requestVars, positionVars, gate, call>>
  PROVE  Rest'
BY DEF LInv, Rest, GateOnActive, CallsInProgress, EntryInFlight, KeyIsTaken,
       CompletedHasNoEntryInFlight, LockedByCall, sessionVars, requestVars, positionVars

\* A gate moves: it goes idle, stays short of the session, or works for a
\* session it has found ACTIVE and free.
LEMMA GateMoveKeeps ==
  ASSUME LInv, NEW g \in Gates, NEW r, SetGate(g, r),
         UNCHANGED <<sessionVars, requestVars, positionVars, call>>,
         r.pc # "idle" => r.sig \in Signals,
         r.pc \in { "exposure", "risk", "reserve" } =>
           r.sess \in Sessions /\ status[r.sess] = "ACTIVE" /\ ~LockedByCall(r.sess)
  PROVE  Rest'
<1>1. GateOnActive'
  <2>1. \A h \in Gates : gate'[h] = IF h = g THEN r ELSE gate[h]
    BY DEF SetGate, LInv, TypeOK
  <2>2. \A x : LockedByCall(x)' <=> LockedByCall(x)
    BY DEF LockedByCall
  <2> QED
    BY <2>1, <2>2 DEF LInv, GateOnActive, sessionVars
<1>2. CallsInProgress' /\ EntryInFlight' /\ KeyIsTaken' /\ CompletedHasNoEntryInFlight'
  BY DEF LInv, CallsInProgress, EntryInFlight, KeyIsTaken,
         CompletedHasNoEntryInFlight, sessionVars, requestVars, positionVars
<1> QED
  BY <1>1, <1>2 DEF Rest

\* The steps of a gate.
LEMMA GateKeeps ==
  ASSUME LInv, NEW g \in Gates, GateStep(g)
  PROVE  Rest'
<1> USE DEF callVars
<1>0. gate[g] \in GateRecords /\ Idle.pc = "idle"
  BY DEF LInv, TypeOK, GateRecords, Idle
<1>1. ASSUME GateRejects(g) \/ GateDefers(g) PROVE Rest'
  BY <1>0, <1>1, GateMoveKeeps DEF GateRejects, GateDefers
<1>2. ASSUME NEW s \in Signals, GateSnapshot(g, s) PROVE Rest'
  <2>1. [Idle EXCEPT !.pc = "quoted", !.sig = s].pc = "quoted"
        /\ [Idle EXCEPT !.pc = "quoted", !.sig = s].sig = s
    BY DEF Idle
  <2> QED
    BY <1>2, <2>1, GateMoveKeeps DEF GateSnapshot
<1>3. CASE GateLock(g)
  <2>1. CASE GateRejects(g) \/ GateDefers(g)
    BY <1>1, <2>1
  <2>2. CASE SetGate(g, [gate[g] EXCEPT !.pc = "locked"])
             /\ UNCHANGED <<flagVars, sessionVars, signalVars, requestVars, positionVars, callVars>>
    <3>1. [gate[g] EXCEPT !.pc = "locked"].pc = "locked"
          /\ [gate[g] EXCEPT !.pc = "locked"].sig = gate[g].sig
      BY <1>0 DEF GateRecords
    <3>2. gate[g].sig \in Signals
      BY <1>3 DEF GateLock, GateAt, LInv, GateOnActive
    <3> QED
      BY <2>2, <3>1, <3>2, GateMoveKeeps
  <2> QED
    BY <1>3, <2>1, <2>2 DEF GateLock
<1>4. CASE GateReadsSession(g)
  <2>1. PICK x \in ActiveSessions :
          /\ RowFree(x)
          /\ SetGate(g, [gate[g] EXCEPT !.pc = "exposure", !.sess = x,
                           !.seen = PositionCost(x, SESSION_POSITION_STATES)])
    BY <1>4 DEF GateReadsSession
  <2> DEFINE r == [gate[g] EXCEPT !.pc = "exposure", !.sess = x,
                     !.seen = PositionCost(x, SESSION_POSITION_STATES)]
  <2>2. r.pc = "exposure" /\ r.sess = x /\ r.sig = gate[g].sig
    BY <1>0 DEF GateRecords
  <2>3. gate[g].sig \in Signals
    BY <1>4 DEF GateReadsSession, GateAt, LInv, GateOnActive
  <2>4. x \in Sessions /\ status[x] = "ACTIVE" /\ ~LockedByCall(x)
    BY <2>1 DEF ActiveSessions, RowFree
  <2> HIDE DEF r
  <2>5. SetGate(g, r)
    BY <2>1 DEF r
  <2> QED
    BY <1>4, <2>2, <2>3, <2>4, <2>5, GateMoveKeeps DEF GateReadsSession
<1>5. ASSUME NEW r, SetGate(g, r), r.pc \in { "risk", "reserve" }, r.sig = gate[g].sig,
             r.sess = gate[g].sess, gate[g].pc \in { "exposure", "risk" },
             UNCHANGED <<flagVars, sessionVars, signalVars, requestVars, positionVars, callVars>>
      PROVE  Rest'
  BY <1>5, GateMoveKeeps DEF LInv, GateOnActive
<1>6. CASE GateReadsReservations(g)
  <2> DEFINE r == [gate[g] EXCEPT !.pc = "risk", !.seen = 0]
  <2>1. r.pc = "risk" /\ r.sess = gate[g].sess /\ r.sig = gate[g].sig
    BY <1>0 DEF GateRecords
  <2>2. SetGate(g, r)
    BY <1>6 DEF GateReadsReservations
  <2> HIDE DEF r
  <2> QED
    BY <1>5, <1>6, <2>1, <2>2 DEF GateReadsReservations, GateAt
<1>7. CASE GateChecksRisk(g)
  <2> DEFINE r == [gate[g] EXCEPT !.pc = "reserve", !.seen = AtRiskCostBut(NoSignal)]
  <2>1. r.pc = "reserve" /\ r.sess = gate[g].sess /\ r.sig = gate[g].sig
    BY <1>0 DEF GateRecords
  <2>2. \/ GateRejects(g)
        \/ /\ SetGate(g, r)
           /\ UNCHANGED <<flagVars, sessionVars, signalVars, requestVars, positionVars, callVars>>
    BY <1>7 DEF GateChecksRisk
  <2> HIDE DEF r
  <2> QED
    BY <1>1, <1>5, <1>7, <2>1, <2>2 DEF GateChecksRisk, GateAt
<1>8. CASE GateReleases(g)
  <2>1. CASE GateRejects(g)
    BY <1>1, <2>1
  <2>2. CASE KeyFree(gate[g].sig) /\ CreateLiveRows(g) /\ SetGate(g, Idle)
             /\ UNCHANGED <<flagVars, sessionVars, paper, old, callVars>>
    <3> DEFINE u == gate[g].sig
               x == gate[g].sess
    <3>1. u \in Signals /\ x \in Sessions /\ status[x] = "ACTIVE"
      BY <1>8 DEF GateReleases, GateAt, LInv, GateOnActive
    <3>2. GateOnActive'
      <4>1. \A h \in Gates : gate'[h] = IF h = g THEN Idle ELSE gate[h]
        BY <2>2 DEF SetGate, LInv, TypeOK
      <4>2. \A y : LockedByCall(y)' <=> LockedByCall(y)
        BY <2>2 DEF LockedByCall
      <4> QED
        BY <1>0, <2>2, <4>1, <4>2 DEF LInv, GateOnActive, sessionVars
    <3>3. CallsInProgress'
      BY <2>2 DEF LInv, CallsInProgress, sessionVars
    <3>4. \A s \in Signals :
            /\ req'[s] = IF s = u THEN "READY" ELSE req[s]
            /\ pos'[s] = IF s = u THEN "OPENING" ELSE pos[s]
            /\ left'[s] = IF s = u THEN 0 ELSE left[s]
            /\ owner'[s] = IF s = u THEN x ELSE owner[s]
      BY <2>2 DEF CreateLiveRows, LInv, TypeOK
    <3>5. \A s \in Signals : made'[s] = IF s = u THEN 1 ELSE made[s]
      BY <2>2, <3>1 DEF CreateLiveRows, KeyFree, LInv, TypeOK
    <3>6. EntryInFlight'
      BY <2>2, <3>4 DEF LInv, EntryInFlight, CreateLiveRows
    <3>7. KeyIsTaken'
      BY <3>4, <3>5 DEF LInv, KeyIsTaken
    <3>8. CompletedHasNoEntryInFlight'
      BY <2>2, <3>1, <3>4 DEF LInv, CompletedHasNoEntryInFlight, sessionVars
    <3> QED
      BY <3>2, <3>3, <3>6, <3>7, <3>8 DEF Rest
  <2> QED
    BY <1>8, <2>1, <2>2 DEF GateReleases
<1> QED
  BY <1>1, <1>2, <1>3, <1>4, <1>6, <1>7, <1>8 DEF GateStep

\* The worker moves entries on: none comes back into flight.
LEMMA WorkerKeeps ==
  ASSUME LInv, NEW s \in Signals, WorkerStep(s)
  PROVE  Rest'
<1> USE DEF callVars
<1>1. UNCHANGED <<sessionVars, made, owner, gate, call>>
  BY DEF WorkerStep, WorkerChecks, EntryFails, EntryNeedsReview, EntryFills, ExitRequested, ExitEnds,
         Resolve, SetRequest, SetPosition, requestVars
<1>2. GateOnActive' /\ CallsInProgress'
  BY <1>1 DEF LInv, GateOnActive, CallsInProgress, LockedByCall, sessionVars
<1>3. \A u \in Signals : u # s => /\ req'[u] = req[u] /\ pos'[u] = pos[u] /\ left'[u] = left[u]
                                  /\ u \in held => u \in held'
  BY DEF WorkerStep, WorkerChecks, EntryFails, EntryNeedsReview, EntryFills, ExitRequested, ExitEnds,
         Resolve, SetRequest, SetPosition, HeldAfter, LInv, TypeOK, requestVars, positionVars
<1>4. req'[s] \in REQUEST_HOLD_STATES =>
        /\ req[s] \in REQUEST_HOLD_STATES
        /\ pos[s] = "OPENING" => pos'[s] = pos[s] /\ left'[s] = left[s]
        /\ s \in held => s \in held'
  <2>1. CASE WorkerChecks(s) \/ EntryNeedsReview(s)
    BY <2>1 DEF WorkerChecks, EntryNeedsReview, SetRequest, HeldAfter, REQUEST_HOLD_STATES,
                LInv, TypeOK, requestVars, positionVars
  <2>2. CASE EntryFails(s) \/ EntryFills(s)
    BY <2>2 DEF EntryFails, EntryFills, SetRequest, REQUEST_HOLD_STATES, LInv, TypeOK
  <2>3. CASE ExitRequested(s) \/ ExitEnds(s) \/ Resolve(s)
    BY <2>3 DEF ExitRequested, ExitEnds, Resolve, SetPosition, SESSION_POSITION_STATES,
                REQUEST_HOLD_STATES, requestVars
  <2> QED
    BY <2>1, <2>2, <2>3 DEF WorkerStep
<1>5. EntryInFlight'
  BY <1>3, <1>4 DEF LInv, EntryInFlight
<1>6. CompletedHasNoEntryInFlight'
  BY <1>1, <1>3, <1>4 DEF LInv, CompletedHasNoEntryInFlight, sessionVars
<1>7. KeyIsTaken'
  <2>1. req'[s] = req[s] \/ req[s] \in REQUEST_HOLD_STATES
    BY DEF WorkerStep, WorkerChecks, EntryFails, EntryNeedsReview, EntryFills, ExitRequested,
           ExitEnds, Resolve, SetRequest, SetPosition, requestVars, REQUEST_HOLD_STATES
  <2> QED
    BY <1>1, <1>3, <2>1 DEF LInv, KeyIsTaken, REQUEST_HOLD_STATES
<1> QED
  BY <1>2, <1>5, <1>6, <1>7 DEF Rest

\* The request in hand moves on: it was in flight and stays so.
LEMMA HandKeepsRest ==
  ASSUME LInv, HandStep
  PROVE  Rest'
<1>1. CASE WorkerCompares \/ WorkerLetsGo
  BY <1>1, RowsSame DEF WorkerCompares, WorkerLetsGo, callVars
<1>2. CASE WorkerSubmits
  <2> DEFINE s == hand.sig
  <2>0. s \in Signals /\ req[s] = "READY"
    BY <1>2 DEF WorkerSubmits, HandAt, LInv, HandOK
  <2>1. UNCHANGED <<sessionVars, made, owner, gate, call, positionVars, held>>
    BY <1>2 DEF WorkerSubmits, SetRequest, HeldAfter, REQUEST_HOLD_STATES, callVars
  <2>2. \A u \in Signals : req'[u] = IF u = s THEN "SUBMITTING" ELSE req[u]
    BY <1>2 DEF WorkerSubmits, SetRequest, LInv, TypeOK
  <2>3. GateOnActive' /\ CallsInProgress'
    BY <2>1 DEF LInv, GateOnActive, CallsInProgress, LockedByCall, sessionVars
  <2>4. EntryInFlight' /\ KeyIsTaken'
    BY <2>0, <2>1, <2>2 DEF LInv, EntryInFlight, KeyIsTaken, positionVars, REQUEST_HOLD_STATES
  <2>5. CompletedHasNoEntryInFlight'
    BY <2>0, <2>1, <2>2 DEF LInv, CompletedHasNoEntryInFlight, sessionVars, REQUEST_HOLD_STATES
  <2> QED
    BY <2>3, <2>4, <2>5 DEF Rest
<1> QED
  BY <1>1, <1>2 DEF HandStep

\* An endpoint that begins changes no row, and locks one that was free.
LEMMA BeginKeeps ==
  ASSUME LInv, NEW o \in Operators, NEW kind, NEW on, NEW from, Begins(o, kind, on, from),
         kind = "create" => /\ on \in Sessions /\ status[on] = "none"
                            /\ \A p \in Operators : call[p].on # on,
         kind \in { "readiness", "activate", "finish" } => on \in Sessions /\ status[on] # "none",
         kind = "readiness" => from \in { "READY", "DRAFT" },
         kind = "approve" => on \in Signals,
         kind \in { "activate", "finish" } => RowFree(on)
  PROVE  Rest'
<1> DEFINE r == [kind |-> kind, on |-> on, from |-> from]
<1>1. UNCHANGED <<sessionVars, requestVars, positionVars, gate>> /\ call[o] = NoCall
      /\ \A p \in Operators : call'[p] = IF p = o THEN r ELSE call[p]
  BY DEF Begins, LInv, TypeOK
<1>2. GateOnActive'
  <2>1. \A x : LockedByCall(x)' => LockedByCall(x) \/ (kind \in { "activate", "finish" } /\ on = x)
    BY <1>1 DEF LockedByCall
  <2>2. kind \in { "activate", "finish" } => \A g \in Gates : gate[g].sess # on
    BY DEF RowFree
  <2> QED
    BY <1>1, <2>1, <2>2 DEF LInv, GateOnActive, sessionVars
<1>3. CallsInProgress'
  <2>1. r.kind = kind /\ r.on = on /\ r.from = from
    OBVIOUS
  <2> HIDE DEF r
  <2> QED
    BY <1>1, <2>1 DEF LInv, CallsInProgress, sessionVars
<1>4. EntryInFlight' /\ KeyIsTaken' /\ CompletedHasNoEntryInFlight'
  BY <1>1 DEF LInv, EntryInFlight, KeyIsTaken, CompletedHasNoEntryInFlight,
              sessionVars, requestVars, positionVars
<1> QED
  BY <1>2, <1>3, <1>4 DEF Rest

\* The endpoints in progress after one has ended.
LEMMA EndsCalls ==
  ASSUME LInv, NEW o \in Operators, NEW kind, Ends(o, kind) \/ AtOnce(o)
  PROVE  /\ \A p \in Operators : call'[p] = call[p] \/ call'[p].kind = "none"
         /\ \A x : LockedByCall(x)' => LockedByCall(x)
<1>1. \A p \in Operators : call'[p] = call[p] \/ call'[p].kind = "none"
  BY DEF Ends, AtOnce, NoCall, LInv, TypeOK
<1> QED
  BY <1>1 DEF LockedByCall

\* What an endpoint that commits must respect: no gate loses its ACTIVE session,
\* a row exists once created, and a session becomes COMPLETED and STOPPED only
\* without an entry in flight.
LEMMA CommitKeeps ==
  ASSUME LInv, NEW o \in Operators, NEW kind, Ends(o, kind) \/ AtOnce(o),
         UNCHANGED <<requestVars, positionVars, gate>>,
         \A x \in Sessions : status[x] = "ACTIVE" /\ status'[x] # "ACTIVE" =>
           LockedByCall(x) \/ \A g \in Gates : gate[g].sess # x,
         \A x \in Sessions : status[x] # "none" => status'[x] # "none",
         \A x \in Sessions : status[x] = "none" /\ status'[x] # "none" =>
           \A p \in Operators : call'[p].kind = "create" => call'[p].on # x,
         \A x \in completed' : status'[x] = "STOPPED" =>
           (x \in completed /\ status[x] = "STOPPED") \/ ActiveEntries(x) = {}
  PROVE  Rest'
<1>1. GateOnActive'
  BY EndsCalls DEF LInv, GateOnActive
<1>2. CallsInProgress'
  <2>1. \A p \in Operators : call'[p] = call[p] \/ call'[p].kind = "none"
    BY EndsCalls
  <2>2. SUFFICES ASSUME NEW p \in Operators, call'[p] = call[p]
                 PROVE  /\ call[p].kind = "create" =>
                             /\ call[p].on \in Sessions /\ status'[call[p].on] = "none"
                             /\ \A q \in Operators :
                                  call'[q].kind = "create" /\ call'[q].on = call[p].on => q = p
                        /\ call[p].kind \in { "readiness", "activate", "finish" } =>
                             call[p].on \in Sessions /\ status'[call[p].on] # "none"
                        /\ call[p].kind = "readiness" => call[p].from \in { "READY", "DRAFT" }
                        /\ call[p].kind = "approve" => call[p].on \in Signals
    BY <2>1 DEF CallsInProgress
  <2>3. ASSUME call[p].kind = "create"
        PROVE  call[p].on \in Sessions /\ status[call[p].on] = "none"
    BY <2>3 DEF LInv, CallsInProgress
  <2>4. ASSUME call[p].kind = "create" PROVE status'[call[p].on] = "none"
    BY <2>2, <2>3, <2>4
  <2>5. ASSUME call[p].kind = "create", NEW q \in Operators,
               call'[q].kind = "create", call'[q].on = call[p].on
        PROVE  q = p
    <3>1. call'[q] = call[q]
      BY <2>1, <2>5
    <3> QED
      BY <2>5, <3>1 DEF LInv, CallsInProgress
  <2>6. ASSUME call[p].kind \in { "readiness", "activate", "finish" }
        PROVE  call[p].on \in Sessions /\ status'[call[p].on] # "none"
    BY <2>6 DEF LInv, CallsInProgress
  <2>7. /\ call[p].kind = "readiness" => call[p].from \in { "READY", "DRAFT" }
        /\ call[p].kind = "approve" => call[p].on \in Signals
    BY DEF LInv, CallsInProgress
  <2> QED
    BY <2>3, <2>4, <2>5, <2>6, <2>7
<1>3. EntryInFlight' /\ KeyIsTaken'
  BY DEF LInv, EntryInFlight, KeyIsTaken, requestVars, positionVars
<1>4. CompletedHasNoEntryInFlight'
  BY DEF LInv, CompletedHasNoEntryInFlight, ActiveEntries, OwnedBy, requestVars
<1> QED
  BY <1>1, <1>2, <1>3, <1>4 DEF Rest

\* The endpoints.
LEMMA OperatorKeeps ==
  ASSUME LInv, NEW o \in Operators, OperatorStep(o)
  PROVE  Rest'
<1>0. /\ status \in [Sessions -> SessionStates] /\ completed \subseteq Sessions
      /\ CallsInProgress
  BY DEF LInv, TypeOK
<1>1. ASSUME NEW x \in Sessions, CreateBegins(o, x) PROVE Rest'
  BY <1>1, BeginKeeps DEF CreateBegins
<1>2. ASSUME NEW x \in Sessions, ReadinessBegins(o, x) PROVE Rest'
  <2>1. PICK ready \in BOOLEAN : Begins(o, "readiness", x, IF ready THEN "READY" ELSE "DRAFT")
    BY <1>2 DEF ReadinessBegins
  <2>2. status[x] # "none"
    BY <1>2 DEF ReadinessBegins
  <2>3. CASE ready
    BY <2>1, <2>2, <2>3, BeginKeeps
  <2>4. CASE ~ready
    BY <2>1, <2>2, <2>4, BeginKeeps
  <2> QED
    BY <2>3, <2>4
<1>3. ASSUME NEW x \in Sessions, ActivateBegins(o, x) PROVE Rest'
  BY <1>3, BeginKeeps DEF ActivateBegins, Startable
<1>4. ASSUME NEW x \in Sessions, FinishBegins(o, x) PROVE Rest'
  BY <1>4, BeginKeeps DEF FinishBegins
<1>5. ASSUME NEW s \in Signals, ApproveBegins(o, s) PROVE Rest'
  BY <1>5, BeginKeeps DEF ApproveBegins
<1>6. CASE CreateEnds(o)
  <2>1. call[o].kind = "create" /\ call[o].on \in Sessions /\ status[call[o].on] = "none"
        /\ \A p \in Operators : call[p].kind = "create" /\ call[p].on = call[o].on => p = o
    BY <1>0, <1>6 DEF CreateEnds, Ends, CallsInProgress
  <2>2. \A x \in Sessions : status'[x] = IF x = call[o].on THEN "DRAFT" ELSE status[x]
    BY <1>0, <1>6 DEF CreateEnds
  <2>3. \A p \in Operators : call'[p] = IF p = o THEN NoCall ELSE call[p]
    BY <1>6 DEF CreateEnds, Ends, LInv, TypeOK
  <2>4. \A p \in Operators : call'[p].kind = "create" => call'[p].on # call[o].on
    BY <2>1, <2>3 DEF NoCall
  <2>5. UNCHANGED <<requestVars, positionVars, gate, completed>> /\ Ends(o, "create")
    BY <1>6 DEF CreateEnds
  <2> QED
    BY <1>0, <2>1, <2>2, <2>4, <2>5, CommitKeeps
<1>7. ASSUME NEW x \in Sessions, UpdateLimits(o, x) PROVE Rest'
  <2>1. \A y \in Sessions : status'[y] = IF y = x THEN "DRAFT" ELSE status[y]
    BY <1>0, <1>7 DEF UpdateLimits
  <2>2. UNCHANGED <<requestVars, positionVars, gate, completed>> /\ AtOnce(o)
        /\ status[x] \in Startable
    BY <1>7 DEF UpdateLimits
  <2> QED
    BY <1>0, <2>1, <2>2, CommitKeeps DEF Startable
<1>8. CASE ReadinessEnds(o)
  <2> DEFINE x == call[o].on
  <2>1. x \in Sessions /\ status[x] # "none" /\ call[o].from \in { "READY", "DRAFT" }
    BY <1>0, <1>8 DEF ReadinessEnds, Ends, CallsInProgress
  <2>2. \A y \in Sessions : status'[y] = IF y = x THEN call[o].from ELSE status[y]
    BY <1>0, <1>8 DEF ReadinessEnds
  <2>3. UNCHANGED <<requestVars, positionVars, gate, completed>> /\ Ends(o, "readiness") /\ RowFree(x)
    BY <1>8 DEF ReadinessEnds
  <2> HIDE DEF x
  <2> QED
    BY <1>0, <2>1, <2>2, <2>3, CommitKeeps DEF RowFree
<1>9. CASE ActivateEnds(o)
  <2> DEFINE x == call[o].on
  <2>1. x \in Sessions /\ status[x] # "none"
    BY <1>0, <1>9 DEF ActivateEnds, Ends, CallsInProgress
  <2>2. \A y \in Sessions : status'[y] = IF y = x THEN "ACTIVE"
                                         ELSE IF status[y] = "ACTIVE" THEN "STOPPED" ELSE status[y]
    BY <1>9 DEF ActivateEnds, StatusAfterActivate
  <2>3. UNCHANGED <<requestVars, positionVars, gate>> /\ Ends(o, "activate")
        /\ completed' = completed \ (ActiveSessions \ { x })
        /\ \A y \in ActiveSessions : RowFree(y)
    BY <1>9 DEF ActivateEnds
  <2> HIDE DEF x
  <2> QED
    BY <1>0, <2>1, <2>2, <2>3, CommitKeeps DEF RowFree, ActiveSessions
<1>10. ASSUME NEW x \in Sessions, StopSession(o, x) PROVE Rest'
  <2>1. \A y \in Sessions : status'[y] = IF y = x THEN "STOPPED" ELSE status[y]
    BY <1>0, <1>10 DEF StopSession
  <2>2. UNCHANGED <<requestVars, positionVars, gate>> /\ AtOnce(o) /\ completed' = completed \ { x }
        /\ status[x] # "none" /\ RowFree(x)
    BY <1>10 DEF StopSession
  <2> QED
    BY <1>0, <2>1, <2>2, CommitKeeps DEF RowFree
<1>11. CASE FinishEnds(o)
  <2> DEFINE x == call[o].on
  <2>1. x \in Sessions /\ status[x] # "none" /\ LockedByCall(x)
    BY <1>0, <1>11 DEF FinishEnds, Ends, CallsInProgress, LockedByCall
  <2>2. UNCHANGED <<requestVars, positionVars, gate>> /\ Ends(o, "finish")
    BY <1>11 DEF FinishEnds
  <2>3. CASE UNCHANGED <<status, completed>>
    BY <1>0, <2>2, <2>3, CommitKeeps
  <2>4. CASE ActiveEntries(x) = {} /\ status' = [status EXCEPT ![x] = "STOPPED"]
             /\ completed' = completed \cup { x }
    <3>1. \A y \in Sessions : status'[y] = IF y = x THEN "STOPPED" ELSE status[y]
      BY <1>0, <2>4
    <3> HIDE DEF x
    <3> QED
      BY <1>0, <2>1, <2>2, <2>4, <3>1, CommitKeeps
  <2> QED
    BY <1>11, <2>3, <2>4 DEF FinishEnds
<1>12. CASE KillSwitch(o) \/ MirrorSwitch(o) \/ SetReleaseMode(o)
  <2>1. UNCHANGED <<sessionVars, requestVars, positionVars, gate, call>>
    BY <1>12 DEF KillSwitch, MirrorSwitch, SetReleaseMode, AtOnce
  <2> QED
    BY <2>1, RowsSame
<1>13. CASE ApproveEnds(o)
  <2>1. UNCHANGED <<requestVars, positionVars, gate, status, completed>> /\ Ends(o, "approve")
    BY <1>13 DEF ApproveEnds, sessionVars
  <2> QED
    BY <1>0, <2>1, CommitKeeps
<1> QED
  BY <1>1, <1>2, <1>3, <1>4, <1>5, <1>6, <1>7, <1>8, <1>9, <1>10, <1>11, <1>12, <1>13 DEF OperatorStep

-----------------------------------------------------------------------------
(* The inductive invariant                                                  *)

\* It holds of the empty tables.
LEMMA LInvInit == Init => LInv
<1> SUFFICES ASSUME Init PROVE LInv
  OBVIOUS
<1>1. GateOnActive /\ CallsInProgress
  BY DEF Init, GateOnActive, CallsInProgress, Idle, NoCall
<1>2. EntryInFlight /\ KeyIsTaken /\ CompletedHasNoEntryInFlight
  BY DEF Init, EntryInFlight, KeyIsTaken, CompletedHasNoEntryInFlight, REQUEST_HOLD_STATES
<1>3. HandOK
  BY DEF Init, HandOK
<1> QED
  BY <1>1, <1>2, <1>3, TypeInit DEF LInv

\* What a step does to the request in hand.
LEMMA HandMoves ==
  ASSUME LInv, [Next]_vars
  PROVE  \/ UNCHANGED hand
         \/ hand' = NoHand
         \/ WorkerCompares
         \/ \E s \in Signals : WorkerChecks(s)
<1> USE DEF handVars
<1>1. ASSUME NEW s \in Signals, PaperFilled(s) \/ SignalAges(s) \/ MirrorBatch(s)
      PROVE  UNCHANGED hand
  BY <1>1 DEF PaperFilled, SignalAges, MirrorBatch
<1>2. ASSUME NEW s \in Signals, WorkerStep(s), ~WorkerChecks(s)
      PROVE  UNCHANGED hand \/ hand' = NoHand
  BY <1>2 DEF WorkerStep, EntryFails, EntryNeedsReview, EntryFills, ExitRequested, ExitEnds,
              Resolve, SetPosition
<1>3. ASSUME NEW g \in Gates, GateStep(g) PROVE UNCHANGED hand
  BY <1>3 DEF GateStep, GateSnapshot, GateLock, GateReadsSession, GateReadsReservations,
              GateChecksRisk, GateReleases, GateDefers, GateRejects
<1>4. ASSUME NEW o \in Operators, OperatorStep(o) PROVE UNCHANGED hand
  BY <1>4 DEF OperatorStep, CreateBegins, UpdateLimits, ReadinessBegins, ActivateBegins,
              StopSession, FinishBegins, CreateEnds, ReadinessEnds, ActivateEnds, FinishEnds,
              KillSwitch, MirrorSwitch, SetReleaseMode, ApproveBegins, ApproveEnds, Begins
<1>5. CASE HandStep
  BY <1>5 DEF HandStep, WorkerSubmits, WorkerLetsGo
<1>6. CASE UNCHANGED vars
  BY <1>6 DEF vars
<1> QED
  BY <1>1, <1>2, <1>3, <1>4, <1>5, <1>6 DEF Next

\* While the worker keeps a request in hand nobody changes its row: only the
\* worker itself would, and a gate would need a free key.
LEMMA HandRow ==
  ASSUME LInv, [Next]_vars, hand.pc # "idle"
  PROVE  \/ hand' = NoHand
         \/ req'[hand.sig] = "READY" /\ amount'[hand.sig] = amount[hand.sig]
<1> DEFINE h == hand.sig
<1>0. h \in Signals /\ req[h] = "READY" /\ made[h] > 0
  BY DEF LInv, HandOK, KeyIsTaken
<1>1. UNCHANGED requestVars => req'[h] = "READY" /\ amount'[h] = amount[h]
  BY <1>0 DEF requestVars
<1> HIDE DEF h
<1>2. ASSUME NEW s \in Signals, PaperFilled(s) \/ SignalAges(s) \/ MirrorBatch(s)
      PROVE  UNCHANGED requestVars
  BY <1>2 DEF PaperFilled, SignalAges, MirrorBatch
<1>3. ASSUME NEW s \in Signals, WorkerStep(s)
      PROVE  hand' = NoHand \/ UNCHANGED requestVars
  BY <1>3 DEF WorkerStep, WorkerChecks, EntryFails, EntryNeedsReview, EntryFills, ExitRequested,
              ExitEnds, Resolve, SetPosition, HandAt
<1>4. ASSUME NEW o \in Operators, OperatorStep(o) PROVE UNCHANGED requestVars
  BY <1>4 DEF OperatorStep, CreateBegins, UpdateLimits, ReadinessBegins, ActivateBegins,
              StopSession, FinishBegins, CreateEnds, ReadinessEnds, ActivateEnds, FinishEnds,
              KillSwitch, MirrorSwitch, SetReleaseMode, ApproveBegins, ApproveEnds, Begins
<1>5. ASSUME NEW g \in Gates, GateStep(g)
      PROVE  UNCHANGED requestVars \/ (KeyFree(gate[g].sig) /\ CreateLiveRows(g))
  BY <1>5 DEF GateStep, GateSnapshot, GateLock, GateReadsSession, GateReadsReservations,
              GateChecksRisk, GateReleases, GateDefers, GateRejects
<1>6. ASSUME NEW g \in Gates, KeyFree(gate[g].sig), CreateLiveRows(g)
      PROVE  req'[h] = "READY" /\ amount'[h] = amount[h]
  <2>1. gate[g].sig # h
    BY <1>0, <1>6 DEF KeyFree
  <2> QED
    BY <1>0, <1>6, <2>1 DEF CreateLiveRows, LInv, TypeOK
<1>7. HandStep => hand' = NoHand \/ UNCHANGED requestVars
  BY DEF HandStep, WorkerCompares, WorkerSubmits, WorkerLetsGo
<1>8. UNCHANGED vars => UNCHANGED requestVars
  BY DEF vars
<1> QED
  BY <1>1, <1>2, <1>3, <1>4, <1>5, <1>6, <1>7, <1>8 DEF Next, h

\* The limit in force is a number.
LEMMA MaxExposureType ==
  ASSUME TypeOK
  PROVE  MaxExposure \in Nat
<1>1. CASE ActiveSessions = {}
  BY <1>1, GlobalsAssumption DEF MaxExposure
<1>2. CASE ActiveSessions # {}
  <2>1. (CHOOSE x \in ActiveSessions : TRUE) \in Sessions
    BY <1>2 DEF ActiveSessions
  <2> QED
    BY <1>2, <2>1 DEF MaxExposure, TypeOK, LimitRecords
<1> QED
  BY <1>1, <1>2

\* What the worker reads is a sum of units.
LEMMA AtRiskCostType ==
  ASSUME TypeOK, NEW s
  PROVE  AtRiskCostBut(s) \in Nat
<1> DEFINE S == { u \in Signals \ { s } : pos[u] \in ACTIVE_POSITION_STATES }
<1>1. S \in SUBSET Signals /\ left \in [Signals -> Nat]
  BY DEF TypeOK
<1> HIDE DEF S
<1>2. Cardinality(Units(left, S)) \in Nat
  BY <1>1, UnitsFinite
<1> QED
  BY <1>2, SumsAsUnits DEF S

\* Orders are counted, and the count starts again when trading is switched on.
LEMMA KillCount ==
  ASSUME LInv, [Next]_vars
  PROVE  \/ UNCHANGED afterKill /\ (trading' = trading \/ trading' = FALSE)
         \/ WorkerSubmits
         \/ afterKill' = 0 /\ trading' = TRUE /\ UNCHANGED hand
<1> USE DEF handVars, flagVars
<1>1. ASSUME NEW s \in Signals, PaperFilled(s) \/ SignalAges(s) \/ MirrorBatch(s)
      PROVE  UNCHANGED <<afterKill, trading>>
  BY <1>1 DEF PaperFilled, SignalAges, MirrorBatch
<1>2. ASSUME NEW s \in Signals, WorkerStep(s) PROVE UNCHANGED <<afterKill, trading>>
  BY <1>2 DEF WorkerStep, WorkerChecks, EntryFails, EntryNeedsReview, EntryFills, ExitRequested,
              ExitEnds, Resolve, SetPosition
<1>3. ASSUME NEW g \in Gates, GateStep(g) PROVE UNCHANGED <<afterKill, trading>>
  BY <1>3 DEF GateStep, GateSnapshot, GateLock, GateReadsSession, GateReadsReservations,
              GateChecksRisk, GateReleases, GateDefers, GateRejects
<1>4. ASSUME NEW o \in Operators, OperatorStep(o)
      PROVE  \/ UNCHANGED afterKill /\ (trading' = trading \/ trading' = FALSE)
             \/ afterKill' = 0 /\ trading' = TRUE /\ UNCHANGED hand
  BY <1>4 DEF OperatorStep, CreateBegins, UpdateLimits, ReadinessBegins, ActivateBegins,
              StopSession, FinishBegins, CreateEnds, ReadinessEnds, ActivateEnds, FinishEnds,
              KillSwitch, MirrorSwitch, SetReleaseMode, ApproveBegins, ApproveEnds, Begins
<1>5. CASE HandStep
  BY <1>5 DEF HandStep, WorkerCompares, WorkerLetsGo
<1>6. CASE UNCHANGED vars
  BY <1>6 DEF vars
<1> QED
  BY <1>1, <1>2, <1>3, <1>4, <1>5, <1>6 DEF Next

HandRecords == [pc : { "idle", "exposure", "quote" }, sig : Signals \cup { NoSignal },
                seen : Nat, max : Nat]

\* What the worker holds keeps its type, and stays READY.
LEMMA HandKeeps ==
  ASSUME LInv, [Next]_vars
  PROVE  HandOK'
<1>0. hand \in HandRecords /\ NoHand \in HandRecords /\ NoHand.pc = "idle" /\ TypeOK /\ HandOK
      /\ afterKill \in Nat
  BY DEF LInv, HandOK, HandRecords, NoHand
<1>1. afterKill' \in Nat
  <2>1. CASE WorkerSubmits
    <3>1. afterKill' = afterKill \/ afterKill' = afterKill + 1
      BY <2>1 DEF WorkerSubmits
    <3> QED
      BY <1>0, <3>1
  <2>2. afterKill' = afterKill \/ WorkerSubmits \/ afterKill' = 0
    BY KillCount
  <2>3. 0 \in Nat
    OBVIOUS
  <2> QED
    BY <1>0, <2>1, <2>2, <2>3
<1>2. CASE UNCHANGED hand
  BY <1>0, <1>1, <1>2, HandRow DEF HandOK, HandRecords
<1>3. CASE hand' = NoHand
  BY <1>0, <1>1, <1>3 DEF HandOK, HandRecords
<1>4. CASE WorkerCompares
  <2>1. hand.pc = "exposure" /\ hand' = [hand EXCEPT !.pc = "quote"] /\ req' = req
    BY <1>4 DEF WorkerCompares, HandAt, requestVars
  <2>2. hand' \in HandRecords /\ hand'.sig = hand.sig
    BY <1>0, <2>1 DEF HandRecords
  <2> QED
    BY <1>0, <1>1, <2>1, <2>2 DEF HandOK, HandRecords
<1>5. ASSUME NEW s \in Signals, WorkerChecks(s) PROVE HandOK'
  <2>1. AtRiskCostBut(s) \in Nat /\ MaxExposure \in Nat
    BY <1>0, AtRiskCostType, MaxExposureType
  <2>2. hand' = [pc |-> "exposure", sig |-> s, seen |-> AtRiskCostBut(s), max |-> MaxExposure]
        /\ req' = req /\ req[s] = "READY"
    BY <1>5 DEF WorkerChecks, requestVars
  <2>3. hand' \in HandRecords /\ hand'.sig = s
    BY <2>1, <2>2 DEF HandRecords
  <2> QED
    BY <1>1, <2>2, <2>3 DEF HandOK, HandRecords
<1> QED
  BY <1>2, <1>3, <1>4, <1>5, HandMoves

\* Every step of a gate, of the worker and of an operator keeps it.
LEMMA LInvNext == LInv /\ [Next]_vars => LInv'
<1> SUFFICES ASSUME LInv, [Next]_vars PROVE TypeOK' /\ Rest'
  BY HandKeeps DEF LInv, Rest
<1>1. ASSUME NEW s \in Signals, PaperFilled(s) \/ SignalAges(s) \/ MirrorBatch(s)
      PROVE  TypeOK' /\ Rest'
  <2>1. UNCHANGED <<sessionVars, requestVars, positionVars, gate, call>>
    BY <1>1 DEF PaperFilled, SignalAges, MirrorBatch, callVars
  <2> QED
    BY <1>1, <2>1, SignalType, RowsSame DEF LInv
<1>2. ASSUME NEW s \in Signals, WorkerStep(s) PROVE TypeOK' /\ Rest'
  BY <1>2, WorkerType, WorkerKeeps DEF LInv
<1>3. ASSUME NEW g \in Gates, GateStep(g) PROVE TypeOK' /\ Rest'
  BY <1>3, GateType, GateKeeps DEF LInv
<1>4. ASSUME NEW o \in Operators, OperatorStep(o) PROVE TypeOK' /\ Rest'
  BY <1>4, OperatorType, OperatorKeeps DEF LInv
<1>5. CASE UNCHANGED vars
  <2>1. TypeOK'
    BY <1>5 DEF LInv, TypeOK, vars, flagVars, sessionVars, signalVars, requestVars, positionVars, callVars
  <2>2. UNCHANGED <<sessionVars, requestVars, positionVars, gate, call>>
    BY <1>5 DEF vars, callVars
  <2> QED
    BY <2>1, <2>2, RowsSame
<1>6. CASE HandStep
  BY <1>6, HandType, HandKeepsRest DEF LInv
<1> QED
  BY <1>1, <1>2, <1>3, <1>4, <1>5, <1>6 DEF Next

\* The inductive invariant holds in every reachable state.
LEMMA LInvAlways == Spec => []LInv
BY LInvInit, LInvNext, PTL DEF Spec

-----------------------------------------------------------------------------
(* The theorems                                                             *)

\* A session finished as COMPLETED keeps no entry in flight, however its finish
\* interleaves with gates, stops, activations and late readiness checks.
THEOREM CompletedSessionsAreQuiet == Spec => []CompletedHasNoEntryInFlight
<1>1. LInv => CompletedHasNoEntryInFlight
  BY DEF LInv
<1> QED
  BY <1>1, LInvAlways, PTL

\* Only a release inserts a LIVE request, and the session it is for is ACTIVE at
\* that commit.
THEOREM ReleasesNeedAnActiveSession == Spec => ReleasedUnderActiveSession
<1> DEFINE A == \A s \in Signals : made'[s] > made[s] => status[owner'[s]] = "ACTIVE"
<1>1. LInv /\ [Next]_vars => A
  <2> SUFFICES ASSUME LInv, [Next]_vars, NEW s \in Signals, made'[s] > made[s]
               PROVE  status[owner'[s]] = "ACTIVE"
    OBVIOUS
  <2>0. made[s] \in Nat
    BY DEF LInv, TypeOK
  <2>1. PICK g \in Gates : GateReleases(g) /\ CreateLiveRows(g)
    <3>1. CASE made' = made
      BY <2>0, <3>1
    <3>2. ASSUME NEW u \in Signals, PaperFilled(u) \/ SignalAges(u) \/ MirrorBatch(u) PROVE made' = made
      BY <3>2 DEF PaperFilled, SignalAges, MirrorBatch, requestVars
    <3>3. ASSUME NEW u \in Signals, WorkerStep(u) PROVE made' = made
      BY <3>3 DEF WorkerStep, WorkerChecks, EntryFails, EntryNeedsReview, EntryFills, ExitRequested,
                  ExitEnds, Resolve, SetRequest, SetPosition, requestVars
    <3>4. ASSUME NEW o \in Operators, OperatorStep(o) PROVE made' = made
      BY <3>4 DEF OperatorStep, CreateBegins, UpdateLimits, ReadinessBegins, ActivateBegins,
                  StopSession, FinishBegins, CreateEnds, ReadinessEnds, ActivateEnds, FinishEnds,
                  KillSwitch, MirrorSwitch, SetReleaseMode, ApproveBegins, ApproveEnds, Begins, requestVars
    <3>5. ASSUME NEW g \in Gates, GateStep(g)
          PROVE  made' = made \/ (GateReleases(g) /\ CreateLiveRows(g))
      <4>1. GateRejects(g) \/ GateDefers(g) => made' = made
        BY DEF GateDefers, GateRejects, requestVars
      <4>2. CASE GateReleases(g)
        BY <4>1, <4>2 DEF GateReleases
      <4>3. CASE GateLock(g)
        BY <4>1, <4>3 DEF GateLock, requestVars
      <4>4. CASE GateChecksRisk(g)
        BY <4>1, <4>4 DEF GateChecksRisk, requestVars
      <4>5. CASE GateReadsSession(g) \/ GateReadsReservations(g) \/ \E u \in Signals : GateSnapshot(g, u)
        BY <4>5 DEF GateReadsSession, GateReadsReservations, GateSnapshot, requestVars
      <4> QED
        BY <3>5, <4>1, <4>2, <4>3, <4>4, <4>5 DEF GateStep
    <3>6. CASE UNCHANGED vars
      BY <3>1, <3>6 DEF vars, requestVars
    <3>7. CASE HandStep
      BY <3>1, <3>7 DEF HandStep, WorkerCompares, WorkerSubmits, WorkerLetsGo, SetRequest, requestVars
    <3> QED
      BY <3>1, <3>2, <3>3, <3>4, <3>5, <3>6, <3>7 DEF Next
  <2>2. s = gate[g].sig
    BY <2>0, <2>1 DEF CreateLiveRows, LInv, TypeOK
  <2>3. owner'[s] = gate[g].sess
    BY <2>1, <2>2 DEF CreateLiveRows, LInv, TypeOK
  <2> QED
    BY <2>1, <2>3 DEF GateReleases, GateAt, LInv, GateOnActive
<1> QED
  BY <1>1, LInvAlways, PTL DEF Spec, ReleasedUnderActiveSession

\* The two sums of AtRisk.
Exposed == { u \in Signals \ { NoSignal } : pos[u] \in ACTIVE_POSITION_STATES }
OrderedOut == { s \in Signals : req[s] \in { "SUBMITTING", "MANUAL_REVIEW_REQUIRED" } }

SharesHeld == Cardinality(Units(left, Exposed))

\* AtRisk counts the shares held and the amounts ordered.
LEMMA AtRiskSums ==
  ASSUME TypeOK
  PROVE  /\ AtRisk = Cardinality(Units(left, Exposed)) + Cardinality(Units(amount, OrderedOut))
         /\ Cardinality(Units(left, Exposed)) \in Nat
         /\ Cardinality(Units(amount, OrderedOut)) \in Nat
<1>1. AtRisk = Cardinality(Units(left, Exposed)) + Cardinality(Units(amount, OrderedOut))
  BY DEF AtRisk, AtRiskCostBut, SumOver, Units, Exposed, OrderedOut
<1>2. left \in [Signals -> Nat] /\ Exposed \in SUBSET Signals
      /\ amount \in [Signals -> Nat] /\ OrderedOut \in SUBSET Signals
  BY DEF TypeOK, Exposed, OrderedOut
<1> QED
  BY <1>1, <1>2, UnitsFinite

\* The same in the next state.
LEMMA AtRiskSumsNext ==
  ASSUME TypeOK'
  PROVE  /\ AtRisk' = Cardinality(Units(left', Exposed')) + Cardinality(Units(amount', OrderedOut'))
         /\ Cardinality(Units(left', Exposed')) \in Nat
         /\ Cardinality(Units(amount', OrderedOut')) \in Nat
<1>1. AtRisk' = Cardinality(Units(left', Exposed')) + Cardinality(Units(amount', OrderedOut'))
  BY DEF AtRisk, AtRiskCostBut, SumOver, Units, Exposed, OrderedOut
<1>2. left' \in [Signals -> Nat] /\ Exposed' \in SUBSET Signals
      /\ amount' \in [Signals -> Nat] /\ OrderedOut' \in SUBSET Signals
  BY DEF TypeOK, Exposed, OrderedOut
<1> QED
  BY <1>1, <1>2, UnitsFinite

\* A step that neither adds shares nor sends an order adds no risk.
LEMMA NothingAdded ==
  ASSUME TypeOK, TypeOK',
         \A u \in Signals : pos'[u] \in ACTIVE_POSITION_STATES =>
           left'[u] = 0 \/ (pos[u] \in ACTIVE_POSITION_STATES /\ left'[u] <= left[u]),
         \A u \in Signals : u \in OrderedOut' => u \in OrderedOut /\ amount'[u] <= amount[u]
  PROVE  AtRisk' <= AtRisk /\ SharesHeld' <= SharesHeld
<1>1. /\ left \in [Signals -> Nat] /\ Exposed \in SUBSET Signals
      /\ amount \in [Signals -> Nat] /\ OrderedOut \in SUBSET Signals
      /\ left' \in [Signals -> Nat] /\ Exposed' \in SUBSET Signals
      /\ amount' \in [Signals -> Nat] /\ OrderedOut' \in SUBSET Signals
  BY DEF TypeOK, Exposed, OrderedOut
<1>2. \A u \in Exposed' : (u \in Exposed /\ left'[u] <= left[u]) \/ left'[u] = 0
  BY DEF Exposed
<1>3. Cardinality(Units(left', Exposed')) <= Cardinality(Units(left, Exposed))
  BY <1>1, <1>2, UnitsMonotone
<1>4. \A u \in OrderedOut' : (u \in OrderedOut /\ amount'[u] <= amount[u]) \/ amount'[u] = 0
  BY <1>1
<1>5. Cardinality(Units(amount', OrderedOut')) <= Cardinality(Units(amount, OrderedOut))
  BY <1>1, <1>4, UnitsMonotone
<1>6. SharesHeld' = Cardinality(Units(left', Exposed'))
  BY DEF SharesHeld
<1> QED
  BY <1>3, <1>5, <1>6, AtRiskSums, AtRiskSumsNext DEF SharesHeld

\* A fill turns an order of the amount into at most as many shares.
LEMMA FillAddsNothing ==
  ASSUME TypeOK, TypeOK', NEW s \in Signals, EntryFills(s)
  PROVE  AtRisk' <= AtRisk
<1> DEFINE E == Exposed \ { s }
<1>1. /\ left \in [Signals -> Nat] /\ Exposed \in SUBSET Signals /\ E \in SUBSET Signals
      /\ amount \in [Signals -> Nat] /\ OrderedOut \in SUBSET Signals
      /\ left' \in [Signals -> Nat] /\ Exposed' \in SUBSET Signals
      /\ OrderedOut' \in SUBSET Signals /\ s \notin E
  BY DEF TypeOK, Exposed, OrderedOut
<1>2. amount' = amount /\ left'[s] \in 1 .. amount[s]
      /\ \A u \in Signals : u # s => left'[u] = left[u] /\ pos'[u] = pos[u] /\ req'[u] = req[u]
  BY DEF EntryFills, SetRequest, TypeOK
<1>3. OrderedOut = OrderedOut' \cup { s } /\ s \notin OrderedOut'
  BY <1>2 DEF EntryFills, SetRequest, OrderedOut, TypeOK
<1>4. Cardinality(Units(amount, OrderedOut)) = Cardinality(Units(amount, OrderedOut')) + amount[s]
  BY <1>1, <1>3, UnitsAdd
<1>5. Cardinality(Units(left', E \cup { s })) = Cardinality(Units(left', E)) + left'[s]
  BY <1>1, UnitsAdd
<1>6. Cardinality(Units(left', E)) <= Cardinality(Units(left, Exposed))
  BY <1>1, <1>2, UnitsMonotone
<1>7. Cardinality(Units(left', Exposed')) <= Cardinality(Units(left', E \cup { s }))
  <2>1. \A u \in Exposed' : u \in E \cup { s } /\ left'[u] <= left'[u]
    BY <1>1, <1>2 DEF Exposed
  <2> QED
    BY <1>1, <2>1, UnitsMonotone
<1>8. Cardinality(Units(left', E)) \in Nat /\ Cardinality(Units(left', E \cup { s })) \in Nat
  BY <1>1, UnitsFinite
<1>9. amount[s] \in Nat /\ left'[s] \in Nat /\ left'[s] <= amount[s]
  BY <1>1, <1>2
<1> HIDE DEF E
<1> QED
  BY <1>2, <1>4, <1>5, <1>6, <1>7, <1>8, <1>9, AtRiskSums, AtRiskSumsNext

\* Whoever steps, unless the worker sends an order, the money at risk does not
\* grow; and while the worker has a request in hand, no shares are bought.
LEMMA OnlyOrdersAddRisk ==
  ASSUME LInv, [Next]_vars, ~WorkerSubmits
  PROVE  AtRisk' <= AtRisk /\ (hand.pc # "idle" => SharesHeld' <= SharesHeld)
<1>0. TypeOK /\ TypeOK' /\ EntryInFlight
  BY LInvNext DEF LInv
<1>1. /\ \A u \in Signals : left[u] \in Nat /\ amount[u] \in Nat
      /\ UNCHANGED <<req, amount, pos, left>> => AtRisk' <= AtRisk /\ SharesHeld' <= SharesHeld
  <2>1. \A u \in Signals : left[u] \in Nat /\ amount[u] \in Nat
    BY <1>0 DEF TypeOK
  <2>2. ASSUME UNCHANGED <<req, amount, pos, left>>
        PROVE  AtRisk' <= AtRisk /\ SharesHeld' <= SharesHeld
    BY <1>0, <2>1, <2>2, NothingAdded DEF OrderedOut
  <2> QED
    BY <2>1, <2>2
<1>2. UNCHANGED <<requestVars, positionVars>> => AtRisk' <= AtRisk /\ SharesHeld' <= SharesHeld
  BY <1>1 DEF requestVars, positionVars
<1>3. ASSUME NEW s \in Signals, PaperFilled(s) \/ SignalAges(s) \/ MirrorBatch(s)
      PROVE  UNCHANGED <<requestVars, positionVars>>
  BY <1>3 DEF PaperFilled, SignalAges, MirrorBatch
<1>4. ASSUME NEW o \in Operators, OperatorStep(o) PROVE UNCHANGED <<requestVars, positionVars>>
  BY <1>4 DEF OperatorStep, CreateBegins, UpdateLimits, ReadinessBegins, ActivateBegins,
              StopSession, FinishBegins, CreateEnds, ReadinessEnds, ActivateEnds, FinishEnds,
              KillSwitch, MirrorSwitch, SetReleaseMode, ApproveBegins, ApproveEnds, Begins
<1>5. ASSUME NEW s \in Signals, WorkerStep(s)
      PROVE  AtRisk' <= AtRisk /\ (hand.pc # "idle" => SharesHeld' <= SharesHeld)
  <2>1. CASE WorkerChecks(s)
    BY <1>2, <2>1 DEF WorkerChecks
  <2>2. CASE EntryFills(s)
    BY <1>0, <2>2, FillAddsNothing DEF EntryFills, HandAt
  <2>3. CASE EntryFails(s)
    <3>1. /\ \A u \in Signals : u # s => pos'[u] = pos[u] /\ req'[u] = req[u]
          /\ pos'[s] = "ENTRY_FAILED" /\ req'[s] = "REJECTED" /\ UNCHANGED <<left, amount>>
      BY <1>0, <2>3 DEF EntryFails, SetRequest, TypeOK
    <3>2. \A u \in Signals : u \in OrderedOut' => u \in OrderedOut /\ amount'[u] <= amount[u]
      BY <1>1, <3>1 DEF OrderedOut
    <3>3. \A u \in Signals : pos'[u] \in ACTIVE_POSITION_STATES =>
            left'[u] = 0 \/ (pos[u] \in ACTIVE_POSITION_STATES /\ left'[u] <= left[u])
      BY <1>1, <3>1 DEF ACTIVE_POSITION_STATES, SESSION_POSITION_STATES
    <3> QED
      BY <1>0, <3>2, <3>3, NothingAdded
  <2>4. CASE EntryNeedsReview(s)
    <3>1. \A u \in Signals : u \in OrderedOut' => u \in OrderedOut /\ amount'[u] <= amount[u]
      BY <1>0, <1>1, <2>4 DEF EntryNeedsReview, SetRequest, OrderedOut, TypeOK
    <3>2. \A u \in Signals : pos'[u] \in ACTIVE_POSITION_STATES =>
            left'[u] = 0 \/ (pos[u] \in ACTIVE_POSITION_STATES /\ left'[u] <= left[u])
      BY <1>1, <2>4 DEF EntryNeedsReview, positionVars
    <3> QED
      BY <1>0, <3>1, <3>2, NothingAdded
  <2>5. CASE ExitRequested(s) \/ ExitEnds(s) \/ Resolve(s)
    <3>1. /\ UNCHANGED requestVars /\ pos[s] \in ACTIVE_POSITION_STATES /\ left'[s] <= left[s]
          /\ \A u \in Signals : u # s => pos'[u] = pos[u] /\ left'[u] = left[u]
      BY <1>0, <1>1, <2>5 DEF ExitRequested, ExitEnds, Resolve, SetPosition, TypeOK,
                              ACTIVE_POSITION_STATES, SESSION_POSITION_STATES
    <3>2. \A u \in Signals : u \in OrderedOut' => u \in OrderedOut /\ amount'[u] <= amount[u]
      BY <1>1, <3>1 DEF OrderedOut, requestVars
    <3>3. \A u \in Signals : pos'[u] \in ACTIVE_POSITION_STATES =>
            left'[u] = 0 \/ (pos[u] \in ACTIVE_POSITION_STATES /\ left'[u] <= left[u])
      BY <1>1, <3>1
    <3> QED
      BY <1>0, <3>2, <3>3, NothingAdded
  <2> QED
    BY <1>5, <2>1, <2>2, <2>3, <2>4, <2>5 DEF WorkerStep
<1>6. ASSUME NEW g \in Gates, GateStep(g)
      PROVE  UNCHANGED <<requestVars, positionVars>> \/ CreateLiveRows(g)
  BY <1>6 DEF GateStep, GateSnapshot, GateLock, GateReadsSession, GateReadsReservations,
              GateChecksRisk, GateReleases, GateDefers, GateRejects
<1>7. ASSUME NEW g \in Gates, CreateLiveRows(g)
      PROVE  AtRisk' <= AtRisk /\ SharesHeld' <= SharesHeld
  <2> DEFINE s == gate[g].sig
  <2>1. \A u \in Signals :
          /\ u = s => req'[u] = "READY" /\ left'[u] = 0
          /\ u # s => req'[u] = req[u] /\ left'[u] = left[u] /\ pos'[u] = pos[u]
                      /\ amount'[u] = amount[u]
    BY <1>0, <1>7 DEF CreateLiveRows, TypeOK
  <2>2. \A u \in Signals : u \in OrderedOut' => u \in OrderedOut /\ amount'[u] <= amount[u]
    BY <1>1, <2>1 DEF OrderedOut
  <2>3. \A u \in Signals : pos'[u] \in ACTIVE_POSITION_STATES =>
          left'[u] = 0 \/ (pos[u] \in ACTIVE_POSITION_STATES /\ left'[u] <= left[u])
    BY <1>1, <2>1
  <2> QED
    BY <1>0, <2>2, <2>3, NothingAdded
<1>8. HandStep => UNCHANGED <<requestVars, positionVars>>
  BY DEF HandStep, WorkerCompares, WorkerLetsGo
<1>9. UNCHANGED vars => UNCHANGED <<requestVars, positionVars>>
  BY DEF vars
<1> QED
  BY <1>2, <1>3, <1>4, <1>5, <1>6, <1>7, <1>8, <1>9 DEF Next

\* What the worker knows between its checks and the order: of the shares it read
\* none were bought since, and once compared, the order still fits.  An order
\* sent with trading off is the last until trading is on again.
HandWithin ==
  /\ hand.pc = "exposure" => SharesHeld <= hand.seen
  /\ hand.pc = "quote" => AtRisk + amount[hand.sig] <= hand.max
  /\ afterKill = 0 \/ (afterKill = 1 /\ ~trading /\ hand.pc = "idle")

\* The cost the worker reads is all there is: its own position has no shares.
LEMMA ReadIsShares ==
  ASSUME LInv, NEW s \in Signals, req[s] = "READY"
  PROVE  SharesHeld <= AtRiskCostBut(s)
<1> DEFINE X == { u \in Signals \ { s } : pos[u] \in ACTIVE_POSITION_STATES }
<1>1. left \in [Signals -> Nat] /\ Exposed \in SUBSET Signals /\ X \in SUBSET Signals
  BY DEF LInv, TypeOK, Exposed
<1>2. left[s] = 0
  BY DEF LInv, EntryInFlight, REQUEST_HOLD_STATES
<1>3. \A u \in Exposed : (u \in X /\ left[u] <= left[u]) \/ left[u] = 0
  BY <1>1, <1>2 DEF Exposed
<1>4. Cardinality(Units(left, Exposed)) <= Cardinality(Units(left, X))
  BY <1>1, <1>3, UnitsMonotone
<1>5. AtRiskCostBut(s) = Cardinality(Units(left, X))
  BY SumsAsUnits
<1> QED
  BY <1>4, <1>5 DEF SharesHeld

\* The comparison covers every order that is out: what is ordered is part of the
\* reservations counted.
LEMMA CompareCovers ==
  ASSUME LInv, HandWithin, WorkerCompares
  PROVE  AtRisk + amount[hand.sig] <= hand.max
<1> DEFINE s == hand.sig
           R == { u \in Signals \ { s } : req[u] \in REQUEST_HOLD_STATES } \cap held
<1>0. TypeOK /\ EntryInFlight /\ hand.pc = "exposure" /\ SharesHeld <= hand.seen
  BY DEF LInv, HandWithin, WorkerCompares, HandAt
<1>1. s \in Signals /\ req[s] = "READY" /\ hand.seen \in Nat /\ hand.max \in Nat
  BY <1>0 DEF LInv, HandOK
<1>2. amount \in [Signals -> Nat] /\ OrderedOut \in SUBSET Signals /\ R \in SUBSET Signals
  BY <1>0 DEF TypeOK, OrderedOut
<1>3. hand.seen + Cardinality(Units(amount, R)) + amount[s] <= hand.max
  <2>1. ReservedExposureBut(s) = Cardinality(Units(amount, R))
    BY SumsAsUnits DEF ReservedExposureBut
  <2> QED
    BY <2>1 DEF WorkerCompares, WithinMax
<1>4. \A u \in OrderedOut : (u \in R /\ amount[u] <= amount[u]) \/ amount[u] = 0
  BY <1>0, <1>1, <1>2 DEF OrderedOut, EntryInFlight, REQUEST_HOLD_STATES
<1>5. Cardinality(Units(amount, OrderedOut)) <= Cardinality(Units(amount, R))
  BY <1>2, <1>4, UnitsMonotone
<1>6. Cardinality(Units(amount, R)) \in Nat /\ amount[s] \in Nat
  BY <1>1, <1>2, UnitsFinite
<1>7. /\ AtRisk = SharesHeld + Cardinality(Units(amount, OrderedOut))
      /\ SharesHeld \in Nat /\ Cardinality(Units(amount, OrderedOut)) \in Nat
  BY <1>0, AtRiskSums DEF SharesHeld
<1> HIDE DEF s, R
<1> QED
  BY <1>0, <1>1, <1>3, <1>5, <1>6, <1>7 DEF s

\* Sending the order in hand adds its amount.
LEMMA OrderAddsAmount ==
  ASSUME LInv, TypeOK', WorkerSubmits
  PROVE  AtRisk' = AtRisk + amount[hand.sig]
<1> DEFINE s == hand.sig
<1>0. TypeOK /\ s \in Signals /\ req[s] = "READY"
  BY DEF LInv, HandOK, WorkerSubmits, HandAt
<1>1. amount \in [Signals -> Nat] /\ OrderedOut \in SUBSET Signals /\ amount[s] \in Nat
  BY <1>0 DEF TypeOK, OrderedOut
<1>2. UNCHANGED <<left, pos, amount>>
      /\ \A u \in Signals : req'[u] = IF u = s THEN "SUBMITTING" ELSE req[u]
  BY <1>0 DEF WorkerSubmits, SetRequest, TypeOK, positionVars
<1>3. Exposed' = Exposed /\ OrderedOut' = OrderedOut \cup { s } /\ s \notin OrderedOut
  BY <1>0, <1>2 DEF Exposed, OrderedOut
<1>4. Cardinality(Units(amount, OrderedOut \cup { s })) = Cardinality(Units(amount, OrderedOut)) + amount[s]
  BY <1>0, <1>1, <1>3, UnitsAdd
<1>5. AtRisk' = Cardinality(Units(left, Exposed)) + Cardinality(Units(amount, OrderedOut \cup { s }))
  BY <1>2, <1>3, AtRiskSumsNext, Zenon
<1>6. /\ AtRisk = Cardinality(Units(left, Exposed)) + Cardinality(Units(amount, OrderedOut))
      /\ Cardinality(Units(left, Exposed)) \in Nat /\ Cardinality(Units(amount, OrderedOut)) \in Nat
  BY <1>0, AtRiskSums
<1> HIDE DEF s
<1> QED
  BY <1>1, <1>4, <1>5, <1>6 DEF s

\* What the worker knows stays true until it sends the order.
LEMMA HandWithinNext ==
  ASSUME LInv, HandWithin, [Next]_vars
  PROVE  HandWithin'
<1>0. /\ TypeOK /\ TypeOK' /\ HandOK /\ NoHand.pc = "idle" /\ afterKill \in Nat
      /\ hand \in HandRecords
  BY LInvNext DEF LInv, HandOK, NoHand, HandRecords
<1>1. /\ AtRisk \in Nat /\ AtRisk' \in Nat /\ SharesHeld \in Nat /\ SharesHeld' \in Nat
  <2>1. SharesHeld' = Cardinality(Units(left', Exposed'))
    BY DEF SharesHeld
  <2> QED
    BY <1>0, <2>1, AtRiskSums, AtRiskSumsNext DEF SharesHeld
<1>2. afterKill' = 0 \/ (afterKill' = 1 /\ ~trading' /\ hand'.pc = "idle")
  <2>1. CASE WorkerSubmits
    <3>1. afterKill = 0 /\ hand'.pc = "idle" /\ trading' = trading
      BY <1>0, <2>1 DEF WorkerSubmits, HandAt, HandWithin, flagVars
    <3>2. CASE trading
      BY <2>1, <3>1, <3>2 DEF WorkerSubmits
    <3>3. CASE ~trading
      <4>1. afterKill' = 0 + 1
        BY <2>1, <3>1, <3>3 DEF WorkerSubmits
      <4> QED
        BY <3>1, <3>3, <4>1
    <3> QED
      BY <3>2, <3>3
  <2>2. CASE afterKill' = 0
    BY <2>2
  <2>3. CASE UNCHANGED afterKill /\ (trading' = trading \/ trading' = FALSE) /\ afterKill # 0
    <3>1. afterKill = 1 /\ ~trading /\ hand.pc = "idle"
      BY <2>3 DEF HandWithin
    <3>2. UNCHANGED hand \/ hand' = NoHand
      BY <3>1, HandMoves DEF WorkerCompares, WorkerChecks, HandAt
    <3> QED
      BY <1>0, <2>3, <3>1, <3>2
  <2> QED
    BY <2>1, <2>2, <2>3, KillCount
<1>3. CASE hand' = NoHand
  BY <1>0, <1>2, <1>3 DEF HandWithin
<1>4. CASE UNCHANGED hand /\ hand # NoHand
  <2>1. ~WorkerSubmits
    BY <1>4 DEF WorkerSubmits
  <2>2. hand.pc # "idle" => amount'[hand.sig] = amount[hand.sig]
    BY <1>0, <1>4, HandRow
  <2>3. hand.pc # "idle" => amount[hand.sig] \in Nat /\ hand.seen \in Nat /\ hand.max \in Nat
    BY <1>0 DEF HandOK, TypeOK
  <2>4. AtRisk' <= AtRisk /\ (hand.pc # "idle" => SharesHeld' <= SharesHeld)
    BY <2>1, OnlyOrdersAddRisk
  <2>5. hand.pc = "exposure" => SharesHeld' <= hand.seen
    BY <1>1, <2>3, <2>4 DEF HandWithin
  <2>6. hand.pc = "quote" => AtRisk' + amount[hand.sig] <= hand.max
    <3>1. ASSUME hand.pc = "quote" PROVE AtRisk' + amount[hand.sig] <= hand.max
      <4>1. AtRisk + amount[hand.sig] <= hand.max
        BY <3>1 DEF HandWithin
      <4> QED
        BY <1>1, <2>3, <2>4, <3>1, <4>1
    <3> QED
      BY <3>1
  <2> QED
    BY <1>2, <1>4, <2>2, <2>5, <2>6 DEF HandWithin
<1>5. CASE WorkerCompares
  <2>1. hand' = [hand EXCEPT !.pc = "quote"] /\ UNCHANGED <<req, amount, pos, left>>
    BY <1>5 DEF WorkerCompares, requestVars, positionVars
  <2>2. hand'.pc = "quote" /\ hand'.sig = hand.sig /\ hand'.max = hand.max
    BY <1>0, <2>1 DEF HandRecords
  <2>3. AtRisk' = AtRisk
    BY <2>1 DEF AtRisk, AtRiskCostBut, SumOver
  <2>4. AtRisk + amount[hand.sig] <= hand.max
    BY <1>5, CompareCovers
  <2> QED
    BY <1>2, <2>1, <2>2, <2>3, <2>4 DEF HandWithin
<1>6. ASSUME NEW s \in Signals, WorkerChecks(s) PROVE HandWithin'
  <2>1. hand' = [pc |-> "exposure", sig |-> s, seen |-> AtRiskCostBut(s), max |-> MaxExposure]
        /\ UNCHANGED <<pos, left>> /\ req[s] = "READY"
    BY <1>6 DEF WorkerChecks, positionVars
  <2>2. SharesHeld' = SharesHeld
    BY <2>1 DEF SharesHeld, Exposed
  <2>3. SharesHeld <= AtRiskCostBut(s)
    BY <2>1, ReadIsShares
  <2>4. hand'.pc = "exposure" /\ hand'.seen = AtRiskCostBut(s)
    BY <2>1
  <2> QED
    BY <1>2, <2>2, <2>3, <2>4 DEF HandWithin
<1> QED
  BY <1>3, <1>4, <1>5, <1>6, HandMoves

\* It holds when nothing is in hand.
LEMMA HandWithinInit == Init => HandWithin
BY DEF Init, HandWithin

\* Both invariants hold in every reachable state.
LEMMA HandWithinAlways == Spec => [](LInv /\ HandWithin)
<1>1. LInv /\ HandWithin /\ [Next]_vars => LInv' /\ HandWithin'
  BY LInvNext, HandWithinNext
<1> QED
  BY <1>1, LInvInit, HandWithinInit, PTL DEF Spec

\* For any number of sessions, gates and operators, an order goes out only within
\* the exposure limit the worker read for it, whatever is released, closed,
\* settled or reconfigured between its queries and its commit.
THEOREM RiskIsLimited == Spec => RiskGrowsWithinLimit
<1> DEFINE A == AtRisk' > AtRisk => AtRisk' <= hand.max
<1>1. LInv /\ HandWithin /\ [Next]_vars => A
  <2> SUFFICES ASSUME LInv, HandWithin, [Next]_vars PROVE A
    OBVIOUS
  <2>0. TypeOK /\ TypeOK'
    BY LInvNext DEF LInv
  <2>1. AtRisk \in Nat /\ AtRisk' \in Nat
    BY <2>0, AtRiskSums, AtRiskSumsNext
  <2>2. CASE WorkerSubmits
    <3>1. AtRisk' = AtRisk + amount[hand.sig]
      BY <2>0, <2>2, OrderAddsAmount
    <3>2. AtRisk + amount[hand.sig] <= hand.max
      BY <2>2 DEF WorkerSubmits, HandAt, HandWithin
    <3> QED
      BY <3>1, <3>2
  <2>3. CASE ~WorkerSubmits
    BY <2>1, <2>3, OnlyOrdersAddRisk
  <2> QED
    BY <2>2, <2>3
<1> QED
  BY <1>1, HandWithinAlways, PTL DEF Spec, RiskGrowsWithinLimit

\* For any number of sessions, gates and operators, at most one order goes out
\* after LIVE trading has been switched off: the one the worker had in hand.
THEOREM KillSwitchStopsOrders == Spec => []OneOrderAfterKill
<1>1. LInv /\ HandWithin => OneOrderAfterKill
  BY DEF HandWithin, OneOrderAfterKill
<1> QED
  BY <1>1, HandWithinAlways, PTL
=============================================================================
