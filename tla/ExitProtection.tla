--------------------------- MODULE ExitProtection ---------------------------
(***************************************************************************)
(* Stop-loss and take-profit of filled positions: the two scheduler jobs,   *)
(* the native GTD take-profit, the operator's close, and what the ways a    *)
(* CLOSE can end do to the protection.                                      *)
(*                                                                         *)
(* Each job loads the positions it watches once and keeps working with the  *)
(* rows it loaded: the sessions do not expire objects on commit, and a      *)
(* SELECT ... FOR UPDATE does not refresh an object the session holds.  A   *)
(* CLOSE is one row here, from READY to its end; ExecutionLifecycle follows *)
(* it through the worker.                                                   *)
(***************************************************************************)
EXTENDS Naturals

CONSTANTS
    Trades,     \* filled positions, each in a market of its own
    NoTrade,
    Size,       \* shares bought
    MaxExit,    \* exit_attempts at which the jobs give up (10 in the code)
    MaxManual   \* bound: the operator closes a position with fewer CLOSEs than this

ASSUME ProtectionAssumption ==
    /\ NoTrade \notin Trades
    /\ Size \in Nat \ {0} /\ MaxExit \in Nat /\ MaxManual \in Nat

VARIABLES
    mode,       \* PAPER or LIVE
    gtd,        \* TAKE_PROFIT_ORDER_MODE is GTD
    watch,      \* watch[t]: stop_loss_pct is set, take_profit_enabled; fixed
    phase,      \* phase[t]: the market's end is far, near, past; or it is resolved
    bid,        \* best bid: below the stop, above the target, or between; that, too,
                \* when there is no bid or no answer
    pos,        \* position_status
    rem,        \* remaining_shares
    sold,       \* shares in the fills of its CLOSEs
    sl, tp,     \* stop_loss_status, take_profit_status
    reason,     \* exit_reason
    tries,      \* exit_attempts
    version,    \* position_version: the CLOSEs queued so far
    close,      \* the latest CLOSE
    spotless,   \* every CLOSE before it was REJECTED
    job         \* the two jobs: what they loaded and where they are

rowVars == <<pos, rem, sold, sl, tp, reason, tries, version, close, spotless>>
fixedVars == <<mode, gtd, watch>>
vars == <<fixedVars, phase, bid, rowVars, job>>

Jobs == {"STOP_LOSS", "TAKE_PROFIT"}
LiveStates == {"READY", "RECONCILING", "MANUAL_REVIEW_REQUIRED"}
BLOCKING_REQUEST_STATES == LiveStates \ {"MANUAL_REVIEW_REQUIRED"}
FAILURE_TERMINAL_STATES == {"REJECTED", "EXPIRED", "MANUAL_REVIEW_FAILED"}
Over == {"past", "resolved"}

\* A CLOSE: requested_shares, trigger_reason, the market at whose end it expires
\* (NoTrade: after 60 s), whether rebuild_trade_accounting ran when it ended, and,
\* as history, whether this or an earlier CLOSE of the position was queued from a
\* row loaded while a CLOSE was pending.  An ended CLOSE is known by its state.
Request(trig, n, until, blind) ==
    [st |-> "READY", shares |-> n, trig |-> trig, until |-> until,
     accounted |-> FALSE, blind |-> blind]
NoClose == [Request("none", 0, NoTrade, FALSE) EXCEPT !.st = "none"]

Live(t) == close[t].st \in LiveStates

Idle == [at |-> "idle", rows |-> <<>>, cur |-> NoTrade, end |-> NoTrade]

\* A position as the fill leaves it: the protection is armed, and the native
\* take-profit of a LIVE one is queued unless the market is about to end.
PostsGtd(t) == mode = "LIVE" /\ gtd /\ watch[t].tp /\ phase[t] = "far"

Init ==
    /\ mode \in {"PAPER", "LIVE"} /\ gtd \in BOOLEAN /\ (gtd => mode = "LIVE")
    /\ watch \in [Trades -> {w \in [sl : BOOLEAN, tp : BOOLEAN] : w.sl \/ w.tp}]
    /\ phase \in [Trades -> {"far", "near"}]
    /\ bid = [t \in Trades |-> "between"]
    /\ pos = [t \in Trades |-> IF PostsGtd(t) THEN "EXIT_REQUESTED" ELSE "OPEN"]
    /\ rem = [t \in Trades |-> Size] /\ sold = [t \in Trades |-> 0]
    /\ sl = [t \in Trades |-> IF watch[t].sl THEN "ACTIVE" ELSE "none"]
    /\ tp = [t \in Trades |-> CASE PostsGtd(t) -> "QUEUED"
                                [] watch[t].tp /\ ~PostsGtd(t) -> "ACTIVE"
                                [] OTHER -> "SKIPPED"]
    /\ reason = [t \in Trades |-> IF PostsGtd(t) THEN "TAKE_PROFIT" ELSE "none"]
    /\ tries = [t \in Trades |-> 0]
    /\ version = [t \in Trades |-> IF PostsGtd(t) THEN 1 ELSE 0]
    /\ close = [t \in Trades |->
                  IF PostsGtd(t) THEN Request("TAKE_PROFIT", Size, t, FALSE) ELSE NoClose]
    /\ spotless = [t \in Trades |-> TRUE]
    /\ job = [j \in Jobs |-> Idle]

-----------------------------------------------------------------------------
(* enqueue_close_request, under the lock of the trade's row.                *)

\* mutant: the idempotency key does not carry the position's version.
KeyTaken_Never(t, row) == FALSE

\* CLOSE:<trade>:v<version> exists already.
KeyTaken(t, row) == version[t] > row.version

\* The row, the lookup, the insert: no shares or a live CLOSE (a duplicate, or a
\* conflict with the index of active CLOSEs) refuse, a used key is an
\* IntegrityError.
Refuses(t, row) == row.rem = 0 \/ Live(t)
Creates(t, row) == ~Refuses(t, row) /\ ~KeyTaken(t, row)
Raises(t, row) == ~Refuses(t, row) /\ KeyTaken(t, row)

Enqueue(t, row, trig, until) ==
    /\ close' = [close EXCEPT ![t] =
                   Request(trig, row.rem, until, row.pending \/ @.blind)]
    /\ spotless' = [spotless EXCEPT ![t] = @ /\ close[t].st \in {"none", "REJECTED"}]
    /\ version' = [version EXCEPT ![t] = row.version + 1]
    /\ pos' = [pos EXCEPT ![t] = "EXIT_REQUESTED"]
    /\ reason' = [reason EXCEPT ![t] = trig]
    /\ UNCHANGED <<rem, sold, tries>>

-----------------------------------------------------------------------------
(* The jobs.                                                                *)

Status(j, t) == IF j = "STOP_LOSS" THEN sl[t] ELSE tp[t]
SetStatus(j, t, s) ==
    IF j = "STOP_LOSS" THEN sl' = [sl EXCEPT ![t] = s] /\ UNCHANGED tp
    ELSE tp' = [tp EXCEPT ![t] = s] /\ UNCHANGED sl

\* mutant: a partly closed position is not watched.
Selected_OpenOnly(j, t) ==
    /\ pos[t] = "OPEN" /\ tries[t] < MaxExit
    /\ Status(j, t) = "ACTIVE"

Selected(j, t) ==
    /\ pos[t] \in {"OPEN", "PARTIALLY_CLOSED"}
    /\ tries[t] < MaxExit
    /\ Status(j, t) = "ACTIVE"

\* The rows, the versions and the clock as the cycle sees them to its end.
JobLoads(j) ==
    /\ job[j].at = "idle" /\ \E t \in Trades : Selected(j, t)
    /\ job' = [job EXCEPT ![j] =
                 [Idle EXCEPT !.at = "next",
                    !.rows = [t \in {u \in Trades : Selected(j, u)} |->
                       [rem |-> rem[t], version |-> version[t], phase |-> phase[t],
                        pending |-> Live(t)]]]]
    /\ UNCHANGED <<fixedVars, phase, bid, rowVars>>

Loaded(j) == DOMAIN job[j].rows
Without(f, t) == [u \in DOMAIN f \ {t} |-> f[u]]

Done(j, t, end) ==
    job' = [job EXCEPT ![j] =
              IF Loaded(j) = {t} THEN Idle
              ELSE [job[j] EXCEPT !.at = "next", !.rows = Without(job[j].rows, t),
                                  !.cur = NoTrade, !.end = end]]

\* A rollback expires every loaded object; the next attribute read fails and
\* ends the cycle.
Breaks(j) == job' = [job EXCEPT ![j] = Idle]

\* market_end_time is stored with the stop-loss percentage.  The take-profit job
\* keeps the variable of the trade before when the row has none.
EndAfter(j, t) == IF watch[t].sl THEN t ELSE job[j].end

\* A row whose market is not in live_markets, or that lacks the percentage or
\* the multiplier, expires as well: nothing deletes a market, and the price that
\* selects the row is computed from them, so these branches are not taken.
JobExpires(j, t) ==
    /\ job[j].at = "next" /\ t \in Loaded(j)
    /\ watch[t].sl /\ job[j].rows[t].phase \in Over
    /\ SetStatus(j, t, "EXPIRED")
    /\ Done(j, t, EndAfter(j, t))
    /\ UNCHANGED <<fixedVars, phase, bid, pos, rem, sold, reason, tries, version, close, spotless>>

NotOver(j, t) == ~(watch[t].sl /\ job[j].rows[t].phase \in Over)
GtdBranch(j) == j = "TAKE_PROFIT" /\ mode = "LIVE" /\ gtd
EndOf(j, t) == EndAfter(j, t)

\* market_end was never assigned in this cycle.
GtdUnbound(j, t) ==
    /\ job[j].at = "next" /\ t \in Loaded(j) /\ NotOver(j, t)
    /\ GtdBranch(j) /\ EndOf(j, t) = NoTrade
    /\ Breaks(j)
    /\ UNCHANGED <<fixedVars, phase, bid, rowVars>>

\* The end the job compares with its clock is that of the trade in EndOf.
GtdFar(j, t) ==
    /\ GtdBranch(j) /\ EndOf(j, t) # NoTrade
    /\ IF EndOf(j, t) \in Loaded(j) THEN job[j].rows[EndOf(j, t)].phase = "far"
       ELSE phase[EndOf(j, t)] = "far"

\* A resting order is posted at once, without a quote.
GtdPosts(j, t) ==
    LET row == job[j].rows[t] IN
    /\ job[j].at = "next" /\ t \in Loaded(j) /\ NotOver(j, t) /\ GtdFar(j, t)
    /\ \/ /\ Creates(t, row)
          /\ Enqueue(t, row, j, EndOf(j, t))
          /\ SetStatus(j, t, "QUEUED")
          /\ Done(j, t, EndAfter(j, t))
       \/ Raises(t, row) /\ Breaks(j) /\ UNCHANGED rowVars
       \/ Refuses(t, row) /\ Done(j, t, EndAfter(j, t)) /\ UNCHANGED rowVars
    /\ UNCHANGED <<fixedVars, phase, bid>>

Triggers(j, t) == IF j = "STOP_LOSS" THEN bid[t] = "low" ELSE bid[t] = "high"

\* The quote, over the network; the row is not read again.
JobQuotes(j, t) ==
    /\ job[j].at = "next" /\ t \in Loaded(j) /\ NotOver(j, t)
    /\ ~GtdBranch(j) \/ (EndOf(j, t) # NoTrade /\ ~GtdFar(j, t))
    /\ \/ Triggers(j, t) /\ job' = [job EXCEPT ![j].at = "enqueue", ![j].cur = t,
                                              ![j].end = EndAfter(j, t)]
       \/ ~Triggers(j, t) /\ Done(j, t, EndAfter(j, t))
    /\ UNCHANGED <<fixedVars, phase, bid, rowVars>>

JobEnqueues(j) ==
    LET t == job[j].cur
        row == job[j].rows[t] IN
    /\ job[j].at = "enqueue"
    /\ \/ /\ Creates(t, row)
          /\ Enqueue(t, row, j, NoTrade)
          /\ SetStatus(j, t, "QUEUED")
          /\ Done(j, t, job[j].end)
       \/ Raises(t, row) /\ Breaks(j) /\ UNCHANGED rowVars
       \/ Refuses(t, row) /\ Done(j, t, job[j].end) /\ UNCHANGED rowVars
    /\ UNCHANGED <<fixedVars, phase, bid>>

Cycle(j) ==
    \/ JobLoads(j) \/ JobEnqueues(j)
    \/ \E t \in Trades : JobExpires(j, t) \/ GtdUnbound(j, t) \/ GtdPosts(j, t) \/ JobQuotes(j, t)

-----------------------------------------------------------------------------
(* How a CLOSE ends.                                                        *)

IsAt(t, st) == close[t].st = st
Moves(t, st) == /\ close' = [close EXCEPT ![t].st = st]
                /\ UNCHANGED <<version, spotless>>
Ends(t, st, accounted) ==
    /\ close' = [close EXCEPT ![t] =
                   [NoClose EXCEPT !.st = st, !.accounted = accounted, !.blind = close[t].blind]]
    /\ UNCHANGED <<version, spotless>>

\* finalize_request of a CLOSE without fills.
RolledBack(t) == IF rem[t] < Size THEN "PARTIALLY_CLOSED" ELSE "OPEN"

\* Only finalize_request: the TTL of claim_one, a refusal of the preflight, a
\* submission error, the operator's verdict.
EndsUnaccounted(t, st) ==
    /\ \/ IsAt(t, "READY") /\ st = "EXPIRED" /\ close[t].until = NoTrade
       \/ IsAt(t, "READY") /\ st = "EXPIRED" /\ close[t].until # NoTrade
                           /\ phase[close[t].until] \in Over
       \/ IsAt(t, "READY") /\ st = "REJECTED"
       \/ IsAt(t, "MANUAL_REVIEW_REQUIRED") /\ st = "MANUAL_REVIEW_FAILED"
    /\ Ends(t, st, FALSE)
    /\ pos' = [pos EXCEPT ![t] = RolledBack(t)]
    /\ tries' = [tries EXCEPT ![t] = @ + 1]
    /\ UNCHANGED <<fixedVars, phase, bid, rem, sold, sl, tp, reason, job>>

\* mutant: the rebuild leaves a queued stop-loss queued.
Rearmed_Kept(s, on, failed) == s

\* rebuild_trade_accounting of a position that still holds shares.
Rearmed(s, on, failed) ==
    IF on /\ (s \notin {"TRIGGERED", "ACTIVE"} \/ (s = "TRIGGERED" /\ failed)) THEN "ACTIVE" ELSE s

\* all_close_failed, over the requests as the step leaves them.
AllFailed(t, st) == spotless[t] /\ st = "REJECTED"

Final == {"CLOSED", "RESOLVED"}

\* After n more shares were sold, position status p, the CLOSE in state st.
Rebuild(t, n, p, st) ==
    LET left == Size - sold[t] - n IN
    /\ sold' = [sold EXCEPT ![t] = @ + n]
    /\ IF p \in Final THEN pos' = [pos EXCEPT ![t] = p] /\ UNCHANGED <<rem, sl, tp, reason>>
       ELSE
         /\ rem' = [rem EXCEPT ![t] = left]
         /\ pos' = [pos EXCEPT ![t] = IF left = 0 THEN "CLOSED"
                                      ELSE IF left < Size THEN "PARTIALLY_CLOSED" ELSE "OPEN"]
         /\ reason' = [reason EXCEPT ![t] = IF left = Size THEN "none" ELSE @]
         /\ IF left = 0
            THEN /\ sl' = [sl EXCEPT ![t] = IF reason[t] = "STOP_LOSS" THEN "TRIGGERED" ELSE @]
                 /\ tp' = [tp EXCEPT ![t] = IF reason[t] = "TAKE_PROFIT" THEN "TRIGGERED" ELSE @]
            ELSE /\ sl' = [sl EXCEPT ![t] = Rearmed(@, watch[t].sl, AllFailed(t, st))]
                 /\ tp' = [tp EXCEPT ![t] = Rearmed(@, watch[t].tp, AllFailed(t, st))]

\* The venue or auto-resolve reports no fills: finalize and rebuild.
EndsRejected(t) ==
    /\ IsAt(t, "READY") \/ IsAt(t, "MANUAL_REVIEW_REQUIRED")
    /\ Ends(t, "REJECTED", TRUE)
    /\ tries' = [tries EXCEPT ![t] = @ + 1]
    /\ Rebuild(t, 0, RolledBack(t), "REJECTED")
    /\ UNCHANGED <<fixedVars, phase, bid, job>>

Fills(t, n) ==
    /\ Live(t) /\ n <= close[t].shares /\ n <= Size - sold[t]
    /\ IsAt(t, "READY") => phase[t] \notin Over
    /\ Ends(t, IF n = close[t].shares THEN "FILLED" ELSE "PARTIALLY_FILLED_FINAL", TRUE)
    /\ Rebuild(t, n, pos[t], close'[t].st)
    /\ UNCHANGED <<fixedVars, phase, bid, tries, job>>

\* A pending LIVE order, the resting take-profit too, is accounted for as well.
GoesPending(t) ==
    /\ mode = "LIVE" /\ IsAt(t, "READY") /\ phase[t] \notin Over
    /\ Moves(t, "RECONCILING")
    /\ Rebuild(t, 0, pos[t], "RECONCILING")
    /\ UNCHANGED <<fixedVars, phase, bid, tries, job>>

\* Allowance, an unknown submission, the 900 s of reconciliation.
NeedsReview(t) ==
    /\ (mode = "LIVE" /\ IsAt(t, "READY")) \/ IsAt(t, "RECONCILING")
    /\ Moves(t, "MANUAL_REVIEW_REQUIRED")
    /\ UNCHANGED <<fixedVars, phase, bid, pos, rem, sold, sl, tp, reason, tries, job>>

\* Reconcile finds the take-profit expired.
GtdExpires(t) ==
    /\ IsAt(t, "RECONCILING") /\ close[t].trig = "TAKE_PROFIT"
    /\ close[t].until # NoTrade => phase[close[t].until] \in Over
    /\ Ends(t, "EXPIRED", TRUE)
    /\ tries' = [tries EXCEPT ![t] = @ + 1]
    /\ rem' = [rem EXCEPT ![t] = Size - sold[t]]
    /\ pos' = [pos EXCEPT ![t] = IF sold[t] > 0 THEN "PARTIALLY_CLOSED" ELSE "OPEN"]
    /\ reason' = [reason EXCEPT ![t] = IF sold[t] = 0 THEN "none" ELSE @]
    /\ sl' = [sl EXCEPT ![t] = Rearmed(@, watch[t].sl, FALSE)]
    /\ tp' = [tp EXCEPT ![t] = "EXPIRED"]
    /\ UNCHANGED <<fixedVars, phase, bid, sold, job>>

CloseStep(t) ==
    \/ \E st \in FAILURE_TERMINAL_STATES : EndsUnaccounted(t, st)
    \/ \E n \in 1..Size : Fills(t, n)
    \/ EndsRejected(t) \/ GoesPending(t) \/ NeedsReview(t) \/ GtdExpires(t)

-----------------------------------------------------------------------------
(* The operator, settlement, the market.                                    *)

\* close_live_position reads the row it locks.
OperatorCloses(t) ==
    /\ version[t] < MaxManual
    /\ mode = "LIVE" /\ phase[t] \notin Over
    /\ pos[t] \in {"OPEN", "PARTIALLY_CLOSED"} /\ rem[t] > 0 /\ ~Live(t)
    /\ Enqueue(t, [rem |-> rem[t], version |-> version[t], pending |-> FALSE], "MANUAL", NoTrade)
    /\ UNCHANGED <<fixedVars, phase, bid, sl, tp, job>>

\* resolve_trades_job.
Settles(t) ==
    /\ phase[t] = "resolved"
    /\ pos[t] \in {"OPEN", "PARTIALLY_CLOSED"} \/ (mode = "PAPER" /\ pos[t] = "EXIT_REQUESTED")
    /\ pos' = [pos EXCEPT ![t] = IF mode = "PAPER" THEN "CLOSED" ELSE "RESOLVED"]
    /\ rem' = IF mode = "PAPER" THEN [rem EXCEPT ![t] = 0] ELSE rem
    /\ UNCHANGED <<fixedVars, phase, bid, sold, sl, tp, reason, tries, version, close, spotless, job>>

TimePasses(t) ==
    /\ phase[t] # "resolved"
    /\ phase' = [phase EXCEPT ![t] = CASE @ = "far" -> "near" [] @ = "near" -> "past"
                                       [] OTHER -> "resolved"]
    /\ UNCHANGED <<fixedVars, bid, rowVars, job>>

BidMoves(t) ==
    /\ phase[t] \notin Over
    /\ bid' \in {[bid EXCEPT ![t] = b] : b \in {"low", "between", "high"} \ {bid[t]}}
    /\ UNCHANGED <<fixedVars, phase, rowVars, job>>

Next ==
    \/ \E j \in Jobs : Cycle(j)
    \/ \E t \in Trades : CloseStep(t) \/ OperatorCloses(t) \/ Settles(t)
                         \/ TimePasses(t) \/ BidMoves(t)

Spec == Init /\ [][Next]_vars

\* The jobs run every 30 s, with STOP_LOSS_ENABLED and TAKE_PROFIT_ENABLED on
\* (off, a cycle returns at once: in Spec, no step); every CLOSE is claimed,
\* reconciled, put into review and resolved by the worker's loop.
Fairness ==
    /\ \A j \in Jobs : WF_vars(Cycle(j))
    /\ \A t \in Trades : WF_vars(CloseStep(t))

FairSpec == Spec /\ Fairness

-----------------------------------------------------------------------------
(* Properties.                                                              *)

TypeOK ==
    /\ pos \in [Trades -> {"OPEN", "PARTIALLY_CLOSED", "EXIT_REQUESTED", "CLOSED", "RESOLVED"}]
    /\ rem \in [Trades -> 0..Size] /\ sold \in [Trades -> 0..Size]
    /\ sl \in [Trades -> {"none", "ACTIVE", "QUEUED", "EXPIRED", "TRIGGERED"}]
    /\ tp \in [Trades -> {"SKIPPED", "ACTIVE", "QUEUED", "EXPIRED", "TRIGGERED"}]
    /\ reason \in [Trades -> Jobs \cup {"none", "MANUAL"}]
    /\ tries \in [Trades -> Nat]
    /\ \A t \in Trades : Live(t) => close[t].shares \in 1..Size

\* Stale rows sell nothing twice: before the market is resolved, a live CLOSE,
\* whoever queued it from whatever it had loaded, asks for exactly the shares
\* the position still holds.  The exception is a row loaded while a CLOSE was
\* pending: its version is current and its shares are not.
AsksForWhatIsHeld ==
    \A t \in Trades : Live(t) /\ phase[t] # "resolved" /\ ~close[t].blind
                        => close[t].shares = rem[t]

\* A queued exit is under way, or its CLOSE ended without the accounting being
\* rebuilt: nothing else disarms the protection of an open position.
QueuedMeansExiting ==
    \A t \in Trades :
      (sl[t] = "QUEUED" \/ tp[t] = "QUEUED") /\ pos[t] \in {"OPEN", "PARTIALLY_CLOSED"}
        => close[t].st # "none" /\ ~close[t].accounted

\* While the bid stays below the stop of a market that stays open, the position is
\* sold, or the jobs have given up, or the stop-loss hangs on a CLOSE that ended
\* unaccounted.
StopLossSells ==
    \A t \in Trades :
      (watch[t].sl /\ <>[](bid[t] = "low" /\ phase[t] \notin Over))
        => <>(\/ pos[t] \in Final \/ tries[t] >= MaxExit
              \/ sl[t] = "QUEUED" /\ ~Live(t) /\ ~close[t].accounted)
=============================================================================
