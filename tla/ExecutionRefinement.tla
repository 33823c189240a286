-------------------------- MODULE ExecutionRefinement --------------------------
(***************************************************************************)
(* ExecutionLifecycle implements ExecutionContract.                        *)
(***************************************************************************)
EXTENDS ExecutionLifecycle

PhaseOf(s) ==
  CASE s = "none" -> "absent"
    [] s \in { "AWAITING_APPROVAL", "READY", "CLAIMED" } -> "queued"
    [] s \in RECONCILABLE_REQUEST_STATES -> "sent"
    [] s = "MANUAL_REVIEW_REQUIRED" -> "review"
    [] s \in SUCCESS_TERMINAL_STATES -> "done"
    [] s \in FAILURE_TERMINAL_STATES -> "failed"

\* uq_active_open_request is per market, uq_active_close_request per trade.
KeyOf(r) == IF IsOpen(r) THEN <<"OPEN", MarketOfRequest(r)>> ELSE <<"CLOSE", TradeOf(r)>>

Contract == INSTANCE ExecutionContract WITH
  Entries <- { OpenOf(t) : t \in Trades },
  Key <- KeyOf,
  phase <- [r \in Requests |-> PhaseOf(state[r])],
  held <- { OpenOf(t) : t \in { u \in Trades : reservation[u] = "held" } }

\* Every step of the outbox, the worker, the operator and the settlement job
\* is a step of the contract or leaves it alone.
ImplementsContract == Contract!Spec
=============================================================================
