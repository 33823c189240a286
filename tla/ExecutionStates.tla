--------------------------- MODULE ExecutionStates ---------------------------
(***************************************************************************)
(* The state sets of polyflip/execution/states.py and the predicates of    *)
(* the partial unique indexes in polyflip/db/execution_models.py.  The     *)
(* code keeps the two lists apart; both are transcribed, because what they *)
(* disagree on (MANUAL_REVIEW_REQUIRED) decides who may queue an order.    *)
(***************************************************************************)

\* A request that still has a claim on its market or on its position.
REQUEST_HOLD_STATES ==
  { "AWAITING_APPROVAL", "READY", "CLAIMED", "SUBMITTING", "ACCEPTED",
    "UNKNOWN", "PARTIALLY_FILLED", "RECONCILING", "MANUAL_REVIEW_REQUIRED" }

\* The states reconcile_active_requests selects.
RECONCILABLE_REQUEST_STATES ==
  { "SUBMITTING", "ACCEPTED", "UNKNOWN", "PARTIALLY_FILLED", "RECONCILING" }

SUCCESS_TERMINAL_STATES == { "FILLED", "PARTIALLY_FILLED_FINAL" }

FAILURE_TERMINAL_STATES ==
  { "REJECTED", "EXPIRED", "CANCELED", "MANUAL_REVIEW_FAILED" }

TERMINAL_REQUEST_STATES == SUCCESS_TERMINAL_STATES \cup FAILURE_TERMINAL_STATES

ACTIVE_REQUEST_STATES == REQUEST_HOLD_STATES

\* What enqueue_open_request and enqueue_close_request look for before they
\* insert.
BLOCKING_REQUEST_STATES == REQUEST_HOLD_STATES \ { "MANUAL_REVIEW_REQUIRED" }

\* The states under which uq_active_open_request (per mode and market) and
\* uq_active_close_request (per trade) count a row.
ACTIVE_INDEX_STATES ==
  { "AWAITING_APPROVAL", "READY", "CLAIMED", "SUBMITTING", "ACCEPTED",
    "UNKNOWN", "PARTIALLY_FILLED", "RECONCILING", "MANUAL_REVIEW_REQUIRED" }

ACTIVE_POSITION_STATES ==
  { "OPENING", "OPEN", "PARTIALLY_CLOSED", "EXIT_REQUESTED", "CLOSING",
    "RESOLVED_REDEEMABLE" }

FINAL_POSITION_STATES ==
  { "CLOSED", "RESOLVED_REDEEMABLE", "RESOLVED_LOST", "REDEEMED" }

\* "none": the row has not been inserted.
RequestStates == { "none" } \cup REQUEST_HOLD_STATES \cup TERMINAL_REQUEST_STATES

PositionStates ==
  { "none", "ENTRY_FAILED", "MANUAL_REVIEW_REQUIRED" }
    \cup ACTIVE_POSITION_STATES \cup FINAL_POSITION_STATES
=============================================================================
