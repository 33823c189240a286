-------------------------- MODULE ExecutionInvariants --------------------------
(***************************************************************************)
(* The inductive strengthening of the safety invariants of                 *)
(* ExecutionLifecycle.                                                     *)
(***************************************************************************)
EXTENDS ExecutionLifecycle

\* While the worker holds a request, nobody else moves it: the states it
\* commits before an await are the states it finds after it.
InHand ==
  /\ pc = "claimed" => cur \in Requests /\ state[cur] = "CLAIMED"
  /\ pc \in { "submitting", "answered" } =>
       cur \in Requests /\ state[cur] = "SUBMITTING" /\ attempts[cur] >= 1

\* The fills in hand are those of the request in hand, and only PAPER settles
\* at once.
AnswerInHand ==
  /\ pc # "answered" => got = {}
  /\ \A f \in got : f[1][1] = cur
  /\ Mode = "PAPER" => answer # "pending"

\* A stored provider_order_id belongs to the last attempt, and its request has
\* left the queue for good.
ProviderIdFinal ==
  \A o \in provider :
    /\ o[2] = attempts[o[1]]
    /\ state[o[1]] \in { "RECONCILING", "MANUAL_REVIEW_REQUIRED", "FILLED",
                         "PARTIALLY_FILLED_FINAL", "REJECTED", "EXPIRED" }

\* The rows auto-resolve has loaded are CLOSEs; meanwhile only the operator may
\* have moved them.
BatchOfCloses ==
  /\ batch # {} => pc = "resolving"
  /\ \A r \in batch :
       /\ ~IsOpen(r)
       /\ state[r] \in { "MANUAL_REVIEW_REQUIRED", "READY", "RECONCILING",
                         "MANUAL_REVIEW_FAILED" }

\* position_version counts the CLOSEs: the next one has not been inserted.
NextCloseAbsent ==
  \A r \in Requests : r[2] > version[r[1]] /\ ~IsOpen(r) => state[r] = "none"

\* How many submissions a request may have behind it, by where it stands.
SubmitBudget(r) ==
  IF Mode = "LIVE"
  THEN requeues[r] + (IF state[r] \in { "none", "AWAITING_APPROVAL", "READY", "CLAIMED" }
                      THEN 0 ELSE 1)
  ELSE crashes + (IF \/ state[r] \in TERMINAL_REQUEST_STATES
                     \/ pc \in { "submitting", "answered" } /\ cur = r
                  THEN 3 ELSE 2)
WithinBudget == \A r \in Requests : attempts[r] <= SubmitBudget(r)

\* The inductive invariant.
IInv ==
  /\ TypeOK
  /\ InHand
  /\ AnswerInHand
  /\ ProviderIdFinal
  /\ BatchOfCloses
  /\ NextCloseAbsent
  /\ WithinBudget
  /\ ReservationExact
  /\ OneActivePerKey
  /\ FillsIffSuccess

-----------------------------------------------------------------------------
(* The strengthening of the invariants on positions.                       *)

\* filled_shares is written together with the state FILLED or
\* PARTIALLY_FILLED_FINAL, so finalize_request always finds 0 in it.
UnfilledUntilSuccess ==
  \A r \in Requests : state[r] \notin SUCCESS_TERMINAL_STATES => filled[r] = 0

\* What the venue trades, and what the PAPER gateway answers with, is at most
\* what a stored request asked for.
WithinRequest ==
  /\ listed \subseteq traded
  /\ \A f \in traded \cup got : state[f[1][1]] # "none" /\ f[2] <= requested[f[1][1]]
  /\ \A f \in got : f[1] = CurrentOrder(cur)
  /\ \A o \in resting : state[o[1]] # "none"

\* A CLOSE exists only after the entry was filled.
ClosesFollowEntry ==
  \A r \in Requests : ~IsOpen(r) /\ state[r] # "none" =>
    state[OpenOf(TradeOf(r))] \in SUCCESS_TERMINAL_STATES

\* A row is loaded only after the entry was filled.
RowFollowsEntry ==
  \A t \in Trades : row[t] > 0 => state[OpenOf(t)] \in SUCCESS_TERMINAL_STATES

\* An active CLOSE asks for no more than the position has left, unless one was
\* queued from an old row.
CloseFits ==
  \A r \in Requests :
    /\ ~IsOpen(r) /\ state[r] \in ACTIVE_REQUEST_STATES /\ ~Resolved(TradeOf(r))
    /\ TradeOf(r) \notin stale
    => requested[r] <= remaining[TradeOf(r)]

\* A position that is final before its market is settled was sold to the end.
FinalIsFlat ==
  \A t \in Trades : ~Resolved(t) /\ pos[t] \in FINAL_POSITION_STATES =>
    pos[t] = "CLOSED" /\ remaining[t] = 0 /\ state[OpenOf(t)] \in SUCCESS_TERMINAL_STATES

\* Inductive together with IInv.
PositionInv ==
  /\ UnfilledUntilSuccess
  /\ WithinRequest
  /\ ClosesFollowEntry
  /\ RowFollowsEntry
  /\ CloseFits
  /\ FinalIsFlat
  /\ PositionMatchesFills
  /\ ExitRequestedHasClose

-----------------------------------------------------------------------------
(* The strengthening of FailedEntryBoughtNothing.                          *)

\* Nothing of request r is on the book or was traded.
Untraded(r) == (\A f \in traded : f[1][1] # r) /\ (\A o \in resting : o[1] # r)

\* An OPEN that was never sent, or ended with nothing to show.
UNSENT == { "none", "AWAITING_APPROVAL", "READY", "CLAIMED", "REJECTED", "EXPIRED" }

\* An OPEN is no take-profit; until it is sent, and after an answer that says
\* so, the venue has nothing of it; a confirmed one is listed.
EntryEvidence ==
  /\ Mode = "PAPER" => traded = {} /\ resting = {}
  /\ \A t \in Trades :
       LET r == OpenOf(t) IN
       /\ ~takeProfit[r]
       /\ requeues[r] = 0 =>
            /\ state[r] \in UNSENT => Untraded(r)
            /\ pc = "submitting" /\ cur = r => Untraded(r)
            /\ pc = "answered" /\ cur = r /\ answer \in { "rejected", "failed", "denied" } => Untraded(r)
            /\ pc = "answered" /\ cur = r /\ answer = "confirmed" => ConfirmedFills(r) # {}
=============================================================================
