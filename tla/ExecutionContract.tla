--------------------------- MODULE ExecutionContract ---------------------------
(***************************************************************************)
(* What the rest of polyflip relies on about execution requests, with the  *)
(* worker, the venue and the clock left out: one live request per key, an  *)
(* outcome that never changes, success only for what was sent to the       *)
(* venue, and exposure held exactly while an entry is live.                *)
(***************************************************************************)
CONSTANTS
  Requests,
  Entries,   \* the requests that hold exposure
  Key(_)     \* what a live request occupies: its market or its position

VARIABLES
  phase,     \* of each request
  held       \* entries whose exposure reservation is not released

vars == <<phase, held>>

Live == { "queued", "sent", "review" }
Final == { "done", "failed" }

Init ==
  /\ phase = [r \in Requests |-> "absent"]
  /\ held = {}

KeyFree(r) == \A q \in Requests : Key(q) = Key(r) => phase[q] \notin Live

\* A request is queued when nothing live has its key.
Queue(r) ==
  /\ phase[r] = "absent" /\ KeyFree(r)
  /\ phase' = [phase EXCEPT ![r] = "queued"]
  /\ held' = held \cup ({ r } \cap Entries)

\* Sent, parked for review, or handed back: it stays live.
Move(r) ==
  /\ phase[r] \in Live
  /\ \E p \in Live : phase' = [phase EXCEPT ![r] = p]
  /\ UNCHANGED held

Fail(r) ==
  /\ phase[r] \in Live
  /\ phase' = [phase EXCEPT ![r] = "failed"]
  /\ held' = held \ { r }

\* Only what was sent, or awaits review, can turn out to be done.
Succeed(r) ==
  /\ phase[r] \in { "sent", "review" }
  /\ phase' = [phase EXCEPT ![r] = "done"]
  /\ held' = held \ { r }

\* An entry is done and its take-profit queued in the same transaction.
SucceedAndQueue(r, c) ==
  /\ phase[r] \in { "sent", "review" } /\ r \in Entries
  /\ phase[c] = "absent" /\ KeyFree(c) /\ c \notin Entries
  /\ phase' = [phase EXCEPT ![r] = "done", ![c] = "queued"]
  /\ held' = held \ { r }

Next ==
  \/ \E r \in Requests : Queue(r) \/ Move(r) \/ Fail(r) \/ Succeed(r)
  \/ \E r, c \in Requests : SucceedAndQueue(r, c)

Spec == Init /\ [][Next]_vars
=============================================================================
