----------------------------- MODULE TradeCycle -----------------------------
(***************************************************************************)
(* The trading cycle: trade_worker_cycle walks the markets in their time    *)
(* window, guards, decides, validates and queues an entry, or leaves a      *)
(* SKIPPED row.  Everything one cycle writes is one transaction, committed  *)
(* at its end; only the entry itself has a savepoint.                       *)
(*                                                                         *)
(* Two strategies share the tables: "ct", which reserves its one decision   *)
(* per market under a unique key, and "combined", which does not.  What     *)
(* they compute from quotes and models is a free choice here.               *)
(***************************************************************************)
EXTENDS Naturals, FiniteSets

CONSTANTS
    Engines,      \* processes running the scheduler
    Markets,
    NoMarket,
    NoRow,
    MaxRows,      \* bound: SKIPPED rows ever inserted for a market
    MaxSwitches   \* bound: changes of a market's TRADING_MODE

ASSUME CycleAssumption ==
    /\ NoMarket \notin Markets
    /\ MaxRows \in Nat \ {0} /\ MaxSwitches \in Nat

VARIABLES
    phase,     \* phase[m]: before, inside or after the CT window; the last is never loaded
    mode,      \* TRADING_MODE in force for the market's asset
    rows,      \* rows[m]: its SKIPPED rows
    inserted,  \* rows inserted so far: the last id
    entries,   \* entries[m][s]: trades of the strategy, all in a status the guard looks for
    resv,      \* the action in ct_decision_reservations
    open,      \* the market has an active OPEN request
    eng,       \* the engines
    raced,     \* history: a cycle wrote m after another had committed to it unseen
    switches   \* bound

dbVars == <<rows, inserted, entries, resv, open, raced>>
vars == <<phase, mode, dbVars, eng, switches>>

Strategies == {"ct", "combined"}
Row == [ct : BOOLEAN, id : 1..MaxRows]

\* What the open transaction has written for one market.
NoWrite == [skip |-> "none", row |-> NoRow, entry |-> "none", resv |-> "none"]
Write == [skip : {"none", "insert", "insert_ct", "update"}, row : Row \cup {NoRow},
          entry : Strategies \cup {"none"}, resv : {"none", "BUY", "SKIP"}]

Idle == [at |-> "idle", todo |-> <<>>, cur |-> NoMarket, old |-> NoRow,
         tx |-> [m \in Markets |-> NoWrite], stale |-> {}]

Init ==
    /\ phase = [m \in Markets |-> "early"]
    /\ mode \in [Markets -> Strategies]
    /\ rows = [m \in Markets |-> {}] /\ inserted = [m \in Markets |-> 0]
    /\ entries = [m \in Markets |-> [s \in Strategies |-> 0]]
    /\ resv = [m \in Markets |-> "none"] /\ open = [m \in Markets |-> FALSE]
    /\ eng = [e \in Engines |-> Idle]
    /\ raced = [m \in Markets |-> FALSE] /\ switches = 0

At(e, at) == eng[e].at = at
Strategy(e) == eng[e].todo[eng[e].cur].mode

-----------------------------------------------------------------------------
(* Loading and guarding.                                                    *)

\* The clock and the settings are read once per cycle.
CycleBegins(e) ==
    LET loaded == {m \in Markets : phase[m] # "over"} IN
    /\ At(e, "idle") /\ loaded # {}
    /\ \A m \in loaded : inserted[m] < MaxRows
    /\ eng' = [eng EXCEPT ![e] = [Idle EXCEPT !.at = "market",
                 !.todo = [m \in loaded |-> [phase |-> phase[m], mode |-> mode[m]]]]]
    /\ UNCHANGED <<phase, mode, dbVars, switches>>

\* The market is finished with the write w; the cycle goes on.
Leave(e, m, w) ==
    eng' = [eng EXCEPT ![e].at = "market", ![e].cur = NoMarket, ![e].old = NoRow,
              ![e].todo = [u \in DOMAIN @ \ {m} |-> @[u]], ![e].tx[m] = w]

\* mutant: a failed entry does not count as a trade.
Traded_Unfailed(m, s) == entries[m][s] > 0 /\ open[m]

Traded(m, s) == entries[m][s] > 0

\* mutant: the CT guard misses its own skip rows.
SkippedRows_CombinedOnly(m, s) == IF s = "ct" THEN {} ELSE rows[m]

\* The combined strategy takes any SKIPPED row of the market for its own.
SkippedRows(m, s) == IF s = "ct" THEN {r \in rows[m] : r.ct} ELSE rows[m]

\* save_or_update_skipped_trade: what it may write on top of w.  A row is marked
\* CT by the details of a CT decision, which a guard, an error and a repeated
\* decision do not carry; an unchanged row is not written.
Skips(old, ct, w) ==
    IF old = NoRow THEN {[w EXCEPT !.skip = IF ct THEN "insert_ct" ELSE "insert"]}
    ELSE {w, [w EXCEPT !.skip = "update", !.row = old]}

LeaveSkipped(e, m, ws) ==
    /\ \E w \in ws : Leave(e, m, w)
    /\ UNCHANGED <<phase, mode, dbVars, switches>>

Goes(e, at) ==
    /\ eng' = [eng EXCEPT ![e].at = at]
    /\ UNCHANGED <<phase, mode, dbVars, switches>>

\* check_market_guards for the next market: refused without a trace, refused with
\* a SKIPPED row, or passed.
Guard(e, m) ==
    LET s == eng[e].todo[m].mode
        found == SkippedRows(m, s)
        silent == Traded(m, s) \/ (s = "ct" /\ (found # {} \/ eng[e].todo[m].phase # "window")) IN
    /\ At(e, "market") /\ m \in DOMAIN eng[e].todo
    /\ \/ silent /\ LeaveSkipped(e, m, {NoWrite})
       \/ ~silent /\ \E old \in IF found = {} THEN {NoRow} ELSE found :
            \/ LeaveSkipped(e, m, Skips(old, FALSE, NoWrite))
            \/ /\ eng' = [eng EXCEPT ![e].at = "decide", ![e].cur = m, ![e].old = old]
               /\ UNCHANGED <<phase, mode, dbVars, switches>>

-----------------------------------------------------------------------------
(* Deciding.                                                                *)

\* No decision, an error, and for CT the reservation found: ALREADY_DECIDED.
DecideSkips(e) ==
    /\ At(e, "decide")
    /\ LeaveSkipped(e, eng[e].cur, Skips(eng[e].old, FALSE, NoWrite))

\* The policy buys, or, for CT, has a SKIP to reserve.
DecideActs(e) ==
    /\ At(e, "decide") /\ (Strategy(e) = "ct" => resv[eng[e].cur] = "none")
    /\ Goes(e, "buy") \/ (Strategy(e) = "ct" /\ Goes(e, "skip"))

ValidationRefuses(e) ==
    /\ At(e, "buy")
    /\ LeaveSkipped(e, eng[e].cur, Skips(eng[e].old, Strategy(e) = "ct", NoWrite))

\* An insert waits for the transaction that holds its key: the reservation's key
\* of a CT decision, the active OPEN request's of an entry.
WaitsResv(e) == {o \in Engines \ {e} :
    Strategy(e) = "ct" /\ eng[o].tx[eng[e].cur].resv # "none"}
WaitsOpen(e) == {o \in Engines \ {e} : eng[o].tx[eng[e].cur].entry # "none"}
Waits(e) == IF At(e, "buy") THEN WaitsResv(e) \cup WaitsOpen(e)
            ELSE IF At(e, "skip") THEN WaitsResv(e) ELSE {}

\* The SKIP is the market's decision, unless the key is taken by now.
CtReservesSkip(e) ==
    LET m == eng[e].cur IN
    /\ At(e, "skip") /\ Waits(e) = {}
    /\ LeaveSkipped(e, m, Skips(eng[e].old, TRUE,
         [NoWrite EXCEPT !.resv = IF resv[m] = "none" THEN "SKIP" ELSE "none"]))

-----------------------------------------------------------------------------
(* execute_and_record.                                                      *)

\* The old SKIPPED row is deleted before the savepoint.
Deleted(e) == [NoWrite EXCEPT !.row = eng[e].old]

\* mutant: a conflict on the reservation's key is not looked at.
Reserved_Ignored(m) == FALSE

Reserved(m) == resv[m] # "none"

Execute(e) ==
    LET m == eng[e].cur
        s == Strategy(e) IN
    /\ At(e, "buy") /\ Waits(e) = {}
    /\ ~open[m] /\ ~(s = "ct" /\ Reserved(m))
    /\ LeaveSkipped(e, m, {[Deleted(e) EXCEPT !.entry = s,
                              !.resv = IF s = "ct" THEN "BUY" ELSE "none"]})

\* EnqueueRejected: a taken key, an active request, check_risk_limits.  The
\* savepoint is rolled back; the skip goes to the deleted object or a new row.
ExecuteRejects(e) ==
    /\ At(e, "buy") /\ WaitsResv(e) = {}
    /\ LeaveSkipped(e, eng[e].cur,
         IF eng[e].old = NoRow THEN Skips(NoRow, Strategy(e) = "ct", NoWrite) ELSE {Deleted(e)})

\* An error of the quote before the entry ends the walk; the commit still follows.
Raises(e) == At(e, "buy") /\ Goes(e, "commit")

WalkEnds(e) ==
    /\ At(e, "market") /\ DOMAIN eng[e].todo = {}
    /\ Goes(e, "commit")

-----------------------------------------------------------------------------
(* The end of the transaction.                                              *)

\* An UPDATE of a row another engine deleted matches nothing and fails.
Gone(e) == \E m \in Markets :
    eng[e].tx[m].skip = "update" /\ eng[e].tx[m].row \notin rows[m]

Inserts(w) == w.skip \in {"insert", "insert_ct"}

RowsAfter(m, w) ==
    CASE w.skip \in {"insert", "insert_ct"} ->
           rows[m] \cup {[ct |-> w.skip = "insert_ct", id |-> inserted[m] + 1]}
      [] w.skip = "update" -> rows[m]
      [] w.skip = "none" -> rows[m] \ {w.row}

\* Engines that are working on m, or hold writes to it, have not seen the commit.
Unseen(o, m) == eng[o].cur = m \/ eng[o].tx[m] # NoWrite

Commit(e) ==
    LET tx == eng[e].tx
        written == {m \in Markets : tx[m] # NoWrite} IN
    /\ At(e, "commit") /\ ~Gone(e)
    /\ \A m \in Markets : Inserts(tx[m]) => inserted[m] < MaxRows
    /\ rows' = [m \in Markets |-> RowsAfter(m, tx[m])]
    /\ inserted' = [m \in Markets |-> inserted[m] + (IF Inserts(tx[m]) THEN 1 ELSE 0)]
    /\ entries' = [m \in Markets |-> [s \in Strategies |->
                     entries[m][s] + (IF tx[m].entry = s THEN 1 ELSE 0)]]
    /\ resv' = [m \in Markets |-> IF tx[m].resv = "none" THEN resv[m] ELSE tx[m].resv]
    /\ open' = [m \in Markets |-> open[m] \/ tx[m].entry # "none"]
    /\ raced' = [m \in Markets |-> raced[m] \/ (m \in written /\ m \in eng[e].stale)]
    /\ eng' = [o \in Engines |-> IF o = e THEN Idle ELSE
                 [eng[o] EXCEPT !.stale = @ \cup {m \in written : Unseen(o, m)}]]
    /\ UNCHANGED <<phase, mode, switches>>

\* The commit fails, or the process dies: nothing of the cycle is left.
Lost(e) ==
    /\ ~At(e, "idle")
    /\ eng' = [eng EXCEPT ![e] = Idle]
    /\ UNCHANGED <<phase, mode, dbVars, switches>>

Cycle(e) ==
    \/ CycleBegins(e) \/ (\E m \in Markets : Guard(e, m)) \/ DecideSkips(e) \/ DecideActs(e)
    \/ ValidationRefuses(e) \/ CtReservesSkip(e) \/ Execute(e) \/ ExecuteRejects(e)
    \/ Raises(e) \/ WalkEnds(e) \/ Commit(e)

-----------------------------------------------------------------------------
(* Around the engines.                                                      *)

\* The execution worker ends the request; the trade stays, SUCCESS or FAILED.
RequestEnds(m) ==
    /\ open[m] /\ open' = [open EXCEPT ![m] = FALSE]
    /\ UNCHANGED <<phase, mode, rows, inserted, entries, resv, raced, eng, switches>>

TimePasses(m) ==
    /\ phase[m] # "over"
    /\ phase' = [phase EXCEPT ![m] = IF @ = "early" THEN "window" ELSE "over"]
    /\ UNCHANGED <<mode, dbVars, eng, switches>>

OperatorSwitches(m) ==
    /\ switches < MaxSwitches /\ switches' = switches + 1
    /\ mode' = [mode EXCEPT ![m] = IF @ = "ct" THEN "combined" ELSE "ct"]
    /\ UNCHANGED <<phase, dbVars, eng>>

Next ==
    \/ \E e \in Engines : Cycle(e) \/ Lost(e)
    \/ \E m \in Markets : RequestEnds(m) \/ TimePasses(m) \/ OperatorSwitches(m)

Spec == Init /\ [][Next]_vars

-----------------------------------------------------------------------------
(* Properties.                                                              *)

TypeOK ==
    /\ phase \in [Markets -> {"early", "window", "over"}]
    /\ mode \in [Markets -> Strategies]
    /\ rows \in [Markets -> SUBSET Row] /\ inserted \in [Markets -> 0..MaxRows]
    /\ \A m \in Markets : \A r \in rows[m] : r.id <= inserted[m]
    /\ entries \in [Markets -> [Strategies -> Nat]]
    /\ resv \in [Markets -> {"none", "BUY", "SKIP"}] /\ open \in [Markets -> BOOLEAN]
    /\ \A e \in Engines :
         /\ eng[e].at \in {"idle", "market", "decide", "buy", "skip", "commit"}
         /\ eng[e].cur \in Markets \cup {NoMarket} /\ eng[e].old \in Row \cup {NoRow}
         /\ eng[e].tx \in [Markets -> Write] /\ eng[e].stale \subseteq Markets
    /\ raced \in [Markets -> BOOLEAN] /\ switches \in 0..MaxSwitches

\* ct_reservation.py: whatever the engines, crashes and refusals, a market has at
\* most one CT trade, and it has one exactly when its reservation says BUY.
CtEntersOnce ==
    \A m \in Markets : entries[m]["ct"] = (IF resv[m] = "BUY" THEN 1 ELSE 0)

\* market_guards.py: a market is entered once by the combined strategy, also after
\* the entry failed and after the settings changed, unless two cycles overlapped.
EntersOnceUnlessRaced ==
    \A m \in Markets : entries[m]["combined"] <= 1 \/ raced[m]

CtDecisions(m) == Cardinality({r \in rows[m] : r.ct}) + entries[m]["ct"]

\* market_guards.py: a CT skip is the canonical decision for its market.  Skip rows
\* and trades of CT exclude each other, unless two cycles overlapped.
CtDecidedOnceUnlessRaced == \A m \in Markets : CtDecisions(m) <= 1 \/ raced[m]
=============================================================================
