-------------------------- MODULE TradeCycleProofs --------------------------
(***************************************************************************)
(* Theorems about TradeCycle for any number of engines and markets, any     *)
(* interleaving of their transactions, and any number of rows and switches. *)
(***************************************************************************)
EXTENDS TradeCycle, FiniteSetTheorems, TLAPS

Todo == UNION {[D -> [phase : {"early", "window", "over"}, mode : Strategies]] : D \in SUBSET Markets}

EngineRow ==
    [at : {"idle", "market", "decide", "buy", "skip", "commit"}, todo : Todo,
     cur : Markets \cup {NoMarket}, old : Row \cup {NoRow},
     tx : [Markets -> Write], stale : SUBSET Markets]

\* TypeOK with the shape of the engines, and with finitely many rows.
Typed ==
    /\ TypeOK
    /\ eng \in [Engines -> EngineRow]
    /\ \A m \in Markets : IsFiniteSet(rows[m])

\* The engine row r is between the guard and the decision's write.
Deciding(r) == r.at \in {"decide", "buy", "skip"}

\* A market still to do has no write; the current one is still to do.  Only CT
\* reserves a SKIP, and its guard lets no market through that has a CT row.
WalkOK(r) ==
    /\ \A m \in DOMAIN r.todo : r.tx[m] = NoWrite
    /\ Deciding(r) => r.cur \in DOMAIN r.todo
    /\ r.at = "skip" => r.todo[r.cur].mode = "ct"
    /\ Deciding(r) /\ r.todo[r.cur].mode = "ct" => r.old = NoRow

\* A CT entry and its BUY reservation are one write, and an entry is not a skip.
Fits(t) ==
    /\ t.entry = "ct" <=> t.resv = "BUY"
    /\ t.entry # "none" => t.skip = "none"

\* The write t decides the market for strategy s.
DecidesFor(t, s) == t.entry = s \/ (s = "ct" /\ t.skip = "insert_ct")

\* The engine with row r is deciding market m for s, or has decided it.
Intends(r, m, s) ==
    \/ Deciding(r) /\ r.cur = m /\ r.todo[m].mode = s
    \/ DecidesFor(r.tx[m], s)

\* Strategy s has not decided market m in any committed transaction.
Undecided(m, s) == IF s = "ct" THEN CtDecisions(m) = 0 ELSE entries[m]["combined"] = 0

\* What the guard saw still holds, unless another cycle's commit has marked m.
FreshOrStale(r) ==
    \A m \in Markets, s \in Strategies :
        Intends(r, m, s) /\ m \notin r.stale => Undecided(m, s)

\* The reservation's unique key: an uncommitted reservation is the only one.
HoldsKey ==
    \A e, o \in Engines, m \in Markets : eng[e].tx[m].resv # "none" =>
        resv[m] = "none" /\ (o # e => eng[o].tx[m].resv = "none")

CInv ==
    /\ Typed
    /\ \A e \in Engines : WalkOK(eng[e]) /\ FreshOrStale(eng[e])
    /\ \A e \in Engines, m \in Markets : Fits(eng[e].tx[m])
    /\ HoldsKey
    /\ CtEntersOnce
    /\ EntersOnceUnlessRaced
    /\ CtDecidedOnceUnlessRaced

-----------------------------------------------------------------------------
(* Typing.                                                                  *)

\* A list of markets to do is a function on a set of markets, and dropping one
\* of them leaves such a list.
LEMMA TodoFacts ==
    ASSUME NEW t \in Todo
    PROVE  /\ DOMAIN t \subseteq Markets
           /\ \A m \in DOMAIN t : t[m].mode \in Strategies
           /\ \A m : [u \in DOMAIN t \ {m} |-> t[u]] \in Todo
<1> DEFINE R == [phase : {"early", "window", "over"}, mode : Strategies]
<1>1. PICK D \in SUBSET Markets : t \in [D -> R]
  BY DEF Todo
<1> HIDE DEF R
<1>2. \A m \in DOMAIN t : t[m] \in R
  BY <1>1
<1>3. ASSUME NEW m PROVE [u \in DOMAIN t \ {m} |-> t[u]] \in Todo
  <2>1. [u \in DOMAIN t \ {m} |-> t[u]] \in [D \ {m} -> R]
    BY <1>1
  <2>2. D \ {m} \in SUBSET Markets
    OBVIOUS
  <2> QED
    BY <2>1, <2>2 DEF Todo, R
<1> QED
  BY <1>1, <1>2, <1>3 DEF R

\* A new cycle's list.
LEMMA TodoBegins ==
    ASSUME TypeOK, NEW D \in SUBSET Markets
    PROVE  [m \in D |-> [phase |-> phase[m], mode |-> mode[m]]] \in Todo
<1> DEFINE R == [phase : {"early", "window", "over"}, mode : Strategies]
<1>1. \A m \in D : [phase |-> phase[m], mode |-> mode[m]] \in R
  BY DEF TypeOK
<1> HIDE DEF R
<1>2. [m \in D |-> [phase |-> phase[m], mode |-> mode[m]]] \in [D -> R]
  BY <1>1
<1> QED
  BY <1>2 DEF Todo, R

\* An engine between two cycles.
LEMMA IdleTyped == Idle \in EngineRow /\ NoWrite \in Write /\ DOMAIN Idle.todo = {}
<1>1. NoWrite \in Write
  BY DEF NoWrite, Write
<1>2. DOMAIN <<>> = {}
  OBVIOUS
<1>3. <<>> \in Todo
  BY <1>2 DEF Todo
<1>4. [m \in Markets |-> NoWrite] \in [Markets -> Write]
  BY <1>1
<1> QED
  BY <1>1, <1>2, <1>3, <1>4 DEF Idle, EngineRow

-----------------------------------------------------------------------------
(* Steps of one engine inside its transaction.                              *)

\* A step that changes nothing but one engine's row keeps the invariant if the
\* new row has the shape the invariant asks for.
LEMMA EngineStep ==
    ASSUME CInv, NEW e \in Engines, NEW r \in EngineRow,
           eng' = [eng EXCEPT ![e] = r], UNCHANGED <<phase, mode, dbVars, switches>>,
           WalkOK(r), FreshOrStale(r), \A m \in Markets : Fits(r.tx[m]),
           \A m \in Markets : r.tx[m].resv # "none" =>
               resv[m] = "none" /\ \A o \in Engines \ {e} : eng[o].tx[m].resv = "none"
    PROVE  CInv'
<1>1. eng \in [Engines -> EngineRow]
  BY DEF CInv, Typed
<1>2. eng'[e] = r /\ \A o \in Engines \ {e} : eng'[o] = eng[o]
  BY <1>1
<1>3. UNCHANGED <<rows, inserted, entries, resv, open, raced>>
  BY DEF dbVars
<1>4. eng' \in [Engines -> EngineRow]
  BY <1>1
<1>5. Typed'
  <2>1. \A o \in Engines :
         /\ eng'[o].at \in {"idle", "market", "decide", "buy", "skip", "commit"}
         /\ eng'[o].cur \in Markets \cup {NoMarket} /\ eng'[o].old \in Row \cup {NoRow}
         /\ eng'[o].tx \in [Markets -> Write] /\ eng'[o].stale \subseteq Markets
    BY <1>4 DEF EngineRow
  <2>2. TypeOK'
    BY <1>3, <2>1 DEF CInv, Typed, TypeOK
  <2> QED
    BY <1>3, <1>4, <2>2 DEF CInv, Typed
<1>6. CtEntersOnce' /\ EntersOnceUnlessRaced' /\ CtDecidedOnceUnlessRaced'
  BY <1>3 DEF CInv, CtEntersOnce, EntersOnceUnlessRaced, CtDecidedOnceUnlessRaced, CtDecisions
<1>7. \A m \in Markets, s \in Strategies : Undecided(m, s)' <=> Undecided(m, s)
  BY <1>3 DEF Undecided, CtDecisions
<1>8. ASSUME NEW o \in Engines PROVE WalkOK(eng[o])' /\ FreshOrStale(eng[o])'
  <2>1. WalkOK(eng'[o]) /\ FreshOrStale(eng'[o])
    BY <1>2 DEF CInv
  <2>2. WalkOK(eng[o])'
    BY <2>1 DEF WalkOK, Deciding
  <2>3. FreshOrStale(eng[o])'
    BY <1>7, <2>1 DEF FreshOrStale, Intends, Deciding, DecidesFor
  <2> QED
    BY <2>2, <2>3
<1>9. ASSUME NEW o \in Engines, NEW m \in Markets PROVE Fits(eng[o].tx[m])'
  <2>1. Fits(eng'[o].tx[m])
    BY <1>2 DEF CInv
  <2> QED
    BY <2>1 DEF Fits
<1>10. HoldsKey'
  BY <1>2, <1>3 DEF CInv, HoldsKey
<1> QED
  BY <1>5, <1>6, <1>8, <1>9, <1>10 DEF CInv

\* An engine's row without its current market: what Leave makes of it.
Left(r, m, t) ==
    [r EXCEPT !.at = "market", !.cur = NoMarket, !.old = NoRow,
              !.todo = [u \in DOMAIN r.todo \ {m} |-> r.todo[u]],
              !.tx = [r.tx EXCEPT ![m] = t]]

\* Leaving a market with the write t, which fits, which decides the market only
\* for a strategy that intended to, and which reserves only a free key.
LEMMA LeaveStep ==
    ASSUME CInv, NEW e \in Engines, NEW m \in DOMAIN eng[e].todo, NEW t \in Write,
           Leave(e, m, t), UNCHANGED <<phase, mode, dbVars, switches>>,
           Fits(t),
           \A s \in Strategies : DecidesFor(t, s) /\ m \notin eng[e].stale => Undecided(m, s),
           t.resv # "none" =>
               resv[m] = "none" /\ \A o \in Engines \ {e} : eng[o].tx[m].resv = "none"
    PROVE  CInv'
<1> DEFINE r == Left(eng[e], m, t)
<1>1. eng \in [Engines -> EngineRow] /\ eng[e] \in EngineRow
  BY DEF CInv, Typed
<1>2. eng[e].todo \in Todo
  BY <1>1 DEF EngineRow
<1>3. m \in Markets /\ [u \in DOMAIN eng[e].todo \ {m} |-> eng[e].todo[u]] \in Todo
  BY <1>2, TodoFacts
<1>4. eng' = [eng EXCEPT ![e] = r]
  BY <1>1 DEF Leave, Left, EngineRow
<1>5. [eng[e].tx EXCEPT ![m] = t] \in [Markets -> Write]
  BY <1>1, <1>3 DEF EngineRow
<1>6. r \in EngineRow
  BY <1>1, <1>3, <1>5 DEF Left, EngineRow
<1>7. /\ r.at = "market" /\ r.stale = eng[e].stale
      /\ r.todo = [u \in DOMAIN eng[e].todo \ {m} |-> eng[e].todo[u]]
      /\ r.tx = [eng[e].tx EXCEPT ![m] = t]
  BY <1>1 DEF Left, EngineRow
<1>8. r.tx[m] = t /\ \A u \in Markets \ {m} : r.tx[u] = eng[e].tx[u]
  BY <1>1, <1>3, <1>7 DEF EngineRow
<1> HIDE DEF r
<1>9. DOMAIN r.todo = DOMAIN eng[e].todo \ {m} /\ DOMAIN eng[e].todo \subseteq Markets
  BY <1>2, <1>7, TodoFacts
<1>10. WalkOK(eng[e]) /\ FreshOrStale(eng[e])
  BY DEF CInv
<1>11. ~Deciding(r)
  BY <1>7 DEF Deciding
<1>12. WalkOK(r)
  BY <1>7, <1>8, <1>9, <1>10, <1>11 DEF WalkOK
<1>13. FreshOrStale(r)
  <2> SUFFICES ASSUME NEW u \in Markets, NEW s \in Strategies, Intends(r, u, s), u \notin r.stale
               PROVE  Undecided(u, s)
    BY DEF FreshOrStale
  <2>1. DecidesFor(r.tx[u], s)
    BY <1>11 DEF Intends
  <2>2. CASE u = m
    BY <1>7, <1>8, <2>1, <2>2
  <2>3. CASE u # m
    BY <1>7, <1>8, <1>10, <2>1, <2>3 DEF FreshOrStale, Intends
  <2> QED
    BY <2>2, <2>3
<1>14. \A u \in Markets : Fits(r.tx[u])
  BY <1>8 DEF CInv
<1>15. \A u \in Markets : r.tx[u].resv # "none" =>
           resv[u] = "none" /\ \A o \in Engines \ {e} : eng[o].tx[u].resv = "none"
  BY <1>8 DEF CInv, HoldsKey
<1> QED
  BY <1>4, <1>6, <1>12, <1>13, <1>14, <1>15, EngineStep

\* A step that moves an engine to another place with nothing else changed.
LEMMA GoesStep ==
    ASSUME CInv, NEW e \in Engines, NEW at, Goes(e, at),
           \/ at = "commit"
           \/ /\ at \in {"buy", "skip"} /\ Deciding(eng[e])
              /\ at = "skip" => eng[e].todo[eng[e].cur].mode = "ct"
    PROVE  CInv'
<1> DEFINE r == [eng[e] EXCEPT !.at = at]
<1>1. eng \in [Engines -> EngineRow] /\ eng[e] \in EngineRow
  BY DEF CInv, Typed
<1>2. eng' = [eng EXCEPT ![e] = r] /\ UNCHANGED <<phase, mode, dbVars, switches>>
  BY <1>1 DEF Goes, EngineRow
<1>3. r \in EngineRow
  BY <1>1 DEF EngineRow
<1>4. /\ r.at = at /\ r.todo = eng[e].todo /\ r.cur = eng[e].cur /\ r.old = eng[e].old
      /\ r.tx = eng[e].tx /\ r.stale = eng[e].stale
  BY <1>1 DEF EngineRow
<1> HIDE DEF r
<1>5. Deciding(r) => Deciding(eng[e])
  BY <1>4 DEF Deciding
<1>6. WalkOK(eng[e]) /\ FreshOrStale(eng[e])
  BY DEF CInv
<1>7. WalkOK(r)
  BY <1>4, <1>5, <1>6 DEF WalkOK
<1>8. FreshOrStale(r)
  BY <1>4, <1>5, <1>6 DEF FreshOrStale, Intends
<1>9. \A u \in Markets : Fits(r.tx[u])
  BY <1>4 DEF CInv
<1>10. \A u \in Markets : r.tx[u].resv # "none" =>
           resv[u] = "none" /\ \A o \in Engines \ {e} : eng[o].tx[u].resv = "none"
  BY <1>4 DEF CInv, HoldsKey
<1> QED
  BY <1>2, <1>3, <1>7, <1>8, <1>9, <1>10, EngineStep

-----------------------------------------------------------------------------
(* The actions of one engine.                                               *)

\* What save_or_update_skipped_trade writes: a decision only when the details of
\* a CT decision come with it, and a reservation only if the caller made one.
LEMMA SkipsWrite ==
    ASSUME NEW old \in Row \cup {NoRow}, NEW ct \in BOOLEAN, NEW w \in Write,
           w.skip = "none", w.entry = "none", w.resv # "BUY",
           NEW t \in Skips(old, ct, w)
    PROVE  /\ t \in Write /\ Fits(t) /\ t.resv = w.resv
           /\ \A s \in Strategies : DecidesFor(t, s) => s = "ct" /\ ct
<1>1. \/ t = w
      \/ t = [w EXCEPT !.skip = IF ct THEN "insert_ct" ELSE "insert"]
      \/ t = [w EXCEPT !.skip = "update", !.row = old]
  BY DEF Skips
<1>2. CASE t = w
  BY <1>2 DEF Fits, DecidesFor, Strategies
<1>3. CASE t = [w EXCEPT !.skip = IF ct THEN "insert_ct" ELSE "insert"]
  <2>1. t \in Write /\ t.entry = "none" /\ t.resv = w.resv
    BY <1>3 DEF Write
  <2>2. t.skip = IF ct THEN "insert_ct" ELSE "insert"
    BY <1>3 DEF Write
  <2>3. ~ct => t.skip # "insert_ct"
    BY <2>2
  <2> QED
    BY <2>1, <2>3 DEF Fits, DecidesFor, Strategies
<1>4. CASE t = [w EXCEPT !.skip = "update", !.row = old]
  <2>1. t \in Write /\ t.entry = "none" /\ t.resv = w.resv /\ t.skip = "update"
    BY <1>4 DEF Write
  <2> QED
    BY <2>1 DEF Fits, DecidesFor, Strategies
<1> QED
  BY <1>1, <1>2, <1>3, <1>4

\* An empty write decides nothing.
LEMMA NoWriteFacts ==
    /\ NoWrite \in Write /\ Fits(NoWrite)
    /\ NoWrite.skip = "none" /\ NoWrite.entry = "none" /\ NoWrite.resv = "none"
    /\ \A s \in Strategies : ~DecidesFor(NoWrite, s)
BY DEF NoWrite, Write, Fits, DecidesFor, Strategies

\* The current market of a deciding engine is still to do, and what its guard
\* found holds unless the market is marked.
LEMMA CurrentMarket ==
    ASSUME CInv, NEW e \in Engines, Deciding(eng[e])
    PROVE  /\ eng[e] \in EngineRow
           /\ eng[e].cur \in DOMAIN eng[e].todo /\ eng[e].cur \in Markets
           /\ eng[e].old \in Row \cup {NoRow}
           /\ Strategy(e) \in Strategies
           /\ eng[e].cur \notin eng[e].stale => Undecided(eng[e].cur, Strategy(e))
           /\ Strategy(e) = "ct" => eng[e].old = NoRow
<1>1. eng[e] \in EngineRow /\ eng[e].todo \in Todo /\ eng[e].old \in Row \cup {NoRow}
  BY DEF CInv, Typed, EngineRow
<1>2. WalkOK(eng[e]) /\ FreshOrStale(eng[e])
  BY DEF CInv
<1>3. eng[e].cur \in DOMAIN eng[e].todo
  BY <1>2 DEF WalkOK
<1>4. eng[e].cur \in Markets /\ Strategy(e) \in Strategies
  BY <1>1, <1>3, TodoFacts DEF Strategy
<1>5. eng[e].cur \notin eng[e].stale => Undecided(eng[e].cur, Strategy(e))
  BY <1>2, <1>4 DEF FreshOrStale, Intends, Strategy
<1>6. Strategy(e) = "ct" => eng[e].old = NoRow
  BY <1>2 DEF WalkOK, Strategy
<1> QED
  BY <1>1, <1>3, <1>4, <1>5, <1>6

\* The clock and the settings are read into a fresh row.
LEMMA CycleBeginsInv ==
    ASSUME NEW e \in Engines
    PROVE  CInv /\ CycleBegins(e) => CInv'
<1> SUFFICES ASSUME CInv, CycleBegins(e) PROVE CInv'
  OBVIOUS
<1> DEFINE D == {m \in Markets : phase[m] # "over"}
           td == [m \in D |-> [phase |-> phase[m], mode |-> mode[m]]]
           r == [Idle EXCEPT !.at = "market", !.todo = td]
<1>1. eng' = [eng EXCEPT ![e] = r] /\ UNCHANGED <<phase, mode, dbVars, switches>>
  BY DEF CycleBegins
<1>2. td \in Todo
  BY TodoBegins DEF CInv, Typed
<1> HIDE DEF td
<1>3. r \in EngineRow /\ r.at = "market" /\ r.tx = [m \in Markets |-> NoWrite]
  BY <1>2, IdleTyped DEF Idle, EngineRow
<1>4. DOMAIN r.todo \subseteq Markets
  BY <1>3, TodoFacts DEF EngineRow
<1> HIDE DEF r
<1>5. WalkOK(r)
  BY <1>3, <1>4 DEF WalkOK, Deciding
<1>6. FreshOrStale(r)
  BY <1>3, NoWriteFacts DEF FreshOrStale, Intends, Deciding
<1>7. \A m \in Markets : Fits(r.tx[m]) /\ r.tx[m].resv = "none"
  BY <1>3, NoWriteFacts
<1> QED
  BY <1>1, <1>3, <1>5, <1>6, <1>7, EngineStep

\* A cycle that is lost leaves nothing.
LEMMA LostInv ==
    ASSUME NEW e \in Engines
    PROVE  CInv /\ Lost(e) => CInv'
<1> SUFFICES ASSUME CInv, Lost(e) PROVE CInv'
  OBVIOUS
<1>1. eng' = [eng EXCEPT ![e] = Idle] /\ UNCHANGED <<phase, mode, dbVars, switches>>
  BY DEF Lost
<1>2. Idle \in EngineRow /\ Idle.at = "idle" /\ Idle.tx = [m \in Markets |-> NoWrite]
  BY IdleTyped DEF Idle
<1>3. WalkOK(Idle)
  BY <1>2, IdleTyped DEF WalkOK, Deciding
<1>4. FreshOrStale(Idle)
  BY <1>2, NoWriteFacts DEF FreshOrStale, Intends, Deciding
<1>5. \A m \in Markets : Fits(Idle.tx[m]) /\ Idle.tx[m].resv = "none"
  BY <1>2, NoWriteFacts
<1> QED
  BY <1>1, <1>2, <1>3, <1>4, <1>5, EngineStep

\* A guard that lets the market through has seen no trade, and for CT no row,
\* of its strategy.
LEMMA GuardPasses ==
    ASSUME CInv, NEW m \in Markets, NEW s \in Strategies, ~Traded(m, s),
           s = "ct" => SkippedRows(m, s) = {}
    PROVE  Undecided(m, s)
<1>1. entries[m][s] \in Nat
  BY DEF CInv, Typed, TypeOK
<1>2. entries[m][s] = 0
  BY <1>1 DEF Traded
<1>3. CASE s = "ct"
  <2>1. {r \in rows[m] : r.ct} = {}
    BY <1>3 DEF SkippedRows
  <2>2. Cardinality({r \in rows[m] : r.ct}) = 0
    BY <2>1, FS_EmptySet
  <2> QED
    BY <1>2, <1>3, <2>2 DEF Undecided, CtDecisions
<1>4. CASE s = "combined"
  BY <1>2, <1>4 DEF Undecided
<1> QED
  BY <1>3, <1>4 DEF Strategies

\* check_market_guards.
LEMMA GuardInv ==
    ASSUME NEW e \in Engines, NEW m \in Markets
    PROVE  CInv /\ Guard(e, m) => CInv'
<1> SUFFICES ASSUME CInv, Guard(e, m) PROVE CInv'
  OBVIOUS
<1>1. eng \in [Engines -> EngineRow] /\ eng[e] \in EngineRow
  BY DEF CInv, Typed
<1>2. eng[e].at = "market" /\ m \in DOMAIN eng[e].todo
  BY DEF Guard, At
<1>3. PICK s \in Strategies : s = eng[e].todo[m].mode
  BY <1>1, <1>2, TodoFacts DEF EngineRow
<1>4. UNCHANGED <<phase, mode, dbVars, switches>>
  BY DEF Guard, LeaveSkipped
<1> DEFINE found == SkippedRows(m, s)
           silent == \/ Traded(m, s)
                     \/ (s = "ct" /\ (found # {} \/ eng[e].todo[m].phase # "window"))
<1>5. \/ silent /\ LeaveSkipped(e, m, {NoWrite})
      \/ ~silent /\ \E old \in IF found = {} THEN {NoRow} ELSE found :
            \/ LeaveSkipped(e, m, Skips(old, FALSE, NoWrite))
            \/ eng' = [eng EXCEPT ![e].at = "decide", ![e].cur = m, ![e].old = old]
  BY <1>3 DEF Guard
<1>6. \A old \in IF found = {} THEN {NoRow} ELSE found : old \in Row \cup {NoRow}
  BY DEF CInv, Typed, TypeOK, SkippedRows
<1>7. CASE Leave(e, m, NoWrite)
  BY <1>2, <1>4, <1>7, NoWriteFacts, LeaveStep
<1>8. ASSUME NEW old \in IF found = {} THEN {NoRow} ELSE found,
             NEW t \in Skips(old, FALSE, NoWrite), Leave(e, m, t)
      PROVE  CInv'
  <2>1. old \in Row \cup {NoRow} /\ FALSE \in BOOLEAN
    BY <1>6
  <2>2. NoWrite.skip = "none" /\ NoWrite.entry = "none" /\ NoWrite.resv # "BUY"
    BY NoWriteFacts
  <2>3. /\ t \in Write /\ Fits(t) /\ t.resv = NoWrite.resv
        /\ \A q \in Strategies : DecidesFor(t, q) => q = "ct" /\ FALSE
    BY <2>1, <2>2, NoWriteFacts, SkipsWrite, Zenon
  <2> QED
    BY <1>2, <1>4, <1>8, <2>3, NoWriteFacts, LeaveStep
<1>9. ASSUME ~silent, NEW old \in IF found = {} THEN {NoRow} ELSE found,
             eng' = [eng EXCEPT ![e].at = "decide", ![e].cur = m, ![e].old = old]
      PROVE  CInv'
  <2> DEFINE r == [eng[e] EXCEPT !.at = "decide", !.cur = m, !.old = old]
  <2>1. eng' = [eng EXCEPT ![e] = r]
    BY <1>1, <1>9 DEF EngineRow
  <2>2. old \in Row \cup {NoRow}
    BY <1>6
  <2>3. r \in EngineRow
    BY <1>1, <2>2 DEF EngineRow
  <2>4. /\ r.at = "decide" /\ r.todo = eng[e].todo /\ r.cur = m /\ r.old = old
        /\ r.tx = eng[e].tx /\ r.stale = eng[e].stale
    BY <1>1 DEF EngineRow
  <2> HIDE DEF r
  <2>5. WalkOK(eng[e]) /\ FreshOrStale(eng[e])
    BY DEF CInv
  <2>6. s = "ct" => found = {} /\ old = NoRow
    BY <1>9
  <2>7. WalkOK(r)
    BY <1>2, <1>3, <2>4, <2>5, <2>6 DEF WalkOK
  <2>8. Undecided(m, s)
    BY <1>9, <2>6, GuardPasses
  <2>9. FreshOrStale(r)
    <3> SUFFICES ASSUME NEW u \in Markets, NEW q \in Strategies, Intends(r, u, q), u \notin r.stale
                 PROVE  Undecided(u, q)
      BY DEF FreshOrStale
    <3>1. CASE DecidesFor(r.tx[u], q)
      BY <2>4, <2>5, <3>1 DEF FreshOrStale, Intends
    <3>2. CASE u = m /\ r.todo[u].mode = q
      BY <1>3, <2>4, <2>8, <3>2
    <3> QED
      BY <2>4, <3>1, <3>2 DEF Intends
  <2>10. \A u \in Markets : Fits(r.tx[u])
    BY <2>4 DEF CInv
  <2>11. \A u \in Markets : r.tx[u].resv # "none" =>
           resv[u] = "none" /\ \A o \in Engines \ {e} : eng[o].tx[u].resv = "none"
    BY <2>4 DEF CInv, HoldsKey
  <2> QED
    BY <1>4, <2>1, <2>3, <2>7, <2>9, <2>10, <2>11, EngineStep
<1> HIDE DEF found, silent
<1> QED
  BY <1>5, <1>7, <1>8, <1>9 DEF LeaveSkipped

\* A decision that is a skip: no decision, an error, or ALREADY_DECIDED.
LEMMA DecideSkipsInv ==
    ASSUME NEW e \in Engines
    PROVE  CInv /\ DecideSkips(e) => CInv'
<1> SUFFICES ASSUME CInv, DecideSkips(e) PROVE CInv'
  OBVIOUS
<1>1. Deciding(eng[e]) /\ UNCHANGED <<phase, mode, dbVars, switches>>
  BY DEF DecideSkips, At, Deciding, LeaveSkipped
<1>2. PICK t \in Skips(eng[e].old, FALSE, NoWrite) : Leave(e, eng[e].cur, t)
  BY DEF DecideSkips, LeaveSkipped
<1>3. eng[e].old \in Row \cup {NoRow} /\ eng[e].cur \in DOMAIN eng[e].todo /\ FALSE \in BOOLEAN
  BY <1>1, CurrentMarket
<1>4. NoWrite.skip = "none" /\ NoWrite.entry = "none" /\ NoWrite.resv # "BUY"
  BY NoWriteFacts
<1>5. /\ t \in Write /\ Fits(t) /\ t.resv = NoWrite.resv
      /\ \A q \in Strategies : DecidesFor(t, q) => q = "ct" /\ FALSE
  BY <1>3, <1>4, NoWriteFacts, SkipsWrite, Zenon
<1> QED
  BY <1>1, <1>2, <1>3, <1>5, NoWriteFacts, LeaveStep

\* A decision that goes on to the entry or to CT's SKIP.
LEMMA DecideActsInv ==
    ASSUME NEW e \in Engines
    PROVE  CInv /\ DecideActs(e) => CInv'
<1> SUFFICES ASSUME CInv, DecideActs(e) PROVE CInv'
  OBVIOUS
<1>1. Deciding(eng[e])
  BY DEF DecideActs, At, Deciding
<1>2. CASE Goes(e, "buy")
  BY <1>1, <1>2, GoesStep
<1>3. CASE Strategy(e) = "ct" /\ Goes(e, "skip")
  BY <1>1, <1>3, GoesStep DEF Strategy
<1> QED
  BY <1>2, <1>3 DEF DecideActs

\* Errors of the quote and the end of the walk lead to the commit.
LEMMA ToCommitInv ==
    ASSUME NEW e \in Engines
    PROVE  CInv /\ (Raises(e) \/ WalkEnds(e)) => CInv'
<1> SUFFICES ASSUME CInv, Goes(e, "commit") PROVE CInv'
  BY DEF Raises, WalkEnds
<1> QED
  BY GoesStep

\* A skip of a deciding engine that carries the details of its own strategy.
LEMMA OwnSkip ==
    ASSUME CInv, NEW e \in Engines, Deciding(eng[e]),
           UNCHANGED <<phase, mode, dbVars, switches>>,
           NEW w \in Write, w.skip = "none", w.entry = "none", w.resv # "BUY",
           NEW ct \in BOOLEAN, ct => Strategy(e) = "ct",
           NEW t \in Skips(eng[e].old, ct, w), Leave(e, eng[e].cur, t),
           w.resv # "none" => /\ resv[eng[e].cur] = "none"
                              /\ \A o \in Engines \ {e} : eng[o].tx[eng[e].cur].resv = "none"
    PROVE  CInv'
<1>1. /\ eng[e].old \in Row \cup {NoRow} /\ eng[e].cur \in DOMAIN eng[e].todo
      /\ eng[e].cur \notin eng[e].stale => Undecided(eng[e].cur, Strategy(e))
  BY CurrentMarket
<1>2. /\ t \in Write /\ Fits(t) /\ t.resv = w.resv
      /\ \A s \in Strategies : DecidesFor(t, s) => s = "ct" /\ ct
  BY <1>1, SkipsWrite, SMT
<1>3. \A s \in Strategies : DecidesFor(t, s) /\ eng[e].cur \notin eng[e].stale
                            => Undecided(eng[e].cur, s)
  BY <1>1, <1>2, Zenon
<1>4. t.resv # "none" => /\ resv[eng[e].cur] = "none"
                         /\ \A o \in Engines \ {e} : eng[o].tx[eng[e].cur].resv = "none"
  BY <1>2
<1> QED
  BY <1>1, <1>2, <1>3, <1>4, LeaveStep

\* A validation that refuses leaves the skip of the strategy.
LEMMA ValidationRefusesInv ==
    ASSUME NEW e \in Engines
    PROVE  CInv /\ ValidationRefuses(e) => CInv'
<1> SUFFICES ASSUME CInv, ValidationRefuses(e) PROVE CInv'
  OBVIOUS
<1>1. Deciding(eng[e]) /\ UNCHANGED <<phase, mode, dbVars, switches>>
  BY DEF ValidationRefuses, At, Deciding, LeaveSkipped
<1>2. PICK t \in Skips(eng[e].old, Strategy(e) = "ct", NoWrite) : Leave(e, eng[e].cur, t)
  BY DEF ValidationRefuses, LeaveSkipped
<1>3. (Strategy(e) = "ct") \in BOOLEAN
  OBVIOUS
<1>4. NoWrite.resv # "BUY"
  BY NoWriteFacts
<1> QED
  BY <1>1, <1>2, <1>3, <1>4, NoWriteFacts, OwnSkip, Zenon

\* CT's SKIP is reserved only under a key nobody holds.
LEMMA CtReservesSkipInv ==
    ASSUME NEW e \in Engines
    PROVE  CInv /\ CtReservesSkip(e) => CInv'
<1> SUFFICES ASSUME CInv, CtReservesSkip(e) PROVE CInv'
  OBVIOUS
<1> DEFINE v == IF resv[eng[e].cur] = "none" THEN "SKIP" ELSE "none"
           w == [NoWrite EXCEPT !.resv = v]
<1>1. /\ At(e, "skip") /\ Waits(e) = {} /\ Deciding(eng[e])
      /\ UNCHANGED <<phase, mode, dbVars, switches>>
  BY DEF CtReservesSkip, At, Deciding, LeaveSkipped
<1>2. PICK t \in Skips(eng[e].old, TRUE, w) : Leave(e, eng[e].cur, t)
  BY DEF CtReservesSkip, LeaveSkipped
<1>3. Strategy(e) = "ct"
  BY <1>1 DEF CInv, WalkOK, At, Strategy
<1>4. w \in Write /\ w.skip = "none" /\ w.entry = "none" /\ w.resv = v
  BY DEF NoWrite, Write
<1>5. v # "BUY" /\ (v # "none" => resv[eng[e].cur] = "none")
  OBVIOUS
<1> HIDE DEF v, w
<1>6. \A o \in Engines \ {e} : eng[o].tx[eng[e].cur].resv = "none"
  <2>1. WaitsResv(e) = {}
    BY <1>1 DEF Waits, At
  <2> QED
    BY <1>3, <2>1 DEF WaitsResv
<1>7. TRUE \in BOOLEAN
  OBVIOUS
<1>8. w.resv # "BUY" /\ (w.resv # "none" => resv[eng[e].cur] = "none")
  BY <1>4, <1>5
<1> QED
  BY <1>1, <1>2, <1>3, <1>4, <1>6, <1>7, <1>8, OwnSkip, Zenon

\* The entry: the trade, its request and for CT the reservation are one write.
LEMMA ExecuteInv ==
    ASSUME NEW e \in Engines
    PROVE  CInv /\ Execute(e) => CInv'
<1> SUFFICES ASSUME CInv, Execute(e) PROVE CInv'
  OBVIOUS
<1> DEFINE m == eng[e].cur
           s == Strategy(e)
           v == IF s = "ct" THEN "BUY" ELSE "none"
           t == [Deleted(e) EXCEPT !.entry = s, !.resv = v]
<1>1. /\ At(e, "buy") /\ Waits(e) = {} /\ Deciding(eng[e])
      /\ ~(s = "ct" /\ Reserved(m))
      /\ UNCHANGED <<phase, mode, dbVars, switches>>
  BY DEF Execute, At, Deciding, LeaveSkipped
<1>2. Leave(e, m, t)
  BY DEF Execute, LeaveSkipped
<1>3. /\ eng[e].old \in Row \cup {NoRow} /\ m \in DOMAIN eng[e].todo /\ s \in Strategies
      /\ m \notin eng[e].stale => Undecided(m, s)
  BY <1>1, CurrentMarket
<1> HIDE DEF m, s
<1>4. v \in {"none", "BUY", "SKIP"} /\ (v = "BUY" <=> s = "ct") /\ (v # "none" => s = "ct")
  OBVIOUS
<1> HIDE DEF v
<1>5. t \in Write /\ t.entry = s /\ t.resv = v /\ t.skip = "none"
  BY <1>3, <1>4 DEF Deleted, NoWrite, Write
<1> HIDE DEF t
<1>6. Fits(t)
  BY <1>4, <1>5 DEF Fits
<1>7. \A q \in Strategies : DecidesFor(t, q) => q = s
  BY <1>5 DEF DecidesFor
<1>8. v # "none" => resv[m] = "none" /\ \A o \in Engines \ {e} : eng[o].tx[m].resv = "none"
  <2>1. WaitsResv(e) = {}
    BY <1>1 DEF Waits, At
  <2> QED
    BY <1>1, <1>4, <2>1 DEF WaitsResv, Reserved, m, s
<1>9. \A q \in Strategies : DecidesFor(t, q) /\ m \notin eng[e].stale => Undecided(m, q)
  BY <1>3, <1>7
<1> QED
  BY <1>1, <1>2, <1>3, <1>5, <1>6, <1>8, <1>9, LeaveStep DEF m

\* A refused entry leaves the strategy's skip or the deletion of its old row.
LEMMA ExecuteRejectsInv ==
    ASSUME NEW e \in Engines
    PROVE  CInv /\ ExecuteRejects(e) => CInv'
<1> SUFFICES ASSUME CInv, ExecuteRejects(e) PROVE CInv'
  OBVIOUS
<1>1. Deciding(eng[e]) /\ UNCHANGED <<phase, mode, dbVars, switches>>
  BY DEF ExecuteRejects, At, Deciding, LeaveSkipped
<1>2. PICK t \in IF eng[e].old = NoRow THEN Skips(NoRow, Strategy(e) = "ct", NoWrite)
                 ELSE {Deleted(e)} : Leave(e, eng[e].cur, t)
  BY DEF ExecuteRejects, LeaveSkipped
<1>3. CASE eng[e].old = NoRow
  <2>1. t \in Skips(eng[e].old, Strategy(e) = "ct", NoWrite)
    BY <1>2, <1>3
  <2>2. (Strategy(e) = "ct") \in BOOLEAN /\ NoWrite.resv # "BUY"
    BY NoWriteFacts
  <2> QED
    BY <1>1, <1>2, <2>1, <2>2, NoWriteFacts, OwnSkip, Zenon
<1>4. CASE eng[e].old # NoRow
  <2>1. t = Deleted(e)
    BY <1>2, <1>4
  <2>2. eng[e].old \in Row \cup {NoRow} /\ eng[e].cur \in DOMAIN eng[e].todo
    BY <1>1, CurrentMarket
  <2>3. t \in Write /\ t.entry = "none" /\ t.resv = "none" /\ t.skip = "none"
    BY <2>1, <2>2 DEF Deleted, NoWrite, Write
  <2>4. Fits(t) /\ \A q \in Strategies : ~DecidesFor(t, q)
    BY <2>3 DEF Fits, DecidesFor, Strategies
  <2> QED
    BY <1>1, <1>2, <2>2, <2>3, <2>4, LeaveStep
<1> QED
  BY <1>3, <1>4

-----------------------------------------------------------------------------
(* The commit.                                                              *)

\* The CT rows of a market.
CtRows(m) == {r \in rows[m] : r.ct}

\* They are finitely many.
LEMMA CtRowsFinite ==
    ASSUME CInv, NEW m \in Markets
    PROVE  IsFiniteSet(CtRows(m)) /\ Cardinality(CtRows(m)) \in Nat
<1>1. IsFiniteSet(rows[m]) /\ CtRows(m) \subseteq rows[m]
  BY DEF CInv, Typed, CtRows
<1>2. IsFiniteSet(CtRows(m))
  BY <1>1, FS_Subset
<1> QED
  BY <1>2, FS_CardinalityType

\* What the write of one market makes of its rows: they stay finitely many rows
\* with ids up to the last one inserted, and gain a CT row only by insert_ct.
LEMMA CommitRows ==
    ASSUME CInv, NEW m \in Markets, NEW t \in Write,
           Inserts(t) => inserted[m] < MaxRows,
           NEW R, R = RowsAfter(m, t),
           NEW n, n = inserted[m] + (IF Inserts(t) THEN 1 ELSE 0)
    PROVE  /\ R \subseteq Row /\ IsFiniteSet(R) /\ n \in 0..MaxRows
           /\ \A r \in R : r.id <= n
           /\ IsFiniteSet({r \in R : r.ct}) /\ Cardinality({r \in R : r.ct}) \in Nat
           /\ Cardinality({r \in R : r.ct})
                <= Cardinality(CtRows(m)) + (IF t.skip = "insert_ct" THEN 1 ELSE 0)
<1>1. /\ rows[m] \subseteq Row /\ IsFiniteSet(rows[m]) /\ inserted[m] \in 0..MaxRows
      /\ \A r \in rows[m] : r.id <= inserted[m]
      /\ \A r \in rows[m] : r.id \in Nat
  BY DEF CInv, Typed, TypeOK, Row
<1>2. IsFiniteSet(CtRows(m)) /\ Cardinality(CtRows(m)) \in Nat
  BY CtRowsFinite
<1>3. t.skip \in {"none", "insert", "insert_ct", "update"}
  BY DEF Write
<1>4. CASE t.skip \in {"none", "update"}
  <2>1. R \subseteq rows[m] /\ n = inserted[m]
    BY <1>1, <1>4 DEF RowsAfter, Inserts
  <2>2. {r \in R : r.ct} \subseteq CtRows(m)
    BY <2>1 DEF CtRows
  <2>3. IsFiniteSet(R)
    BY <1>1, <2>1, FS_Subset
  <2>4. /\ IsFiniteSet({r \in R : r.ct})
        /\ Cardinality({r \in R : r.ct}) <= Cardinality(CtRows(m))
    BY <1>2, <2>2, FS_Subset
  <2>5. Cardinality({r \in R : r.ct}) \in Nat
    BY <2>4, FS_CardinalityType
  <2> QED
    BY <1>1, <1>2, <1>4, <2>1, <2>3, <2>4, <2>5
<1>5. CASE t.skip \in {"insert", "insert_ct"}
  <2> DEFINE new == [ct |-> t.skip = "insert_ct", id |-> inserted[m] + 1]
  <2>1. R = rows[m] \cup {new} /\ n = inserted[m] + 1 /\ inserted[m] < MaxRows
    BY <1>5 DEF RowsAfter, Inserts
  <2>2. inserted[m] + 1 \in 1..MaxRows
    BY <1>1, <2>1, CycleAssumption
  <2>3. new \in Row
    BY <2>2 DEF Row
  <2>4. new.ct <=> t.skip = "insert_ct"
    OBVIOUS
  <2>5. new.id = n
    BY <2>1
  <2> HIDE DEF new
  <2>6. R \subseteq Row /\ IsFiniteSet(R)
    BY <1>1, <2>1, <2>3, FS_AddElement
  <2>7. n \in 0..MaxRows
    BY <2>1, <2>2
  <2>8. \A r \in R : r.id <= n
    BY <1>1, <2>1, <2>5
  <2>9. CASE t.skip = "insert_ct"
    <3>1. {r \in R : r.ct} = CtRows(m) \cup {new}
      BY <2>1, <2>4, <2>9 DEF CtRows
    <3>2. /\ IsFiniteSet(CtRows(m) \cup {new})
          /\ \/ Cardinality(CtRows(m) \cup {new}) = Cardinality(CtRows(m))
             \/ Cardinality(CtRows(m) \cup {new}) = Cardinality(CtRows(m)) + 1
      BY <1>2, FS_AddElement
    <3>3. /\ IsFiniteSet({r \in R : r.ct})
          /\ \/ Cardinality({r \in R : r.ct}) = Cardinality(CtRows(m))
             \/ Cardinality({r \in R : r.ct}) = Cardinality(CtRows(m)) + 1
      BY <3>1, <3>2, Zenon
    <3> QED
      BY <1>2, <2>6, <2>7, <2>8, <2>9, <3>3
  <2>10. CASE t.skip # "insert_ct"
    <3>1. {r \in R : r.ct} = CtRows(m)
      BY <2>1, <2>4, <2>10 DEF CtRows
    <3>2. /\ IsFiniteSet({r \in R : r.ct})
          /\ Cardinality({r \in R : r.ct}) = Cardinality(CtRows(m))
      BY <1>2, <3>1, Zenon
    <3> QED
      BY <1>2, <2>6, <2>7, <2>8, <2>10, <3>2
  <2> QED
    BY <2>9, <2>10
<1> QED
  BY <1>3, <1>4, <1>5

\* What the commit of e makes of one market's tables.
LEMMA CommitCounts ==
    ASSUME CInv, NEW e \in Engines, Commit(e), NEW m \in Markets,
           NEW t \in Write, t = eng[e].tx[m]
    PROVE  /\ rows'[m] \subseteq Row /\ IsFiniteSet(rows'[m]) /\ inserted'[m] \in 0..MaxRows
           /\ \A r \in rows'[m] : r.id <= inserted'[m]
           /\ entries'[m] \in [Strategies -> Nat]
           /\ entries'[m]["ct"] = entries[m]["ct"] + (IF t.entry = "ct" THEN 1 ELSE 0)
           /\ entries'[m]["combined"] =
                entries[m]["combined"] + (IF t.entry = "combined" THEN 1 ELSE 0)
           /\ CtDecisions(m) \in Nat /\ CtDecisions(m)' \in Nat
           /\ CtDecisions(m)' <= CtDecisions(m) + (IF DecidesFor(t, "ct") THEN 1 ELSE 0)
           /\ resv'[m] = IF t.resv = "none" THEN resv[m] ELSE t.resv
<1>1. /\ Inserts(t) => inserted[m] < MaxRows
      /\ rows'[m] = RowsAfter(m, t)
      /\ inserted'[m] = inserted[m] + (IF Inserts(t) THEN 1 ELSE 0)
      /\ entries'[m] = [s \in Strategies |-> entries[m][s] + (IF t.entry = s THEN 1 ELSE 0)]
      /\ resv'[m] = IF t.resv = "none" THEN resv[m] ELSE t.resv
  BY DEF Commit
<1>2. /\ rows'[m] \subseteq Row /\ IsFiniteSet(rows'[m]) /\ inserted'[m] \in 0..MaxRows
      /\ \A r \in rows'[m] : r.id <= inserted'[m]
      /\ Cardinality({r \in rows'[m] : r.ct}) \in Nat
      /\ Cardinality({r \in rows'[m] : r.ct})
           <= Cardinality(CtRows(m)) + (IF t.skip = "insert_ct" THEN 1 ELSE 0)
  <2>1. PICK R : R = rows'[m]
    OBVIOUS
  <2>2. PICK n : n = inserted'[m]
    OBVIOUS
  <2>3. /\ Inserts(t) => inserted[m] < MaxRows
        /\ R = RowsAfter(m, t) /\ n = inserted[m] + (IF Inserts(t) THEN 1 ELSE 0)
    BY <1>1, <2>1, <2>2
  <2>4. /\ R \subseteq Row /\ IsFiniteSet(R) /\ n \in 0..MaxRows
        /\ \A r \in R : r.id <= n
        /\ Cardinality({r \in R : r.ct}) \in Nat
        /\ Cardinality({r \in R : r.ct})
             <= Cardinality(CtRows(m)) + (IF t.skip = "insert_ct" THEN 1 ELSE 0)
    BY <2>3, CommitRows, Zenon
  <2> QED
    BY <2>1, <2>2, <2>4, Zenon
<1>3. entries[m] \in [Strategies -> Nat]
  BY DEF CInv, Typed, TypeOK
<1>4. /\ entries'[m] \in [Strategies -> Nat]
      /\ entries'[m]["ct"] = entries[m]["ct"] + (IF t.entry = "ct" THEN 1 ELSE 0)
      /\ entries'[m]["combined"] =
           entries[m]["combined"] + (IF t.entry = "combined" THEN 1 ELSE 0)
  BY <1>1, <1>3 DEF Strategies
<1> DEFINE c == Cardinality(CtRows(m))
           d == Cardinality({r \in rows'[m] : r.ct})
<1>5. CtDecisions(m) = c + entries[m]["ct"] /\ CtDecisions(m)' = d + entries'[m]["ct"]
  BY DEF CtDecisions, CtRows
<1>6. c \in Nat /\ d \in Nat /\ d <= c + (IF t.skip = "insert_ct" THEN 1 ELSE 0)
  BY <1>2, CtRowsFinite
<1>7. entries[m]["ct"] \in Nat /\ entries'[m]["ct"] \in Nat
  BY <1>3, <1>4 DEF Strategies
<1> HIDE DEF c, d
<1>8. t.entry = "ct" => t.skip # "insert_ct"
  BY DEF CInv, Fits
<1>9. DecidesFor(t, "ct") <=> t.entry = "ct" \/ t.skip = "insert_ct"
  BY DEF DecidesFor
<1>10. /\ CtDecisions(m) \in Nat /\ CtDecisions(m)' \in Nat
       /\ CtDecisions(m)' <= CtDecisions(m) + (IF DecidesFor(t, "ct") THEN 1 ELSE 0)
  BY <1>4, <1>5, <1>6, <1>7, <1>8, <1>9
<1> QED
  BY <1>1, <1>2, <1>4, <1>10

\* A write that decides is a write.
LEMMA DecidesWrites ==
    ASSUME NEW t \in Write, NEW s \in Strategies, DecidesFor(t, s)
    PROVE  t # NoWrite
BY NoWriteFacts

\* Nothing a commit of e writes makes m decided for s unless e decided it.
LEMMA CommitKeepsUndecided ==
    ASSUME CInv, NEW e \in Engines, Commit(e), NEW m \in Markets, NEW s \in Strategies,
           ~DecidesFor(eng[e].tx[m], s), Undecided(m, s)
    PROVE  Undecided(m, s)'
<1>1. PICK t \in Write : t = eng[e].tx[m]
  BY DEF CInv, Typed, TypeOK
<1>2. CASE s = "ct"
  <2>1. CtDecisions(m)' \in Nat /\ CtDecisions(m)' <= CtDecisions(m) + 0
    BY <1>1, <1>2, CommitCounts
  <2>2. CtDecisions(m) = 0
    BY <1>2 DEF Undecided
  <2>3. CtDecisions(m)' = 0
    BY <2>1, <2>2
  <2> QED
    BY <1>2, <2>3 DEF Undecided
<1>3. CASE s = "combined"
  <2>1. t.entry # "combined"
    BY <1>1, <1>3 DEF DecidesFor
  <2>2. entries'[m]["combined"] = entries[m]["combined"] + 0
    BY <1>1, <2>1, CommitCounts
  <2> QED
    BY <1>3, <2>2 DEF Undecided
<1> QED
  BY <1>2, <1>3 DEF Strategies

\* The commit of a cycle: what it decided was undecided, or the market is marked.
LEMMA CommitInv ==
    ASSUME NEW e \in Engines
    PROVE  CInv /\ Commit(e) => CInv'
<1> SUFFICES ASSUME CInv, Commit(e) PROVE CInv'
  OBVIOUS
<1> DEFINE tx == eng[e].tx
           written == {m \in Markets : tx[m] # NoWrite}
           marks(o) == {m \in written : Unseen(o, m)}
<1>1. eng \in [Engines -> EngineRow]
  BY DEF CInv, Typed
<1>2. tx \in [Markets -> Write]
  BY <1>1 DEF EngineRow
<1>3. /\ raced' = [m \in Markets |-> raced[m] \/ (m \in written /\ m \in eng[e].stale)]
      /\ eng' = [o \in Engines |-> IF o = e THEN Idle ELSE
                   [eng[o] EXCEPT !.stale = @ \cup marks(o)]]
      /\ open' = [m \in Markets |-> open[m] \/ tx[m].entry # "none"]
      /\ UNCHANGED <<phase, mode, switches>>
  BY DEF Commit
<1>4. eng'[e] = Idle
  BY <1>3
<1>5. ASSUME NEW o \in Engines \ {e}
      PROVE  /\ eng'[o] \in EngineRow
             /\ eng'[o].at = eng[o].at /\ eng'[o].todo = eng[o].todo
             /\ eng'[o].cur = eng[o].cur /\ eng'[o].old = eng[o].old
             /\ eng'[o].tx = eng[o].tx /\ eng'[o].stale = eng[o].stale \cup marks(o)
  <2>1. eng'[o] = [eng[o] EXCEPT !.stale = eng[o].stale \cup marks(o)] /\ eng[o] \in EngineRow
    BY <1>1, <1>3 DEF EngineRow
  <2>2. eng[o].stale \cup marks(o) \in SUBSET Markets
    BY <2>1 DEF EngineRow
  <2> HIDE DEF marks
  <2> QED
    BY <2>1, <2>2 DEF EngineRow
<1>6. eng' \in [Engines -> EngineRow]
  <2>1. \A o \in Engines : eng'[o] \in EngineRow
    BY <1>4, <1>5, IdleTyped
  <2> HIDE DEF marks
  <2> QED
    BY <1>3, <2>1
<1>7. ASSUME NEW m \in Markets
      PROVE  /\ rows'[m] \subseteq Row /\ IsFiniteSet(rows'[m]) /\ inserted'[m] \in 0..MaxRows
             /\ \A r \in rows'[m] : r.id <= inserted'[m]
             /\ entries'[m] \in [Strategies -> Nat]
             /\ resv'[m] = IF tx[m].resv = "none" THEN resv[m] ELSE tx[m].resv
  BY <1>2, CommitCounts
<1>8. Typed'
  <2>1. /\ rows' \in [Markets -> SUBSET Row]
        /\ inserted' \in [Markets -> 0..MaxRows]
        /\ entries' \in [Markets -> [Strategies -> Nat]]
    <3>1. /\ rows' = [m \in Markets |-> rows'[m]]
          /\ inserted' = [m \in Markets |-> inserted'[m]]
          /\ entries' = [m \in Markets |-> entries'[m]]
      BY DEF Commit
    <3> QED
      BY <1>7, <3>1
  <2>2. resv' \in [Markets -> {"none", "BUY", "SKIP"}]
    <3>1. resv' = [m \in Markets |-> resv'[m]]
      BY DEF Commit
    <3>2. \A m \in Markets : resv'[m] \in {"none", "BUY", "SKIP"}
      BY <1>2, <1>7 DEF CInv, Typed, TypeOK, Write
    <3> QED
      BY <3>1, <3>2
  <2>3. open' \in [Markets -> BOOLEAN] /\ raced' \in [Markets -> BOOLEAN]
    BY <1>3
  <2>4. \A o \in Engines :
         /\ eng'[o].at \in {"idle", "market", "decide", "buy", "skip", "commit"}
         /\ eng'[o].cur \in Markets \cup {NoMarket} /\ eng'[o].old \in Row \cup {NoRow}
         /\ eng'[o].tx \in [Markets -> Write] /\ eng'[o].stale \subseteq Markets
    BY <1>6 DEF EngineRow
  <2>5. /\ phase' \in [Markets -> {"early", "window", "over"}]
        /\ mode' \in [Markets -> Strategies] /\ switches' \in 0..MaxSwitches
    BY <1>3 DEF CInv, Typed, TypeOK
  <2>6. TypeOK'
    BY <1>7, <2>1, <2>2, <2>3, <2>4, <2>5 DEF TypeOK
  <2> QED
    BY <1>6, <1>7, <2>6 DEF Typed
<1>9. Idle.at = "idle" /\ Idle.tx = [m \in Markets |-> NoWrite]
  BY DEF Idle
<1>10. ASSUME NEW o \in Engines PROVE WalkOK(eng[o])'
  <2>1. CASE o = e
    BY <1>4, <1>9, <2>1, IdleTyped DEF WalkOK, Deciding
  <2>2. CASE o # e
    <3>1. WalkOK(eng[o])
      BY DEF CInv
    <3> HIDE DEF marks
    <3> QED
      BY <1>5, <2>2, <3>1 DEF WalkOK, Deciding
  <2> QED
    BY <2>1, <2>2
<1>11. ASSUME NEW o \in Engines, NEW m \in Markets PROVE Fits(eng[o].tx[m])'
  <2>1. CASE o = e
    BY <1>4, <1>9, <2>1, NoWriteFacts DEF Fits
  <2>2. CASE o # e
    <3>1. Fits(eng[o].tx[m])
      BY DEF CInv
    <3> QED
      BY <1>5, <2>2, <3>1 DEF Fits
  <2> QED
    BY <2>1, <2>2
<1>12. ASSUME NEW o \in Engines PROVE FreshOrStale(eng[o])'
  <2> SUFFICES ASSUME NEW m \in Markets, NEW s \in Strategies,
                      Intends(eng[o], m, s)', m \notin eng'[o].stale
               PROVE  Undecided(m, s)'
    BY DEF FreshOrStale
  <2>1. o # e
    BY <1>4, <1>9, NoWriteFacts DEF Intends, Deciding, DecidesFor
  <2>2. Intends(eng[o], m, s) /\ m \notin eng[o].stale /\ m \notin marks(o)
    BY <1>5, <2>1 DEF Intends, Deciding, DecidesFor
  <2>3. Undecided(m, s)
    BY <2>2 DEF CInv, FreshOrStale
  <2>4. Unseen(o, m)
    <3>1. eng[o].tx[m] \in Write
      BY <1>1 DEF EngineRow
    <3> QED
      BY <2>2, <3>1, DecidesWrites DEF Intends, Unseen
  <2>5. tx[m] = NoWrite
    BY <2>2, <2>4
  <2>6. ~DecidesFor(tx[m], s)
    BY <2>5, NoWriteFacts
  <2> QED
    BY <2>3, <2>6, CommitKeepsUndecided
<1>13. HoldsKey'
  <2> SUFFICES ASSUME NEW o \in Engines, NEW p \in Engines, NEW m \in Markets,
                      eng'[o].tx[m].resv # "none"
               PROVE  resv'[m] = "none" /\ (p # o => eng'[p].tx[m].resv = "none")
    BY DEF HoldsKey
  <2>1. o # e
    BY <1>4, <1>9, NoWriteFacts
  <2>2. eng[o].tx[m].resv # "none"
    BY <1>5, <2>1
  <2>3. /\ resv[m] = "none" /\ tx[m].resv = "none"
        /\ p # o => eng[p].tx[m].resv = "none"
    BY <2>1, <2>2 DEF CInv, HoldsKey
  <2>4. p # o => eng'[p].tx[m].resv = "none"
    BY <1>4, <1>5, <1>9, <2>3, NoWriteFacts
  <2> QED
    BY <1>7, <2>3, <2>4
<1>14. ASSUME NEW m \in Markets, NEW s \in Strategies, DecidesFor(tx[m], s)
       PROVE  Undecided(m, s) \/ raced'[m]
  <2>1. m \in written
    BY <1>2, <1>14, DecidesWrites
  <2>2. m \notin eng[e].stale => Undecided(m, s)
    BY <1>14 DEF CInv, FreshOrStale, Intends
  <2> QED
    BY <1>3, <2>1, <2>2
<1>15. \A m \in Markets : raced[m] => raced'[m]
  BY <1>3
<1>16. CtEntersOnce'
  <2> SUFFICES ASSUME NEW m \in Markets
               PROVE  entries'[m]["ct"] = (IF resv'[m] = "BUY" THEN 1 ELSE 0)
    BY DEF CtEntersOnce
  <2>1. entries[m]["ct"] = (IF resv[m] = "BUY" THEN 1 ELSE 0)
    BY DEF CInv, CtEntersOnce
  <2>2. entries'[m]["ct"] = entries[m]["ct"] + (IF tx[m].entry = "ct" THEN 1 ELSE 0)
    BY <1>2, CommitCounts
  <2>3. tx[m].entry = "ct" <=> tx[m].resv = "BUY"
    BY DEF CInv, Fits
  <2>4. tx[m].resv # "none" => resv[m] = "none"
    BY DEF CInv, HoldsKey
  <2> HIDE DEF tx
  <2> QED
    BY <1>7, <2>1, <2>2, <2>3, <2>4
<1>17. EntersOnceUnlessRaced'
  <2> SUFFICES ASSUME NEW m \in Markets
               PROVE  entries'[m]["combined"] <= 1 \/ raced'[m]
    BY DEF EntersOnceUnlessRaced
  <2>1. entries[m]["combined"] <= 1 \/ raced[m]
    BY DEF CInv, EntersOnceUnlessRaced
  <2>2. entries'[m]["combined"] =
          entries[m]["combined"] + (IF tx[m].entry = "combined" THEN 1 ELSE 0)
    BY <1>2, CommitCounts
  <2>3. entries[m]["combined"] \in Nat
    BY DEF CInv, Typed, TypeOK, Strategies
  <2>4. CASE tx[m].entry = "combined"
    <3>1. DecidesFor(tx[m], "combined") /\ "combined" \in Strategies
      BY <2>4 DEF DecidesFor, Strategies
    <3>2. entries[m]["combined"] = 0 \/ raced'[m]
      BY <1>14, <3>1 DEF Undecided
    <3> QED
      BY <2>2, <2>4, <3>2
  <2>5. CASE tx[m].entry # "combined"
    BY <1>15, <2>1, <2>2, <2>3, <2>5
  <2> QED
    BY <2>4, <2>5
<1>18. CtDecidedOnceUnlessRaced'
  <2> SUFFICES ASSUME NEW m \in Markets
               PROVE  CtDecisions(m)' <= 1 \/ raced'[m]
    BY DEF CtDecidedOnceUnlessRaced
  <2>1. CtDecisions(m) <= 1 \/ raced[m]
    BY DEF CInv, CtDecidedOnceUnlessRaced
  <2>2. /\ CtDecisions(m) \in Nat /\ CtDecisions(m)' \in Nat
        /\ CtDecisions(m)' <= CtDecisions(m) + (IF DecidesFor(tx[m], "ct") THEN 1 ELSE 0)
    BY <1>2, CommitCounts
  <2>3. CASE DecidesFor(tx[m], "ct")
    <3>1. CtDecisions(m) = 0 \/ raced'[m]
      BY <1>14, <2>3 DEF Undecided, Strategies
    <3> QED
      BY <2>2, <2>3, <3>1
  <2>4. CASE ~DecidesFor(tx[m], "ct")
    BY <1>15, <2>1, <2>2, <2>4
  <2> QED
    BY <2>3, <2>4
<1> QED
  BY <1>8, <1>10, <1>11, <1>12, <1>13, <1>16, <1>17, <1>18 DEF CInv

-----------------------------------------------------------------------------
(* The steps around the engines, and the theorems.                          *)

\* The execution worker, the clock and the operator write no decision.
LEMMA AroundInv ==
    ASSUME CInv, UNCHANGED <<rows, inserted, entries, resv, raced, eng>>, TypeOK'
    PROVE  CInv'
<1>1. Typed'
  BY DEF CInv, Typed
<1>2. \A m \in Markets, s \in Strategies : Undecided(m, s)' <=> Undecided(m, s)
  BY DEF Undecided, CtDecisions
<1>3. ASSUME NEW o \in Engines PROVE WalkOK(eng[o])' /\ FreshOrStale(eng[o])'
  <2>1. WalkOK(eng[o]) /\ FreshOrStale(eng[o])
    BY DEF CInv
  <2>2. WalkOK(eng[o])'
    BY <2>1 DEF WalkOK, Deciding
  <2>3. FreshOrStale(eng[o])'
    BY <1>2, <2>1 DEF FreshOrStale, Intends, Deciding, DecidesFor
  <2> QED
    BY <2>2, <2>3
<1>4. \A o \in Engines, m \in Markets : Fits(eng[o].tx[m])'
  BY DEF CInv, Fits
<1>5. HoldsKey' /\ CtEntersOnce' /\ EntersOnceUnlessRaced' /\ CtDecidedOnceUnlessRaced'
  BY DEF CInv, HoldsKey, CtEntersOnce, EntersOnceUnlessRaced, CtDecidedOnceUnlessRaced, CtDecisions
<1> QED
  BY <1>1, <1>3, <1>4, <1>5 DEF CInv

\* The tables as the migrations leave them.
LEMMA CInvInit == Init => CInv
<1> SUFFICES ASSUME Init PROVE CInv
  OBVIOUS
<1>1. /\ rows = [m \in Markets |-> {}] /\ inserted = [m \in Markets |-> 0]
      /\ entries = [m \in Markets |-> [s \in Strategies |-> 0]]
      /\ resv = [m \in Markets |-> "none"] /\ raced = [m \in Markets |-> FALSE]
      /\ eng = [e \in Engines |-> Idle]
  BY DEF Init
<1>2. eng \in [Engines -> EngineRow] /\ \A e \in Engines : eng[e] = Idle
  BY <1>1, IdleTyped
<1>3. Idle.at = "idle" /\ Idle.tx = [m \in Markets |-> NoWrite]
  BY DEF Idle
<1>4. \A m \in Markets : IsFiniteSet(rows[m]) /\ Cardinality({r \in rows[m] : r.ct}) = 0
  <2> SUFFICES ASSUME NEW m \in Markets
               PROVE  IsFiniteSet(rows[m]) /\ Cardinality({r \in rows[m] : r.ct}) = 0
    OBVIOUS
  <2>1. rows[m] = {} /\ {r \in rows[m] : r.ct} = {}
    BY <1>1
  <2> QED
    BY <2>1, FS_EmptySet
<1>5. TypeOK
  <2>1. \A o \in Engines :
         /\ eng[o].at \in {"idle", "market", "decide", "buy", "skip", "commit"}
         /\ eng[o].cur \in Markets \cup {NoMarket} /\ eng[o].old \in Row \cup {NoRow}
         /\ eng[o].tx \in [Markets -> Write] /\ eng[o].stale \subseteq Markets
    BY <1>2 DEF EngineRow
  <2>2. inserted \in [Markets -> 0..MaxRows] /\ switches \in 0..MaxSwitches
    BY CycleAssumption DEF Init
  <2>3. entries \in [Markets -> [Strategies -> Nat]] /\ rows \in [Markets -> SUBSET Row]
    BY <1>1
  <2>4. \A m \in Markets : \A r \in rows[m] : r.id <= inserted[m]
    BY <1>1
  <2>5. /\ open \in [Markets -> BOOLEAN] /\ raced \in [Markets -> BOOLEAN]
        /\ phase \in [Markets -> {"early", "window", "over"}]
        /\ mode \in [Markets -> Strategies] /\ resv \in [Markets -> {"none", "BUY", "SKIP"}]
    BY DEF Init
  <2> QED
    BY <2>1, <2>2, <2>3, <2>4, <2>5 DEF TypeOK
<1>6. Typed
  BY <1>2, <1>4, <1>5 DEF Typed
<1>7. WalkOK(Idle) /\ FreshOrStale(Idle) /\ \A m \in Markets : Fits(Idle.tx[m])
  BY <1>3, IdleTyped, NoWriteFacts DEF WalkOK, FreshOrStale, Intends, Deciding
<1>8. HoldsKey
  BY <1>2, <1>3, NoWriteFacts DEF HoldsKey
<1>9. \A m \in Markets : entries[m]["ct"] = 0 /\ entries[m]["combined"] = 0 /\ resv[m] = "none"
  BY <1>1 DEF Strategies
<1>10. CtEntersOnce /\ EntersOnceUnlessRaced
  BY <1>9 DEF CtEntersOnce, EntersOnceUnlessRaced
<1>11. CtDecidedOnceUnlessRaced
  BY <1>4, <1>9 DEF CtDecidedOnceUnlessRaced, CtDecisions
<1> QED
  BY <1>2, <1>6, <1>7, <1>8, <1>10, <1>11 DEF CInv

\* Every step keeps the invariant.
LEMMA CInvNext == CInv /\ [Next]_vars => CInv'
<1> SUFFICES ASSUME CInv, [Next]_vars PROVE CInv'
  OBVIOUS
<1>1. ASSUME NEW e \in Engines, Cycle(e) PROVE CInv'
  BY <1>1, CycleBeginsInv, GuardInv, DecideSkipsInv, DecideActsInv, ValidationRefusesInv,
     CtReservesSkipInv, ExecuteInv, ExecuteRejectsInv, ToCommitInv, CommitInv DEF Cycle
<1>2. ASSUME NEW e \in Engines, Lost(e) PROVE CInv'
  BY <1>2, LostInv
<1>3. ASSUME NEW m \in Markets, RequestEnds(m) PROVE CInv'
  <2>1. open' \in [Markets -> BOOLEAN]
    BY <1>3 DEF RequestEnds, CInv, Typed, TypeOK
  <2>2. TypeOK'
    BY <1>3, <2>1 DEF RequestEnds, CInv, Typed, TypeOK
  <2> QED
    BY <1>3, <2>2, AroundInv DEF RequestEnds
<1>4. ASSUME NEW m \in Markets, TimePasses(m) PROVE CInv'
  <2>1. phase' \in [Markets -> {"early", "window", "over"}]
    BY <1>4 DEF TimePasses, CInv, Typed, TypeOK
  <2>2. TypeOK'
    BY <1>4, <2>1 DEF TimePasses, dbVars, CInv, Typed, TypeOK
  <2> QED
    BY <1>4, <2>2, AroundInv DEF TimePasses, dbVars
<1>5. ASSUME NEW m \in Markets, OperatorSwitches(m) PROVE CInv'
  <2>1. mode' \in [Markets -> Strategies]
    BY <1>5 DEF OperatorSwitches, Strategies, CInv, Typed, TypeOK
  <2>2. switches' \in 0..MaxSwitches
    BY <1>5, CycleAssumption DEF OperatorSwitches, CInv, Typed, TypeOK
  <2>3. TypeOK'
    BY <1>5, <2>1, <2>2 DEF OperatorSwitches, dbVars, CInv, Typed, TypeOK
  <2> QED
    BY <1>5, <2>3, AroundInv DEF OperatorSwitches, dbVars
<1>6. CASE UNCHANGED vars
  <2>1. TypeOK'
    BY <1>6 DEF vars, dbVars, CInv, Typed, TypeOK
  <2> QED
    BY <1>6, <2>1, AroundInv DEF vars, dbVars
<1> QED
  BY <1>1, <1>2, <1>3, <1>4, <1>5, <1>6 DEF Next

\* The inductive invariant holds of every reachable state.
LEMMA CInvHolds == Spec => []CInv
BY CInvInit, CInvNext, PTL DEF Spec

\* The CT reservation: however many engines run, a market has at most one CT
\* trade, and exactly one when its reservation says BUY.
THEOREM CtTradesAreReserved == Spec => []CtEntersOnce
BY CInvHolds, PTL DEF CInv

\* The combined strategy enters a market once, also across failed entries, lost
\* cycles and changed settings, unless two cycles overlapped on the market.
THEOREM CombinedEntersOnce == Spec => []EntersOnceUnlessRaced
BY CInvHolds, PTL DEF CInv

\* A CT skip row is the market's decision: CT skip rows and CT trades exclude
\* each other unless two cycles overlapped on the market.
THEOREM CtDecidesOnce == Spec => []CtDecidedOnceUnlessRaced
BY CInvHolds, PTL DEF CInv
=============================================================================
