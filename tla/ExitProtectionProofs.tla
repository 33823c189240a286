------------------------ MODULE ExitProtectionProofs ------------------------
(***************************************************************************)
(* Theorems about ExitProtection for any number of positions of any size,  *)
(* watched by both jobs, with any number of CLOSEs by the operator.        *)
(***************************************************************************)
EXTENDS ExitProtection, TLAPS

Phases == {"far", "near", "past", "resolved"}
Positions == {"OPEN", "PARTIALLY_CLOSED", "EXIT_REQUESTED", "CLOSED", "RESOLVED"}
CloseStates == LiveStates \cup FAILURE_TERMINAL_STATES
                 \cup {"none", "FILLED", "PARTIALLY_FILLED_FINAL"}
Closes == [st : CloseStates, shares : 0..Size, trig : Jobs \cup {"none", "MANUAL"},
           until : Trades \cup {NoTrade}, accounted : BOOLEAN, blind : BOOLEAN]
LoadedRow == [rem : 0..Size, version : Nat, phase : Phases, pending : BOOLEAN]
Tables == UNION {[D -> LoadedRow] : D \in SUBSET Trades}
JobRow == [at : {"idle", "next", "enqueue"}, rows : Tables,
           cur : Trades \cup {NoTrade}, end : Trades \cup {NoTrade}]

\* The rows and the jobs have their types.
Typed ==
    /\ watch \in [Trades -> [sl : BOOLEAN, tp : BOOLEAN]]
    /\ phase \in [Trades -> Phases] /\ pos \in [Trades -> Positions]
    /\ rem \in [Trades -> 0..Size] /\ sold \in [Trades -> 0..Size]
    /\ sl \in [Trades -> {"none", "ACTIVE", "QUEUED", "EXPIRED", "TRIGGERED"}]
    /\ tp \in [Trades -> {"SKIPPED", "ACTIVE", "QUEUED", "EXPIRED", "TRIGGERED"}]
    /\ version \in [Trades -> Nat]
    /\ close \in [Trades -> Closes]
    /\ job \in [Jobs -> JobRow]

\* Until the market is resolved, the row and the fills agree, and a closed
\* position holds nothing.
Accounts(t) ==
    phase[t] # "resolved" => rem[t] = Size - sold[t] /\ (pos[t] \in Final => rem[t] = 0)

\* AsksForWhatIsHeld of one position.
Asks(t) == Live(t) /\ phase[t] # "resolved" /\ ~close[t].blind => close[t].shares = rem[t]

\* Accounting is rebuilt when a CLOSE ends.
Unaccounted(t) == Live(t) => ~close[t].accounted

\* QueuedMeansExiting of one position.
Exiting(t) ==
    (sl[t] = "QUEUED" \/ tp[t] = "QUEUED") /\ pos[t] \in {"OPEN", "PARTIALLY_CLOSED"}
      => close[t].st # "none" /\ ~close[t].accounted

\* Only a protection that was switched on is armed or queued.
Watched(t) ==
    /\ sl[t] \in {"ACTIVE", "QUEUED"} => watch[t].sl
    /\ tp[t] \in {"ACTIVE", "QUEUED"} => watch[t].tp

TradeFits(t) == Accounts(t) /\ Asks(t) /\ Unaccounted(t) /\ Exiting(t) /\ Watched(t)

On(j, t) == IF j = "STOP_LOSS" THEN watch[t].sl ELSE watch[t].tp

\* A loaded row may be stale, but while its version is the current one, and no
\* CLOSE was pending when it was loaded, there is still none and nothing was sold.
RowFits(j, t) ==
    /\ job[j].rows[t].version <= version[t] /\ On(j, t)
    /\ ~job[j].rows[t].pending /\ job[j].rows[t].version = version[t]
         => ~Live(t) /\ (phase[t] # "resolved" => job[j].rows[t].rem = rem[t])

JobFits(j) ==
    /\ job[j].at = "enqueue" => job[j].cur \in Loaded(j)
    /\ \A t \in Loaded(j) : RowFits(j, t)

PInv ==
    /\ Typed
    /\ \A t \in Trades : TradeFits(t)
    /\ \A j \in Jobs : JobFits(j)

-----------------------------------------------------------------------------
(* What a step does to a position and to the jobs                          *)

\* Every job keeps some of the rows it loaded, or gives up.
JobsDrop ==
    /\ job' \in [Jobs -> JobRow]
    /\ \A j \in Jobs :
         /\ DOMAIN job'[j].rows \subseteq Loaded(j)
         /\ \A t \in DOMAIN job'[j].rows : job'[j].rows[t] = job[j].rows[t]
         /\ job'[j].at = "enqueue" => job'[j].cur \in DOMAIN job'[j].rows

\* The other positions stay as they are.
OnlyTrade(t) ==
    \A u \in Trades \ {t} :
      /\ phase'[u] = phase[u] /\ pos'[u] = pos[u] /\ rem'[u] = rem[u] /\ sold'[u] = sold[u]
      /\ sl'[u] = sl[u] /\ tp'[u] = tp[u] /\ version'[u] = version[u] /\ close'[u] = close[u]

\* A position sells something, or begins to, only under a new version or while
\* a CLOSE is live.
NotBehind(t) ==
    /\ version'[t] >= version[t]
    /\ version'[t] = version[t] /\ ~Live(t) =>
         /\ ~Live(t)'
         /\ phase'[t] # "resolved" => phase[t] # "resolved" /\ rem'[t] = rem[t]

\* A step of one position keeps the invariant when the position is right after it.
LEMMA TradeMoves ==
  ASSUME PInv, NEW t \in Trades, Typed', watch' = watch, OnlyTrade(t), JobsDrop,
         TradeFits(t)', NotBehind(t)
  PROVE  PInv'
<1>1. ASSUME NEW u \in Trades PROVE TradeFits(u)'
  <2>1. CASE u = t
    BY <2>1
  <2>2. CASE u # t
    <3>1. TradeFits(u)
      BY DEF PInv
    <3>2. /\ phase'[u] = phase[u] /\ pos'[u] = pos[u] /\ rem'[u] = rem[u] /\ sold'[u] = sold[u]
          /\ sl'[u] = sl[u] /\ tp'[u] = tp[u] /\ close'[u] = close[u]
      BY <2>2 DEF OnlyTrade
    <3> QED
      BY <3>1, <3>2 DEF TradeFits, Accounts, Asks, Unaccounted, Exiting, Watched, Live
  <2> QED
    BY <2>1, <2>2
<1>2. ASSUME NEW j \in Jobs PROVE JobFits(j)'
  <2>1. job'[j].at = "enqueue" => job'[j].cur \in DOMAIN job'[j].rows
    BY DEF JobsDrop
  <2>2. ASSUME NEW u \in DOMAIN job'[j].rows PROVE RowFits(j, u)'
    <3>1. u \in Loaded(j) /\ job'[j].rows[u] = job[j].rows[u]
      BY DEF JobsDrop
    <3>2. RowFits(j, u)
      BY <3>1 DEF PInv, JobFits
    <3>3. u \in Trades /\ job[j].rows[u].version \in Nat
      <4>1. job[j].rows \in Tables
        BY DEF PInv, Typed, JobRow
      <4> QED
        BY <3>1, <4>1 DEF Tables, Loaded, LoadedRow
    <3>4. version[u] \in Nat /\ version'[u] \in Nat
      BY <3>3 DEF PInv, Typed
    <3>5. CASE u = t
      <4>1. job[j].rows[u].version <= version'[u]
        BY <3>2, <3>3, <3>4, <3>5 DEF RowFits, NotBehind
      <4>2. job[j].rows[u].version = version'[u] => version'[u] = version[u]
        BY <3>2, <3>3, <3>4, <3>5 DEF RowFits, NotBehind
      <4> QED
        BY <3>1, <3>2, <3>5, <4>1, <4>2 DEF RowFits, NotBehind, On
    <3>6. CASE u # t
      <4>1. phase'[u] = phase[u] /\ rem'[u] = rem[u] /\ version'[u] = version[u] /\ close'[u] = close[u]
        BY <3>3, <3>6 DEF OnlyTrade
      <4> QED
        BY <3>1, <3>2, <4>1 DEF RowFits, On, Live
    <3> QED
      BY <3>5, <3>6
  <2> QED
    BY <2>1, <2>2 DEF JobFits, Loaded
<1> QED
  BY <1>1, <1>2 DEF PInv

\* A job that is not in a cycle has loaded nothing.
LEMMA IdleFacts == Idle \in JobRow /\ DOMAIN Idle.rows = {} /\ Idle.at = "idle"
<1>1. <<>> \in [{} -> LoadedRow] /\ DOMAIN <<>> = {}
  OBVIOUS
<1>2. <<>> \in Tables
  BY <1>1 DEF Tables
<1> QED
  BY <1>1, <1>2 DEF Idle, JobRow

\* What the jobs hold is typed.
LEMMA LoadedFacts ==
  ASSUME PInv, NEW j \in Jobs
  PROVE  /\ job \in [Jobs -> JobRow] /\ job[j] \in JobRow /\ Loaded(j) \subseteq Trades
         /\ job[j].rows \in [Loaded(j) -> LoadedRow]
         /\ \A t \in Loaded(j) : RowFits(j, t)
<1>1. job \in [Jobs -> JobRow] /\ job[j] \in JobRow
  BY DEF PInv, Typed
<1>2. job[j].rows \in Tables
  BY <1>1 DEF JobRow
<1> QED
  BY <1>1, <1>2 DEF Tables, Loaded, PInv, JobFits

\* A step that leaves the jobs alone.
LEMMA JobsSame ==
  ASSUME PInv, job' = job
  PROVE  JobsDrop
BY DEF PInv, Typed, JobFits, JobsDrop, Loaded

\* One job's new row decides.
LEMMA OneJob ==
  ASSUME PInv, NEW j \in Jobs, NEW row \in JobRow, job' = [job EXCEPT ![j] = row],
         DOMAIN row.rows \subseteq Loaded(j),
         \A t \in DOMAIN row.rows : row.rows[t] = job[j].rows[t],
         row.at = "enqueue" => row.cur \in DOMAIN row.rows
  PROVE  JobsDrop
<1>1. job \in [Jobs -> JobRow] /\ \A i \in Jobs : JobFits(i)
  BY DEF PInv, Typed
<1>2. job' \in [Jobs -> JobRow] /\ job'[j] = row /\ \A i \in Jobs \ {j} : job'[i] = job[i]
  BY <1>1
<1> QED
  BY <1>1, <1>2 DEF JobsDrop, JobFits, Loaded

\* A broken cycle drops every row.
LEMMA BreaksDrops ==
  ASSUME PInv, NEW j \in Jobs, Breaks(j)
  PROVE  JobsDrop
<1>1. PICK row \in JobRow : row = Idle
  BY IdleFacts
<1>2. DOMAIN row.rows = {} /\ row.at = "idle" /\ job' = [job EXCEPT ![j] = row]
  BY <1>1, IdleFacts DEF Breaks
<1> QED
  BY <1>2, OneJob

\* A job that is through with a row drops it.
LEMMA DoneDrops ==
  ASSUME PInv, NEW j \in Jobs, NEW t \in Trades, NEW end \in Trades \cup {NoTrade}, Done(j, t, end)
  PROVE  JobsDrop
<1> DEFINE rest == Without(job[j].rows, t)
           row == [job[j] EXCEPT !.at = "next", !.rows = rest, !.cur = NoTrade, !.end = end]
<1>1. /\ job \in [Jobs -> JobRow] /\ job[j] \in JobRow /\ Loaded(j) \subseteq Trades
      /\ job[j].rows \in [Loaded(j) -> LoadedRow]
  BY LoadedFacts
<1>2. CASE job' = [job EXCEPT ![j] = Idle]
  BY <1>2, BreaksDrops DEF Breaks
<1>3. CASE job' = [job EXCEPT ![j] = row]
  <2>1. rest \in [Loaded(j) \ {t} -> LoadedRow] /\ \A u \in Loaded(j) \ {t} : rest[u] = job[j].rows[u]
    BY <1>1 DEF Without
  <2>2. rest \in Tables /\ DOMAIN rest = Loaded(j) \ {t}
    BY <1>1, <2>1 DEF Tables
  <2> HIDE DEF rest
  <2>3. row \in JobRow /\ row.rows = rest /\ row.at = "next"
    BY <1>1, <2>2 DEF JobRow
  <2>4. DOMAIN row.rows \subseteq Loaded(j) /\ \A u \in DOMAIN row.rows : row.rows[u] = job[j].rows[u]
    BY <2>1, <2>2, <2>3
  <2> HIDE DEF row
  <2> QED
    BY <1>3, <2>3, <2>4, OneJob
<1>4. CASE Loaded(j) = {t}
  BY <1>1, <1>2, <1>4 DEF Done
<1>5. CASE Loaded(j) # {t}
  <2>1. job' = [job EXCEPT ![j] = row]
    BY <1>1, <1>5 DEF Done
  <2> QED
    BY <1>3, <2>1
<1> QED
  BY <1>4, <1>5

\* The end a job keeps in its variable is the end of some trade, or none.
LEMMA EndTyped ==
  ASSUME PInv, NEW j \in Jobs, NEW t \in Trades
  PROVE  EndAfter(j, t) \in Trades \cup {NoTrade} /\ job[j].end \in Trades \cup {NoTrade}
<1>1. job[j].end \in Trades \cup {NoTrade}
  BY LoadedFacts DEF JobRow
<1> QED
  BY <1>1 DEF EndAfter

-----------------------------------------------------------------------------
(* Queueing a CLOSE                                                        *)

\* A CLOSE queued from a row with the current version asks for what is held,
\* unless a CLOSE was pending when the row was loaded.
LEMMA EnqueueKeeps ==
  ASSUME PInv, NEW t \in Trades, NEW row, NEW trig \in Jobs \cup {"MANUAL"},
         NEW until \in Trades \cup {NoTrade}, Enqueue(t, row, trig, until),
         row.rem \in 0..Size, row.pending \in BOOLEAN, row.version = version[t],
         ~row.pending /\ phase[t] # "resolved" => row.rem = rem[t],
         row.rem # 0, UNCHANGED <<watch, phase>>, JobsDrop,
         NEW x \in {sl[t], "QUEUED"}, sl' = [sl EXCEPT ![t] = x], x = "QUEUED" => x = sl[t] \/ watch[t].sl,
         NEW y \in {tp[t], "QUEUED"}, tp' = [tp EXCEPT ![t] = y], y = "QUEUED" => y = tp[t] \/ watch[t].tp
  PROVE  PInv'
<1>1. Typed /\ TradeFits(t)
  BY DEF PInv
<1>2. close[t] \in Closes
  BY <1>1 DEF Typed
<1> DEFINE c == Request(trig, row.rem, until, row.pending \/ close[t].blind)
<1>3. row.pending \/ close[t].blind \in BOOLEAN
  BY <1>2 DEF Closes
<1>4. /\ c \in Closes /\ c.st = "READY" /\ c.shares = row.rem /\ ~c.accounted
      /\ ~c.blind => ~row.pending
  BY <1>2, <1>3 DEF Request, Closes, CloseStates, LiveStates
<1>5. close' = [close EXCEPT ![t] = c]
  BY <1>1 DEF Enqueue, Typed
<1> HIDE DEF c
<1>6. close' \in [Trades -> Closes] /\ close'[t] = c /\ \A u \in Trades \ {t} : close'[u] = close[u]
  BY <1>1, <1>4, <1>5 DEF Typed
<1>7. /\ version' \in [Trades -> Nat] /\ version'[t] = version[t] + 1 /\ version[t] \in Nat
      /\ \A u \in Trades \ {t} : version'[u] = version[u]
  BY <1>1 DEF Enqueue, Typed
<1>8. /\ pos' \in [Trades -> Positions] /\ pos'[t] = "EXIT_REQUESTED"
      /\ \A u \in Trades \ {t} : pos'[u] = pos[u]
  BY <1>1 DEF Enqueue, Typed, Positions
<1>9. /\ sl' \in [Trades -> {"none", "ACTIVE", "QUEUED", "EXPIRED", "TRIGGERED"}]
      /\ tp' \in [Trades -> {"SKIPPED", "ACTIVE", "QUEUED", "EXPIRED", "TRIGGERED"}]
      /\ sl'[t] = x /\ tp'[t] = y
      /\ \A u \in Trades \ {t} : sl'[u] = sl[u] /\ tp'[u] = tp[u]
  BY <1>1 DEF Typed
<1>10. UNCHANGED <<rem, sold>>
  BY DEF Enqueue
<1>11. Typed'
  BY <1>1, <1>6, <1>7, <1>8, <1>9, <1>10 DEF Typed, JobsDrop
<1>12. OnlyTrade(t)
  BY <1>6, <1>7, <1>8, <1>9, <1>10 DEF OnlyTrade
<1>13. TradeFits(t)'
  <2>1. Accounts(t)' /\ Unaccounted(t)' /\ Exiting(t)'
    BY <1>1, <1>4, <1>6, <1>8, <1>10 DEF TradeFits, Accounts, Unaccounted, Exiting, Final
  <2>2. Asks(t)'
    BY <1>4, <1>6, <1>10 DEF Asks
  <2>3. Watched(t)'
    BY <1>1, <1>9 DEF TradeFits, Watched
  <2> QED
    BY <2>1, <2>2, <2>3 DEF TradeFits
<1>14. NotBehind(t)
  BY <1>7 DEF NotBehind
<1> QED
  BY <1>11, <1>12, <1>13, <1>14, TradeMoves

-----------------------------------------------------------------------------
(* How a CLOSE ends                                                        *)

\* A live CLOSE moves or ends: what has to hold of the position afterwards.
LEMMA CloseKeeps ==
  ASSUME PInv, NEW t \in Trades, Live(t), UNCHANGED <<watch, phase, version, job>>,
         Typed', OnlyTrade(t), Accounts(t)', Watched(t)',
         Live(t)' => /\ ~close'[t].accounted
                     /\ close'[t].shares = close[t].shares /\ close'[t].blind = close[t].blind
                     /\ phase[t] # "resolved" => rem'[t] = rem[t],
         Exiting(t)'
  PROVE  PInv'
<1>1. Asks(t)' /\ Unaccounted(t)'
  BY DEF PInv, TradeFits, Asks, Unaccounted
<1>2. TradeFits(t)'
  BY <1>1 DEF TradeFits
<1>3. version[t] \in Nat
  BY DEF PInv, Typed
<1>4. NotBehind(t)
  BY <1>3 DEF NotBehind
<1> QED
  BY <1>2, <1>4, JobsSame, TradeMoves

\* An ended CLOSE.
LEMMA EndsShape ==
  ASSUME Typed, NEW t \in Trades, NEW st \in CloseStates \ LiveStates, NEW acc \in BOOLEAN,
         Ends(t, st, acc)
  PROVE  /\ close' \in [Trades -> Closes] /\ \A u \in Trades \ {t} : close'[u] = close[u]
         /\ close'[t].st = st /\ close'[t].accounted = acc /\ ~Live(t)' /\ UNCHANGED version
<1>1. close \in [Trades -> Closes] /\ close[t] \in Closes
  BY DEF Typed
<1>2. NoClose \in Closes
  <2>0. 0 \in 0..Size /\ "READY" \in CloseStates
    BY ProtectionAssumption DEF ProtectionAssumption, CloseStates, LiveStates
  <2>1. Request("none", 0, NoTrade, FALSE) \in Closes
    BY <2>0 DEF Request, Closes
  <2> QED
    BY <2>1 DEF NoClose, Closes, CloseStates
<1>3. close[t].blind \in BOOLEAN
  BY <1>1 DEF Closes
<1>4. PICK c \in Closes : c = [NoClose EXCEPT !.st = st, !.accounted = acc, !.blind = close[t].blind]
  BY <1>2, <1>3 DEF Closes
<1>5. c.st = st /\ c.accounted = acc
  BY <1>2, <1>4 DEF Closes
<1>6. close' = [close EXCEPT ![t] = c] /\ UNCHANGED version
  BY <1>4 DEF Ends
<1> QED
  BY <1>1, <1>5, <1>6 DEF Live

\* A CLOSE that goes on keeps what it asks for.
LEMMA MovesShape ==
  ASSUME Typed, NEW t \in Trades, NEW st \in LiveStates, Moves(t, st)
  PROVE  /\ close' \in [Trades -> Closes] /\ \A u \in Trades \ {t} : close'[u] = close[u]
         /\ close'[t].st = st /\ close'[t].accounted = close[t].accounted
         /\ close'[t].shares = close[t].shares /\ close'[t].blind = close[t].blind
         /\ UNCHANGED version
<1>1. close \in [Trades -> Closes] /\ close[t] \in Closes
  BY DEF Typed
<1>2. PICK c \in Closes : c = [close[t] EXCEPT !.st = st]
  BY <1>1 DEF Closes, CloseStates
<1>3. c.st = st /\ c.accounted = close[t].accounted /\ c.shares = close[t].shares /\ c.blind = close[t].blind
  BY <1>1, <1>2 DEF Closes
<1>4. close' = [close EXCEPT ![t] = c] /\ UNCHANGED version
  BY <1>1, <1>2 DEF Moves
<1> QED
  BY <1>1, <1>3, <1>4

\* What rebuild_trade_accounting leaves of an armed or queued protection.
LEMMA RearmedFacts ==
  ASSUME NEW s, NEW on \in BOOLEAN, NEW failed, s \in {"ACTIVE", "QUEUED"} => on
  PROVE  /\ Rearmed(s, on, failed) # "QUEUED" /\ Rearmed(s, on, failed) \in {s, "ACTIVE"}
         /\ Rearmed(s, on, failed) = "ACTIVE" => on
BY DEF Rearmed

\* rebuild_trade_accounting: the row follows the fills, and no protection of a
\* position that still holds shares stays queued.
LEMMA RebuildShape ==
  ASSUME Typed, NEW t \in Trades, Watched(t), NEW n \in 0..Size, n <= Size - sold[t],
         NEW p \in Positions, NEW st, Rebuild(t, n, p, st), watch' = watch
  PROVE  /\ pos' \in [Trades -> Positions] /\ rem' \in [Trades -> 0..Size]
         /\ sold' \in [Trades -> 0..Size]
         /\ sl' \in [Trades -> {"none", "ACTIVE", "QUEUED", "EXPIRED", "TRIGGERED"}]
         /\ tp' \in [Trades -> {"SKIPPED", "ACTIVE", "QUEUED", "EXPIRED", "TRIGGERED"}]
         /\ \A u \in Trades \ {t} : /\ pos'[u] = pos[u] /\ rem'[u] = rem[u] /\ sold'[u] = sold[u]
                                    /\ sl'[u] = sl[u] /\ tp'[u] = tp[u]
         /\ sold'[t] = sold[t] + n /\ Watched(t)'
         /\ p \in Final => pos'[t] = p /\ rem'[t] = rem[t]
         /\ p \notin Final => rem'[t] = Size - sold'[t] /\ (pos'[t] \in Final => rem'[t] = 0)
         /\ pos'[t] \notin Final => sl'[t] # "QUEUED" /\ tp'[t] # "QUEUED"
<1> DEFINE SL == {"none", "ACTIVE", "QUEUED", "EXPIRED", "TRIGGERED"}
           TP == {"SKIPPED", "ACTIVE", "QUEUED", "EXPIRED", "TRIGGERED"}
<1>0. Size \in Nat
  BY ProtectionAssumption DEF ProtectionAssumption
<1>1. /\ pos \in [Trades -> Positions] /\ rem \in [Trades -> 0..Size] /\ sold \in [Trades -> 0..Size]
      /\ sl \in [Trades -> SL] /\ tp \in [Trades -> TP] /\ sold[t] \in 0..Size
      /\ sl[t] \in SL /\ tp[t] \in TP /\ watch[t].sl \in BOOLEAN /\ watch[t].tp \in BOOLEAN
  BY DEF Typed
<1>2. PICK s \in 0..Size : s = sold[t] + n
  BY <1>0, <1>1
<1>3. PICK left \in 0..Size : left = Size - sold[t] - n
  BY <1>0, <1>1
<1>4. left = Size - s
  BY <1>0, <1>1, <1>2, <1>3
<1>5. sold' = [sold EXCEPT ![t] = s]
  BY <1>1, <1>2 DEF Rebuild
<1>6. sold' \in [Trades -> 0..Size] /\ sold'[t] = s /\ \A u \in Trades \ {t} : sold'[u] = sold[u]
  BY <1>1, <1>5
<1>7. CASE p \in Final
  <2>1. pos' = [pos EXCEPT ![t] = p] /\ UNCHANGED <<rem, sl, tp>>
    BY <1>7 DEF Rebuild
  <2>2. Watched(t)'
    BY <2>1 DEF Watched
  <2> QED
    BY <1>1, <1>2, <1>6, <1>7, <2>1, <2>2
<1>8. CASE p \notin Final
  <2>1. /\ rem' = [rem EXCEPT ![t] = left]
        /\ pos' = [pos EXCEPT ![t] = IF left = 0 THEN "CLOSED"
                                     ELSE IF left < Size THEN "PARTIALLY_CLOSED" ELSE "OPEN"]
    BY <1>3, <1>8 DEF Rebuild
  <2>2. /\ rem' \in [Trades -> 0..Size] /\ rem'[t] = left
        /\ \A u \in Trades \ {t} : rem'[u] = rem[u]
    BY <1>1, <2>1
  <2>3. /\ pos' \in [Trades -> Positions] /\ (pos'[t] \in Final <=> left = 0)
        /\ \A u \in Trades \ {t} : pos'[u] = pos[u]
    BY <1>1, <2>1 DEF Positions, Final
  <2>4. CASE left = 0
    <3>1. PICK x \in SL, y \in TP :
            /\ sl' = [sl EXCEPT ![t] = x] /\ tp' = [tp EXCEPT ![t] = y]
            /\ x \in {sl[t], "TRIGGERED"} /\ y \in {tp[t], "TRIGGERED"}
      BY <1>1, <1>3, <1>8, <2>4 DEF Rebuild
    <3>2. /\ sl' \in [Trades -> SL] /\ sl'[t] = x /\ \A u \in Trades \ {t} : sl'[u] = sl[u]
          /\ tp' \in [Trades -> TP] /\ tp'[t] = y /\ \A u \in Trades \ {t} : tp'[u] = tp[u]
      BY <1>1, <3>1
    <3>3. Watched(t)'
      BY <3>1, <3>2 DEF Watched
    <3>4. pos'[t] \in Final
      BY <2>1, <2>4, <1>1 DEF Final
    <3> QED
      BY <1>2, <1>4, <1>6, <1>8, <2>2, <2>3, <3>2, <3>3, <3>4
  <2>5. CASE left # 0
    <3> DEFINE x == Rearmed(sl[t], watch[t].sl, AllFailed(t, st))
               y == Rearmed(tp[t], watch[t].tp, AllFailed(t, st))
    <3>1. sl' = [sl EXCEPT ![t] = x] /\ tp' = [tp EXCEPT ![t] = y]
      BY <1>1, <1>3, <1>8, <2>5 DEF Rebuild
    <3>2. x # "QUEUED" /\ x \in {sl[t], "ACTIVE"} /\ (x = "ACTIVE" => watch[t].sl)
      BY <1>1, RearmedFacts DEF Watched
    <3>3. y # "QUEUED" /\ y \in {tp[t], "ACTIVE"} /\ (y = "ACTIVE" => watch[t].tp)
      BY <1>1, RearmedFacts DEF Watched
    <3> HIDE DEF x, y
    <3>4. /\ sl' \in [Trades -> SL] /\ sl'[t] = x /\ \A u \in Trades \ {t} : sl'[u] = sl[u]
          /\ tp' \in [Trades -> TP] /\ tp'[t] = y /\ \A u \in Trades \ {t} : tp'[u] = tp[u]
      BY <1>1, <3>1, <3>2, <3>3
    <3>5. Watched(t)'
      BY <3>2, <3>3, <3>4 DEF Watched
    <3> QED
      BY <1>2, <1>4, <1>6, <1>8, <2>2, <2>3, <3>2, <3>3, <3>4, <3>5
  <2> QED
    BY <2>4, <2>5
<1> QED
  BY <1>7, <1>8

\* The ends and the turns of a CLOSE, one by one.
LEMMA CloseStepKeeps ==
  ASSUME PInv, NEW t \in Trades, CloseStep(t)
  PROVE  PInv'
<1>0. Size \in Nat
  BY ProtectionAssumption DEF ProtectionAssumption
<1>1. /\ Typed /\ TradeFits(t) /\ Accounts(t) /\ Unaccounted(t) /\ Watched(t)
      /\ pos[t] \in Positions /\ rem[t] \in 0..Size /\ sold[t] \in 0..Size
  BY DEF PInv, TradeFits, Typed
<1>2. RolledBack(t) \in {"OPEN", "PARTIALLY_CLOSED"}
  BY DEF RolledBack
<1>3. ASSUME NEW st \in FAILURE_TERMINAL_STATES, EndsUnaccounted(t, st) PROVE PInv'
  <2>1. /\ Live(t) /\ Ends(t, st, FALSE) /\ pos' = [pos EXCEPT ![t] = RolledBack(t)]
        /\ UNCHANGED <<watch, phase, rem, sold, sl, tp, job>>
    BY <1>3 DEF EndsUnaccounted, IsAt, Live, LiveStates, fixedVars
  <2>2. st \in CloseStates \ LiveStates /\ st # "none"
    BY DEF FAILURE_TERMINAL_STATES, CloseStates, LiveStates
  <2>3. /\ close' \in [Trades -> Closes] /\ \A u \in Trades \ {t} : close'[u] = close[u]
        /\ close'[t].st = st /\ ~close'[t].accounted /\ ~Live(t)' /\ UNCHANGED version
    BY <1>1, <2>1, <2>2, EndsShape
  <2>4. /\ pos' \in [Trades -> Positions] /\ pos'[t] \notin Final
        /\ \A u \in Trades \ {t} : pos'[u] = pos[u]
    BY <1>1, <1>2, <2>1 DEF Typed, Positions, Final
  <2>5. Typed' /\ OnlyTrade(t)
    BY <1>1, <2>1, <2>3, <2>4 DEF Typed, OnlyTrade
  <2>6. Accounts(t)' /\ Watched(t)' /\ Exiting(t)'
    BY <1>1, <2>1, <2>2, <2>3, <2>4 DEF Accounts, Watched, Exiting
  <2> QED
    BY <2>1, <2>3, <2>5, <2>6, CloseKeeps
<1>4. CASE EndsRejected(t)
  <2>1. /\ Live(t) /\ Ends(t, "REJECTED", TRUE) /\ Rebuild(t, 0, RolledBack(t), "REJECTED")
        /\ UNCHANGED <<watch, phase, job>>
    BY <1>4 DEF EndsRejected, IsAt, Live, LiveStates, fixedVars
  <2>2. /\ close' \in [Trades -> Closes] /\ \A u \in Trades \ {t} : close'[u] = close[u]
        /\ ~Live(t)' /\ UNCHANGED version
    BY <1>1, <2>1, EndsShape DEF CloseStates, LiveStates, FAILURE_TERMINAL_STATES
  <2>3. RolledBack(t) \in Positions /\ RolledBack(t) \notin Final /\ 0 \in 0..Size /\ 0 <= Size - sold[t]
    BY <1>0, <1>1, <1>2 DEF Positions, Final
  <2>4. /\ pos' \in [Trades -> Positions] /\ rem' \in [Trades -> 0..Size]
        /\ sold' \in [Trades -> 0..Size]
        /\ sl' \in [Trades -> {"none", "ACTIVE", "QUEUED", "EXPIRED", "TRIGGERED"}]
        /\ tp' \in [Trades -> {"SKIPPED", "ACTIVE", "QUEUED", "EXPIRED", "TRIGGERED"}]
        /\ \A u \in Trades \ {t} : /\ pos'[u] = pos[u] /\ rem'[u] = rem[u] /\ sold'[u] = sold[u]
                                   /\ sl'[u] = sl[u] /\ tp'[u] = tp[u]
        /\ Watched(t)'
        /\ rem'[t] = Size - sold'[t] /\ (pos'[t] \in Final => rem'[t] = 0)
        /\ pos'[t] \notin Final => sl'[t] # "QUEUED" /\ tp'[t] # "QUEUED"
    BY <1>1, <2>1, <2>3, RebuildShape
  <2>5. Typed' /\ OnlyTrade(t)
    BY <1>1, <2>1, <2>2, <2>4 DEF Typed, OnlyTrade
  <2>6. Accounts(t)' /\ Exiting(t)'
    BY <2>4 DEF Accounts, Exiting, Final
  <2> QED
    BY <2>1, <2>2, <2>4, <2>5, <2>6, CloseKeeps
<1>5. ASSUME NEW n \in 1..Size, Fills(t, n) PROVE PInv'
  <2> DEFINE st == IF n = close[t].shares THEN "FILLED" ELSE "PARTIALLY_FILLED_FINAL"
  <2>1. /\ Live(t) /\ Ends(t, st, TRUE) /\ Rebuild(t, n, pos[t], close'[t].st)
        /\ n <= Size - sold[t] /\ UNCHANGED <<watch, phase, job>>
    BY <1>5 DEF Fills, fixedVars
  <2>2. st \in CloseStates \ LiveStates
    BY DEF CloseStates, LiveStates
  <2> HIDE DEF st
  <2>3. /\ close' \in [Trades -> Closes] /\ \A u \in Trades \ {t} : close'[u] = close[u]
        /\ ~Live(t)' /\ UNCHANGED version
    BY <1>1, <2>1, <2>2, EndsShape
  <2>4. n \in 0..Size
    BY <1>0
  <2>5. /\ pos' \in [Trades -> Positions] /\ rem' \in [Trades -> 0..Size]
        /\ sold' \in [Trades -> 0..Size]
        /\ sl' \in [Trades -> {"none", "ACTIVE", "QUEUED", "EXPIRED", "TRIGGERED"}]
        /\ tp' \in [Trades -> {"SKIPPED", "ACTIVE", "QUEUED", "EXPIRED", "TRIGGERED"}]
        /\ \A u \in Trades \ {t} : /\ pos'[u] = pos[u] /\ rem'[u] = rem[u] /\ sold'[u] = sold[u]
                                   /\ sl'[u] = sl[u] /\ tp'[u] = tp[u]
        /\ Watched(t)'
        /\ pos[t] \notin Final => rem'[t] = Size - sold'[t] /\ (pos'[t] \in Final => rem'[t] = 0)
        /\ pos'[t] \notin Final => sl'[t] # "QUEUED" /\ tp'[t] # "QUEUED"
    BY <1>1, <2>1, <2>4, RebuildShape
  <2>6. phase[t] # "resolved" => pos[t] \notin Final
    BY <1>0, <1>1, <2>1 DEF Accounts
  <2>7. Typed' /\ OnlyTrade(t)
    BY <1>1, <2>1, <2>3, <2>5 DEF Typed, OnlyTrade
  <2>8. Accounts(t)' /\ Exiting(t)'
    BY <2>1, <2>5, <2>6 DEF Accounts, Exiting, Final
  <2> QED
    BY <2>1, <2>3, <2>5, <2>7, <2>8, CloseKeeps
<1>6. CASE GoesPending(t)
  <2>1. /\ Live(t) /\ Moves(t, "RECONCILING") /\ Rebuild(t, 0, pos[t], "RECONCILING")
        /\ UNCHANGED <<watch, phase, job>> /\ phase[t] # "resolved"
    BY <1>6 DEF GoesPending, IsAt, Live, LiveStates, fixedVars, Over
  <2>2. /\ close' \in [Trades -> Closes] /\ \A u \in Trades \ {t} : close'[u] = close[u]
        /\ close'[t].st = "RECONCILING" /\ close'[t].accounted = close[t].accounted
        /\ close'[t].shares = close[t].shares /\ close'[t].blind = close[t].blind
        /\ UNCHANGED version
    BY <1>1, <2>1, MovesShape DEF LiveStates
  <2>3. 0 \in 0..Size /\ 0 <= Size - sold[t]
    BY <1>0, <1>1
  <2>4. /\ pos' \in [Trades -> Positions] /\ rem' \in [Trades -> 0..Size]
        /\ sold' \in [Trades -> 0..Size]
        /\ sl' \in [Trades -> {"none", "ACTIVE", "QUEUED", "EXPIRED", "TRIGGERED"}]
        /\ tp' \in [Trades -> {"SKIPPED", "ACTIVE", "QUEUED", "EXPIRED", "TRIGGERED"}]
        /\ \A u \in Trades \ {t} : /\ pos'[u] = pos[u] /\ rem'[u] = rem[u] /\ sold'[u] = sold[u]
                                   /\ sl'[u] = sl[u] /\ tp'[u] = tp[u]
        /\ Watched(t)' /\ sold'[t] = sold[t] + 0
        /\ pos[t] \in Final => pos'[t] = pos[t] /\ rem'[t] = rem[t]
        /\ pos[t] \notin Final => rem'[t] = Size - sold'[t] /\ (pos'[t] \in Final => rem'[t] = 0)
        /\ pos'[t] \notin Final => sl'[t] # "QUEUED" /\ tp'[t] # "QUEUED"
    BY <1>1, <2>1, <2>3, RebuildShape
  <2>5. sold'[t] = sold[t] /\ rem[t] = Size - sold[t]
    BY <1>1, <2>1, <2>4 DEF Accounts
  <2>6. Typed' /\ OnlyTrade(t)
    BY <1>1, <2>1, <2>2, <2>4 DEF Typed, OnlyTrade
  <2>7. Accounts(t)' /\ Exiting(t)' /\ rem'[t] = rem[t]
    BY <1>1, <2>1, <2>4, <2>5 DEF Accounts, Exiting, Final
  <2>8. ~close'[t].accounted
    BY <1>1, <2>1, <2>2 DEF Unaccounted
  <2> QED
    BY <2>1, <2>2, <2>4, <2>6, <2>7, <2>8, CloseKeeps
<1>7. CASE NeedsReview(t)
  <2>1. /\ Live(t) /\ Moves(t, "MANUAL_REVIEW_REQUIRED")
        /\ UNCHANGED <<watch, phase, job, pos, rem, sold, sl, tp>>
    BY <1>7 DEF NeedsReview, IsAt, Live, LiveStates, fixedVars
  <2>2. /\ close' \in [Trades -> Closes] /\ \A u \in Trades \ {t} : close'[u] = close[u]
        /\ close'[t].st = "MANUAL_REVIEW_REQUIRED" /\ close'[t].accounted = close[t].accounted
        /\ close'[t].shares = close[t].shares /\ close'[t].blind = close[t].blind
        /\ UNCHANGED version
    BY <1>1, <2>1, MovesShape DEF LiveStates
  <2>3. ~close'[t].accounted
    BY <1>1, <2>1, <2>2 DEF Unaccounted
  <2>4. Typed' /\ OnlyTrade(t)
    BY <1>1, <2>1, <2>2 DEF Typed, OnlyTrade
  <2>5. Accounts(t)' /\ Exiting(t)' /\ Watched(t)'
    BY <1>1, <2>1, <2>2, <2>3 DEF Accounts, Exiting, Watched
  <2> QED
    BY <2>1, <2>2, <2>3, <2>4, <2>5, CloseKeeps
<1>8. CASE GtdExpires(t)
  <2> DEFINE x == Rearmed(sl[t], watch[t].sl, FALSE)
  <2>1. /\ Live(t) /\ Ends(t, "EXPIRED", TRUE) /\ UNCHANGED <<watch, phase, sold, job>>
        /\ rem' = [rem EXCEPT ![t] = Size - sold[t]]
        /\ pos' = [pos EXCEPT ![t] = IF sold[t] > 0 THEN "PARTIALLY_CLOSED" ELSE "OPEN"]
        /\ sl' = [sl EXCEPT ![t] = x] /\ tp' = [tp EXCEPT ![t] = "EXPIRED"]
    BY <1>1, <1>8 DEF GtdExpires, IsAt, Live, LiveStates, fixedVars, Typed
  <2>2. /\ close' \in [Trades -> Closes] /\ \A u \in Trades \ {t} : close'[u] = close[u]
        /\ ~Live(t)' /\ UNCHANGED version
    BY <1>1, <2>1, EndsShape DEF CloseStates, LiveStates, FAILURE_TERMINAL_STATES
  <2>3. x # "QUEUED" /\ x \in {sl[t], "ACTIVE"} /\ (x = "ACTIVE" => watch[t].sl)
    <3>1. watch[t].sl \in BOOLEAN
      BY <1>1 DEF Typed
    <3> QED
      BY <1>1, <3>1, RearmedFacts DEF Watched
  <2> HIDE DEF x
  <2>4. PICK r \in 0..Size : r = Size - sold[t]
    BY <1>0, <1>1
  <2>5. /\ rem' \in [Trades -> 0..Size] /\ rem'[t] = r /\ \A u \in Trades \ {t} : rem'[u] = rem[u]
    BY <1>1, <2>1, <2>4 DEF Typed
  <2>6. /\ pos' \in [Trades -> Positions] /\ pos'[t] \notin Final
        /\ \A u \in Trades \ {t} : pos'[u] = pos[u]
    BY <1>1, <2>1 DEF Typed, Positions, Final
  <2>7. /\ sl' \in [Trades -> {"none", "ACTIVE", "QUEUED", "EXPIRED", "TRIGGERED"}]
        /\ tp' \in [Trades -> {"SKIPPED", "ACTIVE", "QUEUED", "EXPIRED", "TRIGGERED"}]
        /\ sl'[t] = x /\ tp'[t] = "EXPIRED"
        /\ \A u \in Trades \ {t} : sl'[u] = sl[u] /\ tp'[u] = tp[u]
    BY <1>1, <2>1, <2>3 DEF Typed
  <2>8. Typed' /\ OnlyTrade(t)
    BY <1>1, <2>1, <2>2, <2>5, <2>6, <2>7 DEF Typed, OnlyTrade
  <2>9. Accounts(t)' /\ Exiting(t)' /\ Watched(t)'
    BY <2>1, <2>3, <2>4, <2>5, <2>6, <2>7 DEF Accounts, Exiting, Watched
  <2> QED
    BY <2>1, <2>2, <2>8, <2>9, CloseKeeps
<1> QED
  BY <1>3, <1>4, <1>5, <1>6, <1>7, <1>8 DEF CloseStep

-----------------------------------------------------------------------------
(* The jobs                                                                *)

\* A step that changes no position.
LEMMA JobKeeps ==
  ASSUME PInv, NEW t \in Trades, JobsDrop,
         UNCHANGED <<watch, phase, pos, rem, sold, sl, tp, version, close>>
  PROVE  PInv'
<1>1. Typed /\ TradeFits(t) /\ version[t] \in Nat
  BY DEF PInv, Typed
<1>2. Typed' /\ OnlyTrade(t)
  BY <1>1 DEF Typed, OnlyTrade, JobsDrop
<1>3. TradeFits(t)' /\ NotBehind(t)
  BY <1>1 DEF TradeFits, Accounts, Asks, Unaccounted, Exiting, Watched, Live, NotBehind
<1> QED
  BY <1>2, <1>3, TradeMoves

\* What a job loads is current.
LEMMA LoadsKeeps ==
  ASSUME PInv, NEW j \in Jobs, JobLoads(j)
  PROVE  PInv'
<1> DEFINE D == {u \in Trades : Selected(j, u)}
           rows == [t \in D |-> [rem |-> rem[t], version |-> version[t], phase |-> phase[t],
                                 pending |-> Live(t)]]
           row == [Idle EXCEPT !.at = "next", !.rows = rows]
<1>1. /\ UNCHANGED <<watch, phase, pos, rem, sold, sl, tp, version, close>>
      /\ job' = [job EXCEPT ![j] = row]
  BY DEF JobLoads, fixedVars, rowVars
<1>2. Typed /\ (\A t \in Trades : TradeFits(t)) /\ \A i \in Jobs : JobFits(i)
  BY DEF PInv
<1>3. \A t \in D : /\ [rem |-> rem[t], version |-> version[t], phase |-> phase[t],
                       pending |-> Live(t)] \in LoadedRow
                   /\ On(j, t)
  <2> SUFFICES ASSUME NEW t \in D
               PROVE  /\ [rem |-> rem[t], version |-> version[t], phase |-> phase[t],
                          pending |-> Live(t)] \in LoadedRow
                      /\ On(j, t)
    OBVIOUS
  <2>1. rem[t] \in 0..Size /\ version[t] \in Nat /\ phase[t] \in Phases /\ Live(t) \in BOOLEAN
    BY <1>2 DEF Typed, Live
  <2>2. On(j, t)
    BY <1>2 DEF Selected, Status, On, TradeFits, Watched
  <2> QED
    BY <2>1, <2>2 DEF LoadedRow
<1>4. rows \in [D -> LoadedRow]
  BY <1>3
<1>5. rows \in Tables /\ DOMAIN rows = D
  BY <1>4 DEF Tables
<1>6. \A t \in D : /\ rows[t].rem = rem[t] /\ rows[t].version = version[t]
                   /\ rows[t].pending = Live(t)
  OBVIOUS
<1> HIDE DEF rows
<1>7. row \in JobRow /\ row.rows = rows /\ row.at = "next"
  BY <1>5, IdleFacts DEF JobRow
<1> HIDE DEF row
<1>8. job' \in [Jobs -> JobRow] /\ job'[j] = row /\ \A i \in Jobs \ {j} : job'[i] = job[i]
  BY <1>1, <1>2, <1>7 DEF Typed
<1>9. Typed'
  BY <1>1, <1>2, <1>8 DEF Typed
<1>10. ASSUME NEW t \in Trades PROVE TradeFits(t)'
  BY <1>1, <1>2 DEF TradeFits, Accounts, Asks, Unaccounted, Exiting, Watched, Live
<1>11. JobFits(j)'
  <2>1. ASSUME NEW t \in D PROVE RowFits(j, t)'
    <3>1. version[t] \in Nat /\ job'[j].rows = rows
      BY <1>2, <1>7, <1>8 DEF Typed
    <3>2. On(j, t)' /\ (Live(t)' <=> Live(t))
      BY <1>1, <1>3 DEF On, Live
    <3> QED
      BY <1>1, <1>6, <3>1, <3>2 DEF RowFits
  <2> QED
    BY <1>5, <1>7, <1>8, <2>1 DEF JobFits, Loaded
<1>12. ASSUME NEW i \in Jobs, i # j PROVE JobFits(i)'
  <2>1. JobFits(i) /\ job'[i] = job[i]
    BY <1>2, <1>8, <1>12
  <2> QED
    BY <1>1, <2>1 DEF JobFits, RowFits, Loaded, On, Live
<1> QED
  BY <1>9, <1>10, <1>11, <1>12 DEF PInv

\* A job queues a CLOSE from its row, or does nothing to the position.
LEMMA JobQueues ==
  ASSUME PInv, NEW j \in Jobs, NEW t \in Loaded(j), NEW until \in Trades \cup {NoTrade},
         Creates(t, job[j].rows[t]), Enqueue(t, job[j].rows[t], j, until),
         SetStatus(j, t, "QUEUED"), JobsDrop, UNCHANGED <<watch, phase>>
  PROVE  PInv'
<1>1. /\ t \in Trades /\ job[j].rows[t] \in LoadedRow /\ RowFits(j, t)
  BY LoadedFacts
<1>2. PICK row : row = job[j].rows[t]
  OBVIOUS
<1>3. row.rem \in 0..Size /\ row.pending \in BOOLEAN /\ row.version \in Nat
  BY <1>1, <1>2 DEF LoadedRow
<1>4. version[t] \in Nat
  BY <1>1 DEF PInv, Typed
<1>5. row.rem # 0 /\ row.version = version[t]
  BY <1>1, <1>2, <1>3, <1>4 DEF Creates, Refuses, KeyTaken, RowFits
<1>6. ~row.pending /\ phase[t] # "resolved" => row.rem = rem[t]
  BY <1>1, <1>2, <1>5 DEF RowFits
<1>7. j \in Jobs \cup {"MANUAL"}
  OBVIOUS
<1>8. /\ sl \in [Trades -> {"none", "ACTIVE", "QUEUED", "EXPIRED", "TRIGGERED"}]
      /\ tp \in [Trades -> {"SKIPPED", "ACTIVE", "QUEUED", "EXPIRED", "TRIGGERED"}]
  BY DEF PInv, Typed
<1>9. PICK x \in {sl[t], "QUEUED"}, y \in {tp[t], "QUEUED"} :
         /\ sl' = [sl EXCEPT ![t] = x] /\ (x = "QUEUED" => x = sl[t] \/ watch[t].sl)
         /\ tp' = [tp EXCEPT ![t] = y] /\ (y = "QUEUED" => y = tp[t] \/ watch[t].tp)
  <2>1. CASE j = "STOP_LOSS"
    <3>1. sl' = [sl EXCEPT ![t] = "QUEUED"] /\ tp' = [tp EXCEPT ![t] = tp[t]] /\ watch[t].sl
      BY <1>1, <1>8, <2>1 DEF SetStatus, RowFits, On
    <3> QED
      BY <3>1
  <2>2. CASE j # "STOP_LOSS"
    <3>1. tp' = [tp EXCEPT ![t] = "QUEUED"] /\ sl' = [sl EXCEPT ![t] = sl[t]] /\ watch[t].tp
      BY <1>1, <1>8, <2>2 DEF SetStatus, RowFits, On
    <3> QED
      BY <3>1
  <2> QED
    BY <2>1, <2>2
<1>10. Enqueue(t, row, j, until)
  BY <1>2
<1> QED
  BY <1>1, <1>3, <1>5, <1>6, <1>7, <1>9, <1>10, EnqueueKeeps

\* The cycle of a job, one position after the other.
LEMMA CycleKeeps ==
  ASSUME PInv, NEW j \in Jobs, Cycle(j)
  PROVE  PInv'
<1>1. /\ job \in [Jobs -> JobRow] /\ job[j] \in JobRow /\ Loaded(j) \subseteq Trades
      /\ job[j].rows \in [Loaded(j) -> LoadedRow]
  BY LoadedFacts
<1>2. CASE JobLoads(j)
  BY <1>2, LoadsKeeps
<1>3. CASE JobEnqueues(j)
  <2>1. PICK t \in Loaded(j) : t = job[j].cur
    BY <1>3 DEF JobEnqueues, PInv, JobFits
  <2>2. t \in Trades /\ NoTrade \in Trades \cup {NoTrade} /\ job[j].end \in Trades \cup {NoTrade}
    BY <1>1, <2>1, EndTyped
  <2>3. UNCHANGED <<watch, phase>>
    BY <1>3 DEF JobEnqueues, fixedVars
  <2>4. CASE /\ Creates(t, job[j].rows[t]) /\ Enqueue(t, job[j].rows[t], j, NoTrade)
             /\ SetStatus(j, t, "QUEUED") /\ Done(j, t, job[j].end)
    <3>1. JobsDrop
      BY <2>2, <2>4, DoneDrops
    <3> QED
      BY <2>1, <2>2, <2>3, <2>4, <3>1, JobQueues
  <2>5. CASE (Breaks(j) \/ Done(j, t, job[j].end)) /\ UNCHANGED rowVars
    <3>1. JobsDrop
      BY <2>2, <2>5, DoneDrops, BreaksDrops
    <3> QED
      BY <2>2, <2>3, <2>5, <3>1, JobKeeps DEF rowVars
  <2> QED
    BY <1>3, <2>1, <2>4, <2>5 DEF JobEnqueues
<1>4. ASSUME NEW t \in Trades, JobExpires(j, t) PROVE PInv'
  <2>1. /\ SetStatus(j, t, "EXPIRED") /\ Done(j, t, EndAfter(j, t))
        /\ UNCHANGED <<watch, phase, pos, rem, sold, version, close>>
    BY <1>4 DEF JobExpires, fixedVars
  <2>2. JobsDrop
    BY <2>1, EndTyped, DoneDrops
  <2>3. Typed /\ TradeFits(t) /\ version[t] \in Nat
    BY DEF PInv, Typed
  <2>4. /\ sl' \in [Trades -> {"none", "ACTIVE", "QUEUED", "EXPIRED", "TRIGGERED"}]
        /\ tp' \in [Trades -> {"SKIPPED", "ACTIVE", "QUEUED", "EXPIRED", "TRIGGERED"}]
        /\ sl'[t] \in {sl[t], "EXPIRED"} /\ tp'[t] \in {tp[t], "EXPIRED"}
        /\ \A u \in Trades \ {t} : sl'[u] = sl[u] /\ tp'[u] = tp[u]
    BY <2>1, <2>3 DEF SetStatus, Typed
  <2>5. Typed' /\ OnlyTrade(t)
    BY <2>1, <2>2, <2>3, <2>4 DEF Typed, OnlyTrade, JobsDrop
  <2>6. TradeFits(t)' /\ NotBehind(t)
    BY <2>1, <2>3, <2>4 DEF TradeFits, Accounts, Asks, Unaccounted, Exiting, Watched, Live, NotBehind
  <2> QED
    BY <2>1, <2>2, <2>5, <2>6, TradeMoves
<1>5. ASSUME NEW t \in Trades, GtdUnbound(j, t) PROVE PInv'
  <2>1. JobsDrop
    BY <1>5, BreaksDrops DEF GtdUnbound
  <2> QED
    BY <1>5, <2>1, JobKeeps DEF GtdUnbound, fixedVars, rowVars
<1>6. ASSUME NEW t \in Trades, GtdPosts(j, t) PROVE PInv'
  <2>1. t \in Loaded(j) /\ EndAfter(j, t) \in Trades \cup {NoTrade} /\ UNCHANGED <<watch, phase>>
    BY <1>6, EndTyped DEF GtdPosts, fixedVars
  <2>2. CASE /\ Creates(t, job[j].rows[t]) /\ Enqueue(t, job[j].rows[t], j, EndOf(j, t))
             /\ SetStatus(j, t, "QUEUED") /\ Done(j, t, EndAfter(j, t))
    <3>1. JobsDrop /\ EndOf(j, t) \in Trades \cup {NoTrade}
      BY <2>1, <2>2, DoneDrops DEF EndOf
    <3> QED
      BY <2>1, <2>2, <3>1, JobQueues
  <2>3. CASE (Breaks(j) \/ Done(j, t, EndAfter(j, t))) /\ UNCHANGED rowVars
    <3>1. JobsDrop
      BY <2>1, <2>3, DoneDrops, BreaksDrops
    <3> QED
      BY <2>1, <2>3, <3>1, JobKeeps DEF rowVars
  <2> QED
    BY <1>6, <2>2, <2>3 DEF GtdPosts
<1>7. ASSUME NEW t \in Trades, JobQuotes(j, t) PROVE PInv'
  <2>1. /\ t \in Loaded(j) /\ EndAfter(j, t) \in Trades \cup {NoTrade}
        /\ UNCHANGED <<watch, phase, pos, rem, sold, sl, tp, version, close>>
    BY <1>7, EndTyped DEF JobQuotes, fixedVars, rowVars
  <2>2. CASE Done(j, t, EndAfter(j, t))
    BY <2>1, <2>2, DoneDrops, JobKeeps
  <2>3. CASE job' = [job EXCEPT ![j].at = "enqueue", ![j].cur = t, ![j].end = EndAfter(j, t)]
    <3>1. PICK row \in JobRow :
            row = [job[j] EXCEPT !.at = "enqueue", !.cur = t, !.end = EndAfter(j, t)]
      BY <1>1, <2>1 DEF JobRow
    <3>2. row.rows = job[j].rows /\ row.cur = t
      BY <1>1, <3>1 DEF JobRow
    <3>3. job' = [job EXCEPT ![j] = row]
      BY <1>1, <2>3, <3>1
    <3>4. DOMAIN row.rows = Loaded(j)
      BY <3>2 DEF Loaded
    <3>5. JobsDrop
      BY <2>1, <3>2, <3>3, <3>4, OneJob
    <3> QED
      BY <2>1, <3>5, JobKeeps
  <2> QED
    BY <1>7, <2>2, <2>3 DEF JobQuotes
<1> QED
  BY <1>2, <1>3, <1>4, <1>5, <1>6, <1>7 DEF Cycle

-----------------------------------------------------------------------------
(* The theorems                                                            *)

\* The operator, settlement and the market.
LEMMA WorldKeeps ==
  ASSUME PInv, NEW t \in Trades, OperatorCloses(t) \/ Settles(t) \/ TimePasses(t) \/ BidMoves(t)
  PROVE  PInv'
<1>1. /\ Typed /\ TradeFits(t) /\ version[t] \in Nat /\ rem[t] \in 0..Size
      /\ pos[t] \in Positions /\ sl[t] \in {sl[t], "QUEUED"}
  BY DEF PInv, Typed
<1>2. CASE OperatorCloses(t)
  <2>1. PICK row : row = [rem |-> rem[t], version |-> version[t], pending |-> FALSE]
    OBVIOUS
  <2>2. row.rem = rem[t] /\ row.version = version[t] /\ row.pending = FALSE
    BY <2>1
  <2>3. /\ Enqueue(t, row, "MANUAL", NoTrade) /\ UNCHANGED <<watch, phase, sl, tp, job>> /\ rem[t] > 0
    BY <1>2, <2>1 DEF OperatorCloses, fixedVars
  <2>4. sl' = [sl EXCEPT ![t] = sl[t]] /\ tp' = [tp EXCEPT ![t] = tp[t]]
    BY <1>1, <2>3 DEF Typed
  <2>5. JobsDrop
    BY <2>3, JobsSame
  <2>6. row.rem \in 0..Size /\ row.rem # 0
    BY <1>1, <2>2, <2>3
  <2>7. row.pending \in BOOLEAN
    BY <2>2, Zenon
  <2> QED
    BY <2>2, <2>3, <2>4, <2>5, <2>6, <2>7, EnqueueKeeps
<1>3. CASE Settles(t)
  <2>1. PICK p \in Final, r \in 0..Size :
          /\ pos' = [pos EXCEPT ![t] = p] /\ rem' = [rem EXCEPT ![t] = r]
          /\ phase[t] = "resolved" /\ UNCHANGED <<watch, phase, sold, sl, tp, version, close, job>>
    <3>1. rem = [rem EXCEPT ![t] = rem[t]] /\ 0 \in 0..Size
      BY <1>1, ProtectionAssumption DEF Typed, ProtectionAssumption
    <3> QED
      BY <1>1, <1>3, <3>1 DEF Settles, Final, fixedVars
  <2>2. /\ pos' \in [Trades -> Positions] /\ pos'[t] = p /\ rem' \in [Trades -> 0..Size]
        /\ \A u \in Trades \ {t} : pos'[u] = pos[u] /\ rem'[u] = rem[u]
    BY <1>1, <2>1 DEF Typed, Positions, Final
  <2>3. Typed' /\ OnlyTrade(t)
    BY <1>1, <2>1, <2>2 DEF Typed, OnlyTrade
  <2>4. TradeFits(t)' /\ NotBehind(t)
    BY <1>1, <2>1, <2>2 DEF TradeFits, Accounts, Asks, Unaccounted, Exiting, Watched, Live, NotBehind, Final
  <2> QED
    BY <2>1, <2>3, <2>4, JobsSame, TradeMoves
<1>4. CASE TimePasses(t)
  <2>1. PICK p \in Phases : phase' = [phase EXCEPT ![t] = p] /\ phase[t] # "resolved"
    BY <1>1, <1>4 DEF TimePasses, Phases, Typed
  <2>2. UNCHANGED <<watch, pos, rem, sold, sl, tp, version, close, job>>
    BY <1>4 DEF TimePasses, fixedVars, rowVars
  <2>3. phase' \in [Trades -> Phases] /\ \A u \in Trades \ {t} : phase'[u] = phase[u]
    BY <1>1, <2>1 DEF Typed
  <2>4. Typed' /\ OnlyTrade(t)
    BY <1>1, <2>2, <2>3 DEF Typed, OnlyTrade
  <2>5. TradeFits(t)' /\ NotBehind(t)
    BY <1>1, <2>1, <2>2 DEF TradeFits, Accounts, Asks, Unaccounted, Exiting, Watched, Live, NotBehind
  <2> QED
    BY <2>2, <2>4, <2>5, JobsSame, TradeMoves
<1>5. CASE BidMoves(t)
  BY <1>5, JobsSame, JobKeeps DEF BidMoves, fixedVars, rowVars
<1> QED
  BY <1>2, <1>3, <1>4, <1>5

\* The invariant holds at the start ...
LEMMA PInvInit == Init => PInv
<1> SUFFICES ASSUME Init PROVE PInv
  OBVIOUS
<1>0. Size \in Nat \ {0}
  BY ProtectionAssumption DEF ProtectionAssumption
<1>1. /\ job = [j \in Jobs |-> Idle] /\ rem = [t \in Trades |-> Size] /\ sold = [t \in Trades |-> 0]
      /\ watch \in [Trades -> [sl : BOOLEAN, tp : BOOLEAN]]
      /\ phase \in [Trades -> {"far", "near"}]
  BY DEF Init
<1>2. job \in [Jobs -> JobRow] /\ \A j \in Jobs : JobFits(j)
  BY <1>1, IdleFacts DEF JobFits, Loaded
<1>3. NoClose \in Closes /\ NoClose.st = "none" /\ ~NoClose.accounted
  <2>0. 0 \in 0..Size /\ "READY" \in CloseStates
    BY <1>0 DEF CloseStates, LiveStates
  <2>1. Request("none", 0, NoTrade, FALSE) \in Closes /\ ~Request("none", 0, NoTrade, FALSE).accounted
    BY <2>0 DEF Request, Closes
  <2> QED
    BY <2>1 DEF NoClose, Closes, CloseStates
<1>4. \A t \in Trades : LET c == Request("TAKE_PROFIT", Size, t, FALSE) IN
        c \in Closes /\ c.st = "READY" /\ c.shares = Size /\ ~c.accounted
  <2>0. Size \in 0..Size /\ "READY" \in CloseStates
    BY <1>0 DEF CloseStates, LiveStates
  <2> QED
    BY <2>0 DEF Request, Closes, Jobs
<1>5. ASSUME NEW t \in Trades
      PROVE  /\ PostsGtd(t) => /\ pos[t] = "EXIT_REQUESTED" /\ tp[t] = "QUEUED" /\ watch[t].tp
                               /\ version[t] = 1 /\ close[t] = Request("TAKE_PROFIT", Size, t, FALSE)
             /\ ~PostsGtd(t) => /\ pos[t] = "OPEN" /\ tp[t] \in {"ACTIVE", "SKIPPED"}
                                /\ (tp[t] = "ACTIVE" => watch[t].tp)
                                /\ version[t] = 0 /\ close[t] = NoClose
             /\ sl[t] \in {"ACTIVE", "none"} /\ (sl[t] = "ACTIVE" => watch[t].sl)
             /\ rem[t] = Size /\ sold[t] = 0
  BY <1>5 DEF Init, PostsGtd
<1>6. Typed
  <2>1. close \in [Trades -> Closes] /\ version \in [Trades -> Nat]
    BY <1>3, <1>4 DEF Init
  <2>2. /\ pos \in [Trades -> Positions]
        /\ sl \in [Trades -> {"none", "ACTIVE", "QUEUED", "EXPIRED", "TRIGGERED"}]
        /\ tp \in [Trades -> {"SKIPPED", "ACTIVE", "QUEUED", "EXPIRED", "TRIGGERED"}]
    BY DEF Init, Positions
  <2>3. rem \in [Trades -> 0..Size] /\ sold \in [Trades -> 0..Size] /\ phase \in [Trades -> Phases]
    BY <1>0, <1>1 DEF Phases
  <2> QED
    BY <1>1, <1>2, <2>1, <2>2, <2>3 DEF Typed
<1>7. ASSUME NEW t \in Trades PROVE TradeFits(t)
  <2>1. Accounts(t)
    <3>1. pos[t] \notin Final /\ rem[t] = Size /\ sold[t] = 0
      BY <1>5 DEF Final
    <3>2. rem[t] = Size - sold[t]
      BY <1>0, <3>1
    <3> QED
      BY <3>1, <3>2 DEF Accounts
  <2>3. Watched(t)
    BY <1>5 DEF Watched
  <2>2. Asks(t) /\ Unaccounted(t) /\ Exiting(t)
    BY <1>3, <1>4, <1>5 DEF Asks, Unaccounted, Exiting, Live, LiveStates
  <2> QED
    BY <2>1, <2>2, <2>3 DEF TradeFits
<1> QED
  BY <1>2, <1>6, <1>7 DEF PInv

\* ... and every step keeps it.
LEMMA PInvNext == PInv /\ [Next]_vars => PInv'
<1> SUFFICES ASSUME PInv, [Next]_vars PROVE PInv'
  OBVIOUS
<1>1. CASE UNCHANGED vars
  <2>1. UNCHANGED <<watch, phase, pos, rem, sold, sl, tp, version, close, job>>
    BY <1>1 DEF vars, fixedVars, rowVars
  <2>2. Typed' /\ \A t \in Trades : TradeFits(t)'
    BY <2>1 DEF PInv, Typed, TradeFits, Accounts, Asks, Unaccounted, Exiting, Watched, Live
  <2>3. \A j \in Jobs : JobFits(j)'
    BY <2>1 DEF PInv, JobFits, RowFits, Loaded, On, Live
  <2> QED
    BY <2>2, <2>3 DEF PInv
<1> QED
  BY <1>1, CycleKeeps, CloseStepKeeps, WorldKeeps DEF Next

\* Every reachable state satisfies it.
LEMMA PInvHolds == Spec => []PInv
BY PInvInit, PInvNext, PTL DEF Spec

\* Whatever rows the jobs hold while the worker and the operator move the
\* position, a CLOSE of enqueue_close_request asks for the shares that are still
\* held: the version in its key keeps stale rows out, except those loaded while
\* a CLOSE was pending.
THEOREM ClosesAskForWhatIsHeld == Spec => []AsksForWhatIsHeld
<1>1. PInv => AsksForWhatIsHeld
  BY DEF PInv, TradeFits, Asks, AsksForWhatIsHeld
<1> QED
  BY <1>1, PInvHolds, PTL

\* Only a CLOSE that ended without rebuild_trade_accounting leaves the stop-loss
\* or take-profit of an open position queued.
THEOREM ProtectionIsNotLost == Spec => []QueuedMeansExiting
<1>1. PInv => QueuedMeansExiting
  BY DEF PInv, TradeFits, Exiting, QueuedMeansExiting
<1> QED
  BY <1>1, PInvHolds, PTL
=============================================================================
