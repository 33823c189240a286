------------------------ MODULE OrderStrategiesProofs ------------------------
(***************************************************************************)
(* Theorems about OrderStrategies for every tick, bound, size and set of   *)
(* limits: the price mandate, the single execution and the clean rejection. *)
(***************************************************************************)
EXTENDS OrderStrategies, FiniteSetTheorems, SequenceTheorems, TLAPS

OrderRows == [limit : Nat \ {0}, live : BOOLEAN, matched : 0..Size, listed : 0..Size]

\* What TypeOK says, with the rows of the orders spelt out: a live order has
\* shares left, and no more trades are listed than were made.
RowsOK ==
    /\ orders \in Seq(OrderRows)
    /\ \A k \in 1..Len(orders) :
         /\ orders[k].listed <= orders[k].matched
         /\ orders[k].live => orders[k].matched < Size

\* A submission ahead is within the strategy's number of attempts.
AttemptsLeft ==
    pc \in {"guard", "quote", "requote", "send", "refresh"} =>
        IF Maker THEN n <= MaxReprices ELSE n < MaxAttempts

\* Only a maker order asks for a quote to lower its price to.
OnlyMakersQuote == pc \in {"quote", "requote"} => Maker

\* An entry's price somebody approved.
Mandated(p) ==
    \/ p <= plan.limit
    \/ /\ plan.policy /\ p <= PolicyMax /\ p <= EdgeMax
       /\ ~Maker => p >= PolicyMin

\* Not only what was sent, but the price about to be sent, is within the mandate.
NextPriceMandated == Buys => Mandated(limit)

\* The venue holds nothing of an order and it never traded.
Gone(o) == ~o.live /\ o.matched = 0

\* GTC_TTL has an order to look at, and it was the last one.
RestingExists == pc \in {"wait", "cancel", "final", "status"} => n > 0

\* While nothing was hidden from the worker, everything but its last order is
\* gone; the last one too while it may still submit and after a rejection; and
\* nothing trades on any more once the cancellation went through.
EarlierGone == ~blind => \A k \in 1..Len(orders) : k < Len(orders) => Gone(orders[k])
AllGone ==
    (~blind /\ (\/ pc \in {"guard", "quote", "requote", "send", "refresh"}
                \/ result \in {"REJECTED", "READY"}))
        => \A k \in 1..Len(orders) : Gone(orders[k])
CancelledIsDead == ~blind /\ pc \in {"final", "status"} => ~Resting.live

SInv ==
    /\ TypeOK /\ RowsOK /\ AttemptsLeft /\ OnlyMakersQuote /\ RestingExists
    /\ NextPriceMandated /\ PriceWithinMandate
    /\ EarlierGone /\ AllGone /\ CancelledIsDead

-----------------------------------------------------------------------------
(* Operators                                                                *)

\* A plan's numbers, and the fact that only an entry carries the strategy's
\* price policy.
LEMMA PlanTypes ==
  ASSUME plan \in Plans
  PROVE  /\ plan.limit \in Nat \ {0} /\ plan.cap \in Nat /\ plan.policy \in BOOLEAN
         /\ plan.policy => Buys
<1>1. plan.limit \in Limits /\ (plan.cap = 0 \/ plan.cap \in Caps)
  BY DEF Plans
<1>2. plan.policy \in BOOLEAN /\ (plan.policy => Buys)
  BY DEF Plans, Buys, Maker
<1>3. plan.limit \in Nat \ {0}
  BY <1>1, StrategyAssumption
<1>4. plan.cap \in Nat
  <2>1. CASE plan.cap = 0
    BY <2>1
  <2>2. CASE plan.cap \in Caps
    BY <2>2, StrategyAssumption
  <2> QED
    BY <1>1, <2>1, <2>2
<1> QED
  BY <1>2, <1>3, <1>4

\* The same, and the book's prices are numbers.
LEMMA PlanAndBook ==
  ASSUME TypeOK
  PROVE  /\ plan.limit \in Nat \ {0} /\ plan.cap \in Nat /\ plan.policy \in BOOLEAN
         /\ plan.policy => Buys
         /\ book.ask \in Nat /\ book.bid \in Nat
<1>1. Quotes \subseteq Nat
  BY StrategyAssumption DEF Quotes
<1>2. book.ask \in Nat /\ book.bid \in Nat
  BY <1>1 DEF TypeOK, Books
<1> QED
  BY <1>2, PlanTypes DEF TypeOK

\* _round_maker_price never raises a BUY.
LEMMA RoundMakerBound ==
  ASSUME NEW p \in Nat
  PROVE  RoundMaker(p) \in Nat /\ (Buys => RoundMaker(p) <= p)
<1>1. \A m \in Nat : (m \div Tick) * Tick \in Nat /\ (m \div Tick) * Tick <= m
  BY StrategyAssumption
<1> QED
  BY <1>1, StrategyAssumption DEF RoundMaker

\* calculate_maker_price only lowers a BUY's limit.
LEMMA MakerPriceBound ==
  ASSUME TypeOK
  PROVE  MakerPrice(book) \in Nat /\ (Buys => MakerPrice(book) <= limit)
<1>1. Candidate(book) \in Nat /\ (Buys => Candidate(book) <= limit)
  BY PlanAndBook DEF Candidate, TypeOK
<1>2. RoundMaker(Candidate(book)) \in Nat
      /\ (Buys => RoundMaker(Candidate(book)) <= Candidate(book))
  BY <1>1, RoundMakerBound
<1> QED
  BY <1>1, <1>2 DEF MakerPrice, TypeOK

\* The order that a submission appends.
LEMMA SentRow ==
  ASSUME TypeOK, RowsOK, NEW live \in BOOLEAN, NEW m \in 0..Size, Sent(live, m),
         live => m < Size
  PROVE  /\ RowsOK' /\ Len(orders) \in Nat /\ Len(orders') = Len(orders) + 1
         /\ \A k \in 1..Len(orders) : orders'[k] = orders[k]
         /\ orders'[Len(orders) + 1] = [limit |-> limit, live |-> live, matched |-> m, listed |-> 0]
<1> DEFINE row == [limit |-> limit, live |-> live, matched |-> m, listed |-> 0]
<1>1. row \in OrderRows
  BY StrategyAssumption DEF OrderRows, TypeOK
<1>2. orders' = Append(orders, row)
  BY DEF Sent
<1>3. /\ orders' \in Seq(OrderRows) /\ Len(orders) \in Nat /\ Len(orders') = Len(orders) + 1
      /\ \A k \in 1..Len(orders) : orders'[k] = orders[k]
      /\ orders'[Len(orders) + 1] = row
  BY <1>1, <1>2, AppendProperties, LenProperties DEF RowsOK
<1>4. \A k \in 1..Len(orders') : orders'[k].listed <= orders'[k].matched
                                 /\ (orders'[k].live => orders'[k].matched < Size)
  BY <1>3, StrategyAssumption DEF RowsOK
<1> QED
  BY <1>3, <1>4 DEF RowsOK

-----------------------------------------------------------------------------
(* The steps                                                                *)

\* Steps that submit nothing and leave the venue alone: what they must respect.
QuietStep ==
    /\ UNCHANGED <<plan, n, orders>> /\ (blind => blind')
    /\ TypeOK' /\ AttemptsLeft' /\ OnlyMakersQuote' /\ RestingExists' /\ NextPriceMandated'
    /\ AllGone' /\ CancelledIsDead'

\* A quiet step keeps what is said of the orders.
LEMMA QuietKeeps ==
  ASSUME SInv, QuietStep
  PROVE  SInv'
<1>1. RowsOK' /\ PriceWithinMandate' /\ EarlierGone'
  BY DEF SInv, QuietStep, RowsOK, PriceWithinMandate, EarlierGone, Gone, Buys, Maker
<1> QED
  BY <1>1 DEF SInv, QuietStep

\* The worker's guard lets an entry through at its own limit, or at an ask the
\* strategy's policy accepts.
LEMMA GuardKeeps ==
  ASSUME SInv, WorkerGuards \/ QuoteUnavailable
  PROVE  SInv'
<1>1. UNCHANGED <<plan, book, n, orders, blind>> /\ pc = "guard"
      /\ pc' \in {"done", "quote", "send"} /\ (result' = "none" <=> pc' # "done")
      /\ result' \in {"none", "READY", "REJECTED", "ACCEPTED"}
      /\ faults' \in 0..MaxFaults
  BY StrategyAssumption DEF WorkerGuards, Submits, QuoteUnavailable, Returns, Fault, SInv, TypeOK
<1>2. limit' \in Nat \ {0} /\ cap' \in Nat /\ NextPriceMandated'
  BY PlanAndBook, StrategyAssumption
  DEF WorkerGuards, QuoteUnavailable, Guarded, SInv, TypeOK, NextPriceMandated, Mandated,
      PolicyAccepts, Buys, Maker
<1> QED
  <2>1. TypeOK'
    BY <1>1, <1>2 DEF SInv, TypeOK, Maker
  <2>2. AttemptsLeft' /\ OnlyMakersQuote' /\ RestingExists' /\ CancelledIsDead'
    BY <1>1 DEF SInv, WorkerGuards, Submits, QuoteUnavailable, Returns, AttemptsLeft, OnlyMakersQuote,
                RestingExists, CancelledIsDead, Maker
  <2>3. AllGone'
    BY <1>1 DEF SInv, AllGone, Gone
  <2> QED
    BY <1>1, <1>2, <2>1, <2>2, <2>3, QuietKeeps DEF QuietStep

\* A refreshed entry is repeated only at a price the policy accepts.
LEMMA RefreshKeeps ==
  ASSUME SInv, FakRefreshes
  PROVE  SInv'
<1>1. PICK prices \in [bid : Nat, ask : Nat] :
        Refreshes(prices) /\ faults' \in 0..MaxFaults
  <2>1. book \in [bid : Nat, ask : Nat] /\ NoPrices \in [bid : Nat, ask : Nat]
    BY PlanAndBook DEF SInv, TypeOK, Books, NoPrices
  <2>2. (UNCHANGED faults \/ Fault) => faults' \in 0..MaxFaults
    BY StrategyAssumption DEF SInv, TypeOK, Fault
  <2> QED
    BY <2>1, <2>2 DEF FakRefreshes
<1>2. UNCHANGED <<plan, book, n, orders, blind>> /\ pc = "refresh"
      /\ pc' \in {"done", "send"} /\ (result' = "none" <=> pc' # "done")
      /\ result' \in {"none", "READY", "REJECTED", "ACCEPTED"}
  BY <1>1 DEF Refreshes, Returns, SInv, TypeOK
<1>3. limit' \in Nat \ {0} /\ cap' \in Nat /\ NextPriceMandated'
  BY <1>1, StrategyAssumption
  DEF Refreshes, SInv, TypeOK, NextPriceMandated, Mandated, PolicyAccepts, Buys, Maker
<1>4. TypeOK'
  BY <1>1, <1>2, <1>3 DEF SInv, TypeOK, Maker
<1>5. AttemptsLeft' /\ OnlyMakersQuote' /\ RestingExists' /\ CancelledIsDead'
  BY <1>2 DEF SInv, AttemptsLeft, OnlyMakersQuote, RestingExists, CancelledIsDead, Maker
<1>6. AllGone'
  BY <1>2 DEF SInv, AllGone, Gone
<1> QED
  BY <1>2, <1>3, <1>4, <1>5, <1>6, QuietKeeps DEF QuietStep

\* A maker's quote only lowers an entry's price.
LEMMA QuoteKeeps ==
  ASSUME SInv, MakerQuotes
  PROVE  SInv'
<1>1. UNCHANGED <<plan, book, n, cap, orders, blind>> /\ pc \in {"quote", "requote"}
      /\ pc' \in {"done", "send"} /\ (result' = "none" <=> pc' # "done")
      /\ result' \in {"none", "READY", "REJECTED", "ACCEPTED"}
      /\ faults' \in 0..MaxFaults
  BY StrategyAssumption DEF MakerQuotes, Returns, Fault, SInv, TypeOK
<1>2. limit' \in Nat \ {0} /\ NextPriceMandated'
  <2>1. limit' \in Nat \ {0} /\ (Buys => limit' <= limit)
    BY MakerPriceBound DEF MakerQuotes, SInv, TypeOK
  <2>2. Maker
    BY <1>1 DEF SInv, OnlyMakersQuote
  <2> QED
    BY <1>1, <2>1, <2>2, PlanAndBook, StrategyAssumption
    DEF SInv, TypeOK, NextPriceMandated, Mandated, Buys, Maker
<1>3. TypeOK'
  BY <1>1, <1>2 DEF SInv, TypeOK, Maker
<1>4. AttemptsLeft' /\ OnlyMakersQuote' /\ RestingExists' /\ CancelledIsDead'
  BY <1>1 DEF SInv, AttemptsLeft, OnlyMakersQuote, RestingExists, CancelledIsDead, Maker
<1>5. AllGone'
  BY <1>1 DEF SInv, AllGone, Gone
<1> QED
  BY <1>1, <1>2, <1>3, <1>4, <1>5, QuietKeeps DEF QuietStep

\* Waiting, the last look at the trades and the last look at the status: the
\* order that is given up is dead, and nothing of it had traded.
LEMMA WaitKeeps ==
  ASSUME SInv, WaitSeesFill \/ WaitEnds \/ FinalFills
  PROVE  SInv'
<1>1. UNCHANGED <<plan, book, n, limit, cap, orders, blind>>
      /\ \/ pc = "wait" /\ pc' \in {"done", "cancel"}
         \/ pc = "final" /\ pc' \in {"done", "status"}
      /\ (result' = "none" <=> pc' # "done") /\ result' \in {"none", "ACCEPTED"}
      /\ faults' \in 0..MaxFaults
  BY StrategyAssumption DEF WaitSeesFill, WaitEnds, FinalFills, Returns, Fault, SInv, TypeOK
<1>2. TypeOK'
  BY <1>1 DEF SInv, TypeOK, Maker
<1>3. AttemptsLeft' /\ OnlyMakersQuote' /\ RestingExists' /\ NextPriceMandated' /\ AllGone'
  BY <1>1
  DEF SInv, AttemptsLeft, OnlyMakersQuote, RestingExists, NextPriceMandated, Mandated, Buys,
      Maker, AllGone
<1>4. CancelledIsDead'
  BY <1>1 DEF SInv, CancelledIsDead, Resting
<1> QED
  BY <1>1, <1>2, <1>3, <1>4, QuietKeeps DEF QuietStep

\* A rejection after the status lookup is of an order that never traded, or one
\* whose trades the status hid.
LEMMA StatusKeeps ==
  ASSUME SInv, FinalStatus
  PROVE  SInv'
<1>1. UNCHANGED <<plan, book, n, limit, cap, orders>> /\ pc = "status" /\ pc' = "done"
      /\ result' \in {"REJECTED", "ACCEPTED"}
      /\ faults' \in 0..MaxFaults
  BY StrategyAssumption DEF FinalStatus, Returns, Fault, SInv, TypeOK
<1>7. blind' \in BOOLEAN /\ (blind => blind')
  BY DEF FinalStatus
<1>2. TypeOK'
  BY <1>1, <1>7 DEF SInv, TypeOK, Maker
<1>3. AttemptsLeft' /\ OnlyMakersQuote' /\ RestingExists' /\ NextPriceMandated' /\ CancelledIsDead'
  BY <1>1
  DEF SInv, AttemptsLeft, OnlyMakersQuote, RestingExists, NextPriceMandated, Mandated, Buys,
      CancelledIsDead, Maker
<1>4. Len(orders) \in Nat /\ Len(orders) > 0 /\ Resting.matched \in 0..Size
  BY <1>1 DEF SInv, TypeOK, RestingExists, Resting
<1>5. result' = "REJECTED" => Resting.matched = 0 \/ blind'
  <2>1. \A s \in Statuses(Resting) : MatchedPending(s) \/ s = "CANCELED" \/ Resting.matched = 0
    BY <1>4, StrategyAssumption DEF Statuses, MatchedPending
  <2>2. CASE Resting.matched = 0
    BY <2>2
  <2>3. CASE Resting.matched > 0 /\ Resting.matched # 0
    BY <2>1, <2>3 DEF FinalStatus, Returns
  <2> QED
    BY <1>4, <2>2, <2>3
<1>6. AllGone'
  BY <1>1, <1>4, <1>5, <1>7 DEF SInv, AllGone, EarlierGone, CancelledIsDead, Gone, Resting
<1> QED
  BY <1>1, <1>2, <1>3, <1>6, <1>7, QuietKeeps DEF QuietStep

\* The book moves under the worker.
LEMMA BookKeeps ==
  ASSUME SInv, BookMoves
  PROVE  SInv'
<1>1. UNCHANGED <<plan, pc, n, limit, cap, orders, result, faults, blind>> /\ book' \in Books
  BY DEF BookMoves
<1>2. TypeOK'
  BY <1>1 DEF SInv, TypeOK, Maker
<1>3. AttemptsLeft' /\ OnlyMakersQuote' /\ RestingExists' /\ NextPriceMandated'
  BY <1>1
  DEF SInv, AttemptsLeft, OnlyMakersQuote, RestingExists, NextPriceMandated, Mandated, Buys, Maker
<1>4. AllGone' /\ CancelledIsDead'
  BY <1>1 DEF SInv, AllGone, Gone, CancelledIsDead, Resting
<1> QED
  BY <1>1, <1>2, <1>3, <1>4, QuietKeeps DEF QuietStep

\* A submission: the new order is mandated, and the strategy goes on submitting,
\* or gives up, only when that order is gone or an answer was hidden.
LEMMA SubmitKeeps ==
  ASSUME SInv, pc = "send", NEW live \in BOOLEAN, NEW m \in 0..Size, live => m < Size,
         Sent(live, m), n' = n + 1, UNCHANGED <<plan, book, limit, cap>>,
         blind' \in BOOLEAN, blind => blind', faults' \in 0..MaxFaults,
         pc' \in {"send", "refresh", "requote", "wait", "done"},
         result' \in {"none", "REJECTED", "ACCEPTED"}, result' = "none" <=> pc' # "done",
         pc' \in {"send", "refresh"} => ~Maker /\ More,
         pc' = "requote" => Maker /\ n < MaxReprices,
         ~blind' /\ (pc' \in {"send", "refresh", "requote"} \/ result' = "REJECTED")
             => ~live /\ m = 0
  PROVE  SInv'
<1> DEFINE row == [limit |-> limit, live |-> live, matched |-> m, listed |-> 0]
<1>1. /\ RowsOK' /\ Len(orders) \in Nat /\ Len(orders') = Len(orders) + 1
      /\ \A k \in 1..Len(orders) : orders'[k] = orders[k]
      /\ orders'[Len(orders) + 1] = row
  BY SentRow DEF SInv
<1>2. \A k \in 1..Len(orders') : k \in 1..Len(orders) \/ k = Len(orders) + 1
  BY <1>1
<1>3. ~blind => \A k \in 1..Len(orders) : Gone(orders[k])
  BY DEF SInv, AllGone
<1>4. TypeOK'
  <2>1. n = Len(orders) /\ n' = Len(orders')
    BY <1>1 DEF SInv, TypeOK
  <2>2. n' <= IF Maker' THEN MaxReprices + 1 ELSE MaxAttempts
    BY <1>1, <2>1, StrategyAssumption DEF SInv, AttemptsLeft, Maker
  <2>3. \A k \in 1..n' : orders'[k].matched \in 0..Size /\ orders'[k].listed \in 0..orders'[k].matched
    BY <1>1, <1>2, <2>1, StrategyAssumption DEF SInv, TypeOK
  <2> QED
    BY <2>1, <2>2, <2>3 DEF SInv, TypeOK
<1>5. AttemptsLeft'
  BY <1>1, StrategyAssumption DEF SInv, TypeOK, AttemptsLeft, More, Maker
<1>6. OnlyMakersQuote' /\ RestingExists' /\ NextPriceMandated' /\ CancelledIsDead'
  BY <1>1 DEF SInv, TypeOK, OnlyMakersQuote, RestingExists, NextPriceMandated, CancelledIsDead,
              Mandated, Buys, Maker
<1>7. PriceWithinMandate'
  BY <1>1, <1>2 DEF SInv, PriceWithinMandate, NextPriceMandated, Mandated, Buys, Maker
<1>8. EarlierGone'
  BY <1>1, <1>2, <1>3 DEF EarlierGone, Gone
<1>9. AllGone'
  BY <1>1, <1>2, <1>3 DEF AllGone, Gone
<1> QED
  BY <1>1, <1>4, <1>5, <1>6, <1>7, <1>8, <1>9 DEF SInv

\* execute_fak_retry stops at the first match it can see.
LEMMA FakKeeps ==
  ASSUME SInv,
         \/ \E m \in 1..Size : FakMatches(m)
         \/ FakMisses \/ FakRefused
         \/ \E m \in 0..Size : FakAnswerLost(m)
  PROVE  SInv'
<1>0. blind \in BOOLEAN /\ faults \in 0..MaxFaults /\ 0 \in 0..Size
      /\ (pc = "send" => result = "none")
  BY StrategyAssumption DEF SInv, TypeOK
<1>1. ASSUME NEW m \in 1..Size, FakMatches(m) PROVE SInv'
  <2>1. m \in 0..Size
    OBVIOUS
  <2>2. CASE PaperEdgeLost
    BY <1>0, <1>1, <2>2, SubmitKeeps DEF FakMatches, Returns
  <2>3. CASE ~PaperEdgeLost
    BY <1>0, <1>1, <2>1, <2>3, SubmitKeeps DEF FakMatches, AfterMatch, Returns
  <2> QED
    BY <2>2, <2>3
<1>2. CASE FakMisses
  BY <1>0, <1>2, SubmitKeeps DEF FakMisses, RetriesAsIs, RetriesRefreshed, Returns
<1>3. CASE FakRefused
  <2>1. faults' \in 0..MaxFaults
    BY <1>0, <1>3, StrategyAssumption DEF FakRefused, Fault
  <2> QED
    BY <1>0, <1>3, <2>1, SubmitKeeps DEF FakRefused, RetriesRefreshed, Returns
<1>4. ASSUME NEW m \in 0..Size, FakAnswerLost(m) PROVE SInv'
  <2>1. faults' \in 0..MaxFaults
    BY <1>0, <1>4, StrategyAssumption DEF FakAnswerLost, Fault
  <2>2. blind' \in BOOLEAN /\ (blind => blind') /\ (m > 0 => blind')
    BY <1>4 DEF FakAnswerLost
  <2>3. ~blind' => m = 0
    BY <2>2, StrategyAssumption
  <2> QED
    BY <1>0, <1>4, <2>1, <2>2, <2>3, SubmitKeeps DEF FakAnswerLost, RetriesAsIs, Returns
<1> QED
  BY <1>1, <1>2, <1>3, <1>4

\* execute_maker_limit submits again only after a post-only refusal.
LEMMA MakerKeeps ==
  ASSUME SInv, MakerRests \/ MakerCrosses \/ \E live \in BOOLEAN : MakerFails(live)
  PROVE  SInv'
<1>0. blind \in BOOLEAN /\ faults \in 0..MaxFaults /\ 0 \in 0..Size /\ 0 < Size
      /\ (pc = "send" => result = "none")
  BY StrategyAssumption DEF SInv, TypeOK
<1>1. CASE MakerRests
  BY <1>0, <1>1, SubmitKeeps DEF MakerRests, Returns
<1>2. CASE MakerCrosses
  BY <1>0, <1>2, SubmitKeeps DEF MakerCrosses, Returns
<1>3. ASSUME NEW live \in BOOLEAN, MakerFails(live) PROVE SInv'
  <2>1. faults' \in 0..MaxFaults
    BY <1>0, <1>3, StrategyAssumption DEF MakerFails, Fault
  <2>2. blind' \in BOOLEAN /\ (blind => blind') /\ (live => blind')
    BY <1>3 DEF MakerFails
  <2> QED
    BY <1>0, <1>3, <2>1, <2>2, SubmitKeeps DEF MakerFails, Returns
<1> QED
  BY <1>1, <1>2, <1>3

\* A change of one order at the venue: what the rows keep.
LEMMA RowChanges ==
  ASSUME SInv, NEW k \in 1..Len(orders), NEW row \in OrderRows,
         row.listed <= row.matched, row.live => row.matched < Size, row.limit = orders[k].limit,
         orders' = [orders EXCEPT ![k] = row], UNCHANGED <<plan, n>>
  PROVE  /\ RowsOK' /\ PriceWithinMandate' /\ Len(orders) \in Nat /\ Len(orders') = Len(orders)
         /\ \A j \in 1..Len(orders) : orders'[j] = IF j = k THEN row ELSE orders[j]
         /\ \A j \in 1..n' : /\ orders'[j].matched \in 0..Size
                             /\ orders'[j].listed \in 0..orders'[j].matched
<1>1. /\ orders' \in Seq(OrderRows) /\ Len(orders) \in Nat /\ Len(orders') = Len(orders)
      /\ \A j \in 1..Len(orders) : orders'[j] = IF j = k THEN row ELSE orders[j]
  BY ExceptSeq, LenProperties DEF SInv, RowsOK
<1>2. RowsOK'
  BY <1>1 DEF SInv, RowsOK
<1>3. PriceWithinMandate'
  BY <1>1 DEF SInv, PriceWithinMandate, Buys, Maker
<1>4. row.matched \in 0..Size /\ row.listed \in 0..row.matched
  BY StrategyAssumption DEF OrderRows
<1>5. \A j \in 1..n' : /\ orders'[j].matched \in 0..Size
                       /\ orders'[j].listed \in 0..orders'[j].matched
  BY <1>1, <1>4 DEF SInv, TypeOK
<1> QED
  BY <1>1, <1>2, <1>3, <1>5

\* A cancellation leaves the order dead, or is known to have failed on a live one.
LEMMA CancelKeeps ==
  ASSUME SInv, Cancels
  PROVE  SInv'
<1> DEFINE last == Len(orders)
           row == [Resting EXCEPT !.live = FALSE]
<1>1. UNCHANGED <<plan, book, n, limit, cap, result>> /\ pc = "cancel" /\ pc' = "final"
      /\ last \in 1..Len(orders) /\ last \in Nat /\ orders[last] \in OrderRows
  <2>1. pc = "cancel" /\ last \in Nat /\ last > 0
    BY LenProperties DEF Cancels, SInv, TypeOK, RestingExists, RowsOK
  <2>2. orders[last] \in OrderRows
    BY <2>1, ElementOfSeq DEF SInv, RowsOK
  <2> QED
    BY <2>1, <2>2 DEF Cancels
<1>2. result = "none" /\ faults' \in 0..MaxFaults
  BY <1>1, StrategyAssumption DEF Cancels, Fault, SInv, TypeOK
<1>3. blind' \in BOOLEAN /\ (blind => blind')
  BY DEF Cancels, SInv, TypeOK
<1>4. AttemptsLeft' /\ OnlyMakersQuote' /\ RestingExists' /\ NextPriceMandated' /\ AllGone'
  BY <1>1, <1>2 DEF SInv, AttemptsLeft, OnlyMakersQuote, RestingExists, NextPriceMandated,
                    AllGone, Mandated, Buys, Maker
<1>5. CASE orders' = [orders EXCEPT ![Len(orders)].live = FALSE]
  <2>1. row \in OrderRows /\ ~row.live /\ row.limit = orders[last].limit
        /\ row.listed = orders[last].listed /\ row.matched = orders[last].matched
    BY <1>1 DEF OrderRows, Resting
  <2>2. orders' = [orders EXCEPT ![last] = row]
    BY <1>5 DEF Resting
  <2>3. row.listed <= row.matched
    BY <1>1, <2>1 DEF SInv, RowsOK
  <2>4. /\ RowsOK' /\ PriceWithinMandate' /\ Len(orders') = last
        /\ \A j \in 1..Len(orders) : orders'[j] = IF j = last THEN row ELSE orders[j]
        /\ \A j \in 1..n' : /\ orders'[j].matched \in 0..Size
                            /\ orders'[j].listed \in 0..orders'[j].matched
    BY <1>1, <2>1, <2>2, <2>3, RowChanges
  <2>5. TypeOK'
    BY <1>1, <1>2, <1>3, <2>4 DEF SInv, TypeOK, Maker
  <2>6. EarlierGone'
    BY <1>1, <1>3, <2>4 DEF SInv, EarlierGone
  <2>7. CancelledIsDead'
    BY <1>1, <2>1, <2>4 DEF CancelledIsDead, Resting
  <2> QED
    BY <1>4, <2>4, <2>5, <2>6, <2>7 DEF SInv
<1>6. CASE UNCHANGED orders /\ blind' = (blind \/ Resting.live)
  <2>1. RowsOK' /\ PriceWithinMandate' /\ EarlierGone'
    BY <1>1, <1>3, <1>6 DEF SInv, RowsOK, PriceWithinMandate, EarlierGone, Buys, Maker
  <2>2. TypeOK'
    BY <1>1, <1>2, <1>3, <1>6 DEF SInv, TypeOK, Maker
  <2>3. Resting' = Resting
    BY <1>6 DEF Resting
  <2>4. CancelledIsDead'
    BY <1>6, <2>3 DEF CancelledIsDead
  <2> QED
    BY <1>4, <2>1, <2>2, <2>4 DEF SInv
<1> QED
  BY <1>5, <1>6 DEF Cancels

\* The venue trades a live order: unless something was hidden it is the last
\* one, and the strategy is still watching it or has accepted it.
LEMMA MatchKeeps ==
  ASSUME SInv, NEW k \in 1..Len(orders), Matches(k)
  PROVE  SInv'
<1> DEFINE row == [orders[k] EXCEPT !.matched = @ + 1, !.live = orders[k].matched + 1 < Size]
<1>1. UNCHANGED <<plan, book, pc, n, limit, cap, result, faults, blind>> /\ orders[k].live
      /\ orders[k] \in OrderRows /\ orders[k].matched < Size /\ Len(orders) \in Nat
      /\ orders[k].listed <= orders[k].matched
  BY ElementOfSeq, LenProperties DEF Matches, SInv, RowsOK
<1>2. row \in OrderRows /\ row.listed <= row.matched /\ (row.live => row.matched < Size)
      /\ row.limit = orders[k].limit
  <2>1. /\ row.limit = orders[k].limit /\ row.listed = orders[k].listed
        /\ row.matched = orders[k].matched + 1 /\ row.live = (row.matched < Size)
    BY <1>1 DEF OrderRows
  <2>2. row.listed <= row.matched
    BY <1>1, <2>1, StrategyAssumption DEF OrderRows
  <2>3. orders[k].matched + 1 \in 0..Size
    BY <1>1, StrategyAssumption DEF OrderRows
  <2>4. ASSUME NEW b \in BOOLEAN, NEW m \in 0..Size
        PROVE  [orders[k] EXCEPT !.matched = m, !.live = b] \in OrderRows
    BY <1>1 DEF OrderRows
  <2>5. row \in OrderRows
    <3>1. (orders[k].matched + 1 < Size) \in BOOLEAN
      OBVIOUS
    <3> QED
      BY <2>3, <2>4, <3>1, Zenon
  <2> QED
    BY <2>1, <2>2, <2>5
<1>3. orders' = [orders EXCEPT ![k] = row]
  BY DEF Matches
<1>4. /\ RowsOK' /\ PriceWithinMandate' /\ Len(orders') = Len(orders)
      /\ \A j \in 1..Len(orders) : orders'[j] = IF j = k THEN row ELSE orders[j]
      /\ \A j \in 1..n' : /\ orders'[j].matched \in 0..Size
                          /\ orders'[j].listed \in 0..orders'[j].matched
  BY <1>1, <1>2, <1>3, RowChanges
<1>5. TypeOK'
  BY <1>1, <1>4 DEF SInv, TypeOK, Maker
<1>6. AttemptsLeft' /\ OnlyMakersQuote' /\ RestingExists' /\ NextPriceMandated'
  BY <1>1 DEF SInv, AttemptsLeft, OnlyMakersQuote, RestingExists, NextPriceMandated, Mandated, Buys, Maker
<1>7. ~blind => k = Len(orders)
  BY <1>1 DEF SInv, EarlierGone, Gone
<1>8. EarlierGone'
  BY <1>1, <1>4, <1>7 DEF SInv, EarlierGone
<1>9. AllGone'
  BY <1>1 DEF SInv, AllGone, Gone
<1>10. CancelledIsDead'
  BY <1>1, <1>7 DEF SInv, CancelledIsDead, Resting
<1> QED
  BY <1>4, <1>5, <1>6, <1>8, <1>9, <1>10 DEF SInv

\* Trades appear in the listing.
LEMMA ListKeeps ==
  ASSUME SInv, NEW k \in 1..Len(orders), Lists(k)
  PROVE  SInv'
<1> DEFINE row == [orders[k] EXCEPT !.listed = orders[k].matched]
<1>1. UNCHANGED <<plan, book, pc, n, limit, cap, result, faults, blind>>
      /\ orders[k] \in OrderRows /\ Len(orders) \in Nat
  BY ElementOfSeq, LenProperties DEF Lists, SInv, RowsOK
<1>2. row \in OrderRows /\ row.limit = orders[k].limit /\ row.listed = row.matched
      /\ row.live = orders[k].live /\ row.matched = orders[k].matched
  BY <1>1, StrategyAssumption DEF OrderRows
<1>3. orders' = [orders EXCEPT ![k] = row]
  BY DEF Lists
<1>4. row.listed <= row.matched /\ (row.live => row.matched < Size)
  <2>1. row.listed <= row.matched
    BY <1>2, StrategyAssumption DEF OrderRows
  <2>2. orders[k].live => orders[k].matched < Size
    BY DEF SInv, RowsOK
  <2> QED
    BY <1>2, <2>1, <2>2
<1>5. /\ RowsOK' /\ PriceWithinMandate' /\ Len(orders') = Len(orders)
      /\ \A j \in 1..Len(orders) : orders'[j] = IF j = k THEN row ELSE orders[j]
      /\ \A j \in 1..n' : /\ orders'[j].matched \in 0..Size
                          /\ orders'[j].listed \in 0..orders'[j].matched
  BY <1>1, <1>2, <1>3, <1>4, RowChanges
<1>6. \A j \in 1..Len(orders) : /\ Gone(orders[j]) => Gone(orders'[j])
                                /\ orders'[j].live = orders[j].live
  BY <1>2, <1>5 DEF Gone
<1>7. TypeOK'
  BY <1>1, <1>5 DEF SInv, TypeOK, Maker
<1>8. AttemptsLeft' /\ OnlyMakersQuote' /\ RestingExists' /\ NextPriceMandated'
  BY <1>1 DEF SInv, AttemptsLeft, OnlyMakersQuote, RestingExists, NextPriceMandated, Mandated, Buys, Maker
<1>9. EarlierGone' /\ AllGone'
  BY <1>1, <1>5, <1>6 DEF SInv, EarlierGone, AllGone
<1>10. CancelledIsDead'
  <2>1. pc \in {"final", "status"} => Len(orders) \in 1..Len(orders)
    BY <1>1 DEF SInv, TypeOK, RestingExists
  <2> QED
    BY <1>1, <1>5, <1>6, <2>1 DEF SInv, CancelledIsDead, Resting
<1> QED
  BY <1>5, <1>7, <1>8, <1>9, <1>10 DEF SInv

-----------------------------------------------------------------------------
(* The theorems                                                             *)

\* The inductive invariant holds before the guard.
LEMMA SInvInit == Init => SInv
<1> SUFFICES ASSUME Init PROVE SInv
  OBVIOUS
<1>1. Len(orders) = 0 /\ orders \in Seq(OrderRows)
  BY EmptySeq DEF Init
<1>2. plan.limit \in Nat \ {0} /\ plan.cap \in Nat
  BY PlanTypes DEF Init
<1>3. TypeOK
  <2>1. n <= IF Maker THEN MaxReprices + 1 ELSE MaxAttempts
    BY StrategyAssumption DEF Init
  <2>2. faults \in 0..MaxFaults
    BY StrategyAssumption DEF Init
  <2>3. plan \in Plans /\ book \in Books /\ pc = "guard" /\ result = "none" /\ blind \in BOOLEAN
        /\ n = Len(orders)
    BY <1>1 DEF Init
  <2>4. limit \in Nat \ {0} /\ cap \in Nat
    BY <1>2 DEF Init
  <2>5. \A k \in 1..n : orders[k].matched \in 0..Size /\ orders[k].listed \in 0..orders[k].matched
    BY <1>1, <2>3
  <2> QED
    BY <2>1, <2>2, <2>3, <2>4, <2>5 DEF TypeOK
<1>4. RowsOK /\ AttemptsLeft /\ OnlyMakersQuote /\ RestingExists
  BY <1>1, StrategyAssumption DEF Init, RowsOK, AttemptsLeft, OnlyMakersQuote, RestingExists
<1>5. NextPriceMandated /\ PriceWithinMandate
  BY <1>1, <1>2 DEF Init, NextPriceMandated, Mandated, PriceWithinMandate
<1>6. EarlierGone /\ AllGone /\ CancelledIsDead
  BY <1>1 DEF Init, EarlierGone, AllGone, CancelledIsDead
<1> QED
  BY <1>3, <1>4, <1>5, <1>6 DEF SInv

\* Every step of the strategies, the book and the venue keeps it.
LEMMA SInvNext == SInv /\ [Next]_vars => SInv'
<1> SUFFICES ASSUME SInv, [Next]_vars PROVE SInv'
  OBVIOUS
<1>1. CASE UNCHANGED vars
  BY <1>1 DEF vars, SInv, TypeOK, RowsOK, AttemptsLeft, OnlyMakersQuote, RestingExists,
              NextPriceMandated, Mandated, PriceWithinMandate, EarlierGone, AllGone, Gone,
              CancelledIsDead, Resting, Buys, Maker
<1>2. CASE Strategy
  BY <1>2, GuardKeeps, RefreshKeeps, QuoteKeeps, WaitKeeps, StatusKeeps, FakKeeps, MakerKeeps,
     CancelKeeps
  DEF Strategy
<1> QED
  BY <1>1, <1>2, BookKeeps, MatchKeeps, ListKeeps DEF Next

\* The inductive invariant holds in every reachable state.
LEMMA SInvAlways == Spec => []SInv
BY SInvInit, SInvNext, PTL DEF Spec

\* Whatever the book does between a quote and a submission, and however often a
\* strategy retries or reprices, no entry is sent at a price nobody approved.
THEOREM PricesWithinMandate == Spec => []PriceWithinMandate
<1>1. SInv => PriceWithinMandate
  BY DEF SInv
<1> QED
  BY <1>1, SInvAlways, PTL

\* For any number of attempts and any order size, at most one submission of a
\* request trades or rests, unless an answer was lost.
THEOREM ExecutedOnce == Spec => []NoDoubleFill
<1>1. SInv => NoDoubleFill
  <2> SUFFICES ASSUME SInv, ~blind
               PROVE  Cardinality({k \in 1..Len(orders) : orders[k].live \/ orders[k].matched > 0}) <= 1
    BY DEF NoDoubleFill
  <2> DEFINE S == {k \in 1..Len(orders) : orders[k].live \/ orders[k].matched > 0}
  <2>1. S \subseteq {Len(orders)}
    <3>1. Len(orders) \in Nat
      BY LenProperties DEF SInv, RowsOK
    <3>2. \A k \in 1..Len(orders) : Gone(orders[k]) => k \notin S
      BY DEF Gone
    <3> QED
      BY <3>1, <3>2 DEF SInv, EarlierGone
  <2>2. IsFiniteSet({Len(orders)}) /\ Cardinality({Len(orders)}) = 1
    BY FS_Singleton
  <2> QED
    BY <2>1, <2>2, FS_Subset
<1> QED
  BY <1>1, SInvAlways, PTL

\* A request reported REJECTED or sent back to READY has left nothing at the
\* venue, unless an answer was lost: the partial fill that the status lookup
\* finds late is never reported as a rejection.
THEOREM RejectionsAreClean == Spec => []RejectedIsGone
<1>1. SInv => RejectedIsGone
  BY DEF SInv, AllGone, Gone, RejectedIsGone
<1> QED
  BY <1>1, SInvAlways, PTL
=============================================================================
