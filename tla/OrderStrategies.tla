--------------------------- MODULE OrderStrategies ---------------------------
(***************************************************************************)
(* How one execution request is put on the market: the worker's price       *)
(* guard, then FAK_RETRY, GTC_TTL or the post-only GTD limit order, against *)
(* a book that moves between the quote and the submission and a venue whose *)
(* answers may be lost and whose trades are listed late.                    *)
(*                                                                         *)
(* ExecutionLifecycle follows the request's rows; here its single           *)
(* submission is opened up.  Prices are in units of which Tick make one     *)
(* tick; the book quotes whole ticks, a decision's limit need not.          *)
(***************************************************************************)
EXTENDS Integers, Sequences, FiniteSets

CONSTANTS
    Tick, MaxTicks,     \* the book's prices are Tick, 2*Tick, ... MaxTicks*Tick
    Limits,             \* decision-time limit prices
    Caps,               \* max_acceptable_price values; 0 is none
    PolicyMin, PolicyMax, \* the strategy's price bounds (global and role)
    EdgeMax,            \* dearest price that leaves the required net edge
    MaxAttempts,        \* LIVE_FAK_RETRY_MAX_ATTEMPTS
    MaxReprices,        \* LIVE_MAKER_REPRICE_MAX_RETRIES
    Size,               \* shares of the order
    MaxFaults           \* bound: lost answers, failed calls and venue rejections

ASSUME StrategyAssumption ==
    /\ Tick \in Nat \ {0} /\ MaxTicks \in Nat /\ Size \in Nat \ {0}
    /\ Limits \subseteq Nat \ {0} /\ Caps \subseteq Nat
    /\ MaxAttempts \in Nat \ {0} /\ MaxReprices \in Nat /\ MaxFaults \in Nat
    /\ {PolicyMin, PolicyMax, EdgeMax} \subseteq Nat

VARIABLES
    plan,       \* mode, side, gateway, saved prediction or not, cap and limit: fixed
    book,       \* best bid and best ask now; 0 is none
    pc,         \* where the worker is
    n,          \* submissions so far
    limit,      \* the current order's limit_price
    cap,        \* the effective max_acceptable_price
    orders,     \* what was submitted, and what became of it at the venue
    result,     \* what the strategy returned
    faults,     \* bound
    blind       \* history: an answer was lost or hid what the venue had done

vars == <<plan, book, pc, n, limit, cap, orders, result, faults, blind>>

Quotes == {0} \cup {Tick * k : k \in 1..MaxTicks}
Books == {b \in [bid : Quotes, ask : Quotes] : b.bid = 0 \/ b.ask = 0 \/ b.bid < b.ask}

\* A CLOSE sells and has neither a cap nor a prediction.  Entries routed as
\* FAK_RETRY or SMART_MAKER carry the saved prediction if the trade has one;
\* SMART_MAKER then becomes GTC_TTL or, below the venue's minimum, FAK_RETRY.
\* The maker modes are studied on LIVE.
Plans == {p \in [mode : {"FAK_RETRY", "GTC_TTL", "GTD"}, side : {"BUY", "SELL"},
                 gw : {"LIVE", "PAPER"}, policy : BOOLEAN, cap : Caps \cup {0}, limit : Limits] :
            /\ p.side = "SELL" => p.cap = 0
            /\ p.policy => p.side = "BUY" /\ p.mode # "GTD"
            /\ p.mode # "FAK_RETRY" => p.gw = "LIVE"}

Init ==
    /\ plan \in Plans
    /\ book \in Books
    /\ pc = "guard" /\ n = 0
    /\ limit = plan.limit /\ cap = plan.cap
    /\ orders = <<>>
    /\ result = "none"
    /\ faults = 0 /\ blind = FALSE

-----------------------------------------------------------------------------

Buys == plan.side = "BUY"
Maker == plan.mode # "FAK_RETRY"
Fault == faults < MaxFaults /\ faults' = faults + 1

\* The quote client is built inside the entry branch of the worker, so a LIVE
\* exit has none; the PAPER gateway brings its own.
HasQuotes == plan.gw = "PAPER" \/ Buys

\* At price p against the book, the order would trade at once.
Crosses(p) == IF Buys THEN book.ask # 0 /\ p >= book.ask ELSE book.bid # 0 /\ p <= book.bid

\* mutant: the bounds are tested, the net edge is not.
PolicyAccepts_NoEdge(p) == p > 0 /\ p >= PolicyMin /\ p <= PolicyMax

\* evaluate_fak_retry_buy_price.
PolicyAccepts(p) == p > 0 /\ p >= PolicyMin /\ p <= PolicyMax /\ p <= EdgeMax

Returns(r) == pc' = "done" /\ result' = r
Sent(live, matched) ==
    orders' = Append(orders, [limit |-> limit,
                              live |-> live, matched |-> matched, listed |-> 0])

-----------------------------------------------------------------------------
(* The worker's price guard for entries.                                    *)

AboveCap(p) == plan.cap # 0 /\ p > plan.cap

Guarded == IF plan.gw = "LIVE" THEN book.ask ELSE plan.limit

\* execute_maker_limit asks for a quote before its first submission.
Submits == pc' = IF Maker /\ HasQuotes THEN "quote" ELSE "send"

\* An exit is not guarded.  Without a quote the request goes back to READY.  An
\* ask above the cap is taken over as the limit if it still leaves the edge.
WorkerGuards ==
    /\ pc = "guard"
    /\ \/ /\ Buys /\ Guarded = 0
          /\ Returns("READY")
          /\ UNCHANGED <<limit, cap>>
       \/ /\ Buys /\ Guarded # 0 /\ AboveCap(Guarded)
          /\ ~(plan.policy /\ PolicyAccepts(Guarded))
          /\ Returns("REJECTED")
          /\ UNCHANGED <<limit, cap>>
       \/ /\ Buys /\ Guarded # 0 /\ AboveCap(Guarded)
          /\ plan.policy /\ PolicyAccepts(Guarded)
          /\ limit' = Guarded /\ cap' = PolicyMax
          /\ Submits /\ UNCHANGED result
       \/ /\ ~Buys \/ (Guarded # 0 /\ ~AboveCap(Guarded))
          /\ Submits
          /\ UNCHANGED <<limit, cap, result>>
    /\ UNCHANGED <<plan, book, n, orders, faults, blind>>

QuoteUnavailable ==
    /\ pc = "guard" /\ Buys /\ plan.gw = "LIVE" /\ Fault
    /\ Returns("READY")
    /\ UNCHANGED <<plan, book, n, limit, cap, orders, blind>>

-----------------------------------------------------------------------------
(* execute_fak_retry.                                                       *)

More == n + 1 < MaxAttempts

\* After an exception the loop sleeps and submits the same order again ...
RetriesAsIs ==
    IF More THEN pc' = "send" /\ UNCHANGED result ELSE Returns("REJECTED")
\* ... after a refusing answer it asks for a new quote first.
RetriesRefreshed ==
    IF More THEN pc' = "refresh" /\ UNCHANGED result ELSE Returns("REJECTED")

\* mutant: a partial fill sends the whole order again.
AfterMatch_Again(m) ==
    IF m = Size \/ ~More THEN Returns("ACCEPTED")
    ELSE pc' = "send" /\ UNCHANGED result

\* A FAK order that matched anything is accepted.
AfterMatch(m) == Returns("ACCEPTED")

\* A PAPER fill is undone when the price it was simulated at has no edge.
PaperEdgeLost == plan.gw = "PAPER" /\ plan.policy /\ ~PolicyAccepts(book.ask)

FakMatches(m) ==
    /\ pc = "send" /\ ~Maker /\ Crosses(limit)
    /\ n' = n + 1
    /\ \/ /\ PaperEdgeLost
          /\ Sent(FALSE, 0)
          /\ Returns("REJECTED")
       \/ /\ ~PaperEdgeLost /\ Sent(FALSE, m)
          /\ AfterMatch(m)
    /\ UNCHANGED <<plan, book, limit, cap, faults, blind>>

\* LIVE reports an unmatched FAK order as an exception, PAPER as an answer.
FakMisses ==
    /\ pc = "send" /\ ~Maker /\ ~Crosses(limit)
    /\ n' = n + 1
    /\ Sent(FALSE, 0)
    /\ IF plan.gw = "LIVE" THEN RetriesAsIs ELSE RetriesRefreshed
    /\ UNCHANGED <<plan, book, limit, cap, faults, blind>>

\* The venue answers not ok.
FakRefused ==
    /\ pc = "send" /\ ~Maker /\ Fault
    /\ n' = n + 1
    /\ Sent(FALSE, 0)
    /\ RetriesRefreshed
    /\ UNCHANGED <<plan, book, limit, cap, blind>>

\* The connection breaks: the order may have traded.  Every exception is
\* caught alike.
FakAnswerLost(m) ==
    /\ pc = "send" /\ ~Maker /\ plan.gw = "LIVE" /\ Fault
    /\ m > 0 => Crosses(limit)
    /\ n' = n + 1
    /\ Sent(FALSE, m)
    /\ blind' = (blind \/ m > 0)
    /\ RetriesAsIs
    /\ UNCHANGED <<plan, book, limit, cap>>

\* The prices the retry reads; none when the call fails or there is no client.
Refreshes(prices) ==
    LET new == IF Buys THEN prices.ask ELSE prices.bid IN
    /\ pc = "refresh"
    /\ \/ \* an entry is never repeated without a revalidated price
          /\ Buys /\ ~(plan.policy /\ new # 0 /\ PolicyAccepts(new))
          /\ Returns("REJECTED")
          /\ UNCHANGED <<limit, cap>>
       \/ /\ Buys /\ plan.policy /\ new # 0 /\ PolicyAccepts(new)
          /\ limit' = new /\ cap' = PolicyMax
          /\ pc' = "send" /\ UNCHANGED result
       \/ /\ ~Buys
          /\ limit' = IF new # 0 THEN new ELSE limit
          /\ pc' = "send" /\ UNCHANGED <<cap, result>>
    /\ UNCHANGED <<plan, book, n, orders, blind>>

NoPrices == [bid |-> 0, ask |-> 0]

FakRefreshes ==
    \/ HasQuotes /\ Refreshes(book) /\ UNCHANGED faults
    \/ HasQuotes /\ Fault /\ Refreshes(NoPrices)
    \/ ~HasQuotes /\ Refreshes(NoPrices) /\ UNCHANGED faults

-----------------------------------------------------------------------------
(* execute_maker_limit.                                                     *)

\* _round_maker_price: down for a BUY, up for a SELL.
RoundMaker(p) == IF Buys THEN (p \div Tick) * Tick ELSE ((p + Tick - 1) \div Tick) * Tick

Candidate(q) == IF Buys THEN (IF limit < q.bid THEN limit ELSE q.bid)
                ELSE (IF limit > q.ask THEN limit ELSE q.ask)

\* calculate_maker_price; 0 is MAKER_NOT_POSTABLE or PRICE_MOVED.
MakerPrice(q) ==
    LET p == RoundMaker(Candidate(q)) IN
    IF /\ q.bid # 0 /\ q.ask # 0 /\ p > 0
       /\ IF Buys THEN p < q.ask /\ ~(cap # 0 /\ p > cap) ELSE p > q.bid
    THEN p ELSE 0

\* The first submission keeps its limit when no quote can be had; a repricing
\* without one gives up.
MakerQuotes ==
    /\ pc \in {"quote", "requote"}
    /\ \/ /\ MakerPrice(book) # 0
          /\ limit' = MakerPrice(book)
          /\ pc' = "send" /\ UNCHANGED <<result, faults>>
       \/ /\ MakerPrice(book) = 0
          /\ Returns("REJECTED")
          /\ UNCHANGED <<limit, faults>>
       \/ /\ Fault
          /\ IF pc = "quote" THEN pc' = "send" /\ UNCHANGED result ELSE Returns("REJECTED")
          /\ UNCHANGED limit
    /\ UNCHANGED <<plan, book, n, cap, orders, blind>>

MakerRests ==
    /\ pc = "send" /\ Maker /\ ~Crosses(limit)
    /\ n' = n + 1
    /\ Sent(TRUE, 0)
    /\ IF plan.mode = "GTC_TTL" THEN pc' = "wait" /\ UNCHANGED result ELSE Returns("ACCEPTED")
    /\ UNCHANGED <<plan, book, limit, cap, faults, blind>>

\* A post-only order that crosses is repriced, if there is a quote client.
MakerCrosses ==
    /\ pc = "send" /\ Maker /\ Crosses(limit)
    /\ n' = n + 1
    /\ Sent(FALSE, 0)
    /\ IF HasQuotes /\ n < MaxReprices THEN pc' = "requote" /\ UNCHANGED result
       ELSE Returns("REJECTED")
    /\ UNCHANGED <<plan, book, limit, cap, faults, blind>>

\* Any other refusal or exception ends the attempt; the order may be resting.
MakerFails(live) ==
    /\ pc = "send" /\ Maker /\ Fault
    /\ live => ~Crosses(limit)
    /\ n' = n + 1
    /\ Sent(live, 0)
    /\ blind' = (blind \/ live)
    /\ Returns("REJECTED")
    /\ UNCHANGED <<plan, book, limit, cap>>

-----------------------------------------------------------------------------
(* execute_gtc_ttl, once the order rests.                                   *)

Resting == orders[Len(orders)]

\* The first listed trade ends the wait; what is left of the order stays.
WaitSeesFill ==
    /\ pc = "wait" /\ Resting.listed > 0
    /\ Returns("ACCEPTED")
    /\ UNCHANGED <<plan, book, n, limit, cap, orders, faults, blind>>

\* The TTL is over, or a lookup failed.
WaitEnds ==
    /\ pc = "wait" /\ Resting.listed = 0
    /\ pc' = "cancel"
    /\ UNCHANGED <<plan, book, n, limit, cap, orders, result, faults, blind>>

\* A failed cancellation is reported by a return value nobody reads.
Cancels ==
    /\ pc = "cancel"
    /\ \/ orders' = [orders EXCEPT ![Len(orders)].live = FALSE] /\ UNCHANGED <<faults, blind>>
       \/ Fault /\ UNCHANGED orders /\ blind' = (blind \/ Resting.live)
    /\ pc' = "final"
    /\ UNCHANGED <<plan, book, n, limit, cap, result>>

FinalFills ==
    /\ pc = "final"
    /\ \/ /\ Resting.listed > 0
          /\ Returns("ACCEPTED") /\ UNCHANGED <<faults, blind>>
       \/ /\ Resting.listed = 0
          /\ pc' = "status" /\ UNCHANGED <<result, faults, blind>>
       \/ /\ Fault
          /\ pc' = "status" /\ UNCHANGED <<result, blind>>
    /\ UNCHANGED <<plan, book, n, limit, cap, orders>>

\* get_order's status is MATCHED for an order that traded in full; one that was
\* cancelled half-way is reported as partly matched or as cancelled.
Statuses(o) == CASE o.matched = Size -> {"MATCHED"}
                 [] o.matched \in 1..(Size - 1) -> {"PARTIALLY_MATCHED", "CANCELED"}
                 [] OTHER -> {"LIVE", "CANCELED"}

\* mutant: the timeout does not ask for the order's status.
MatchedPending_Ignored(s) == FALSE

MatchedPending(s) == s \in {"MATCHED", "PARTIALLY_MATCHED", "PARTIALLY_FILLED"}

FinalStatus ==
    /\ pc = "status"
    /\ \/ /\ \E s \in Statuses(Resting) :
               /\ Returns(IF MatchedPending(s) THEN "ACCEPTED" ELSE "REJECTED")
               /\ blind' = (blind \/ (s = "CANCELED" /\ Resting.matched > 0))
          /\ UNCHANGED faults
       \/ /\ Fault
          /\ Returns("REJECTED")
          /\ blind' = (blind \/ Resting.matched > 0)
    /\ UNCHANGED <<plan, book, n, limit, cap, orders>>

-----------------------------------------------------------------------------
(* The venue.                                                               *)

BookMoves ==
    /\ pc # "done"
    /\ book' \in Books \ {book}
    /\ UNCHANGED <<plan, pc, n, limit, cap, orders, result, faults, blind>>

Matches(k) ==
    /\ orders[k].live
    /\ orders' = [orders EXCEPT ![k].matched = @ + 1, ![k].live = orders[k].matched + 1 < Size]
    /\ UNCHANGED <<plan, book, pc, n, limit, cap, result, faults, blind>>

Lists(k) ==
    /\ orders[k].listed < orders[k].matched
    /\ orders' = [orders EXCEPT ![k].listed = orders[k].matched]
    /\ UNCHANGED <<plan, book, pc, n, limit, cap, result, faults, blind>>

-----------------------------------------------------------------------------

Strategy ==
    \/ WorkerGuards \/ QuoteUnavailable
    \/ \E m \in 1..Size : FakMatches(m)
    \/ FakMisses \/ FakRefused \/ FakRefreshes
    \/ \E m \in 0..Size : FakAnswerLost(m)
    \/ MakerQuotes \/ MakerRests \/ MakerCrosses
    \/ \E live \in BOOLEAN : MakerFails(live)
    \/ WaitSeesFill \/ WaitEnds \/ Cancels \/ FinalFills \/ FinalStatus

Next ==
    \/ Strategy
    \/ BookMoves
    \/ \E k \in 1..Len(orders) : Matches(k) \/ Lists(k)

Spec == Init /\ [][Next]_vars

-----------------------------------------------------------------------------
(* Properties.                                                              *)

TypeOK ==
    /\ plan \in Plans /\ book \in Books
    /\ pc \in {"guard", "quote", "requote", "send", "refresh", "wait", "cancel", "final", "status", "done"}
    /\ result \in {"none", "READY", "REJECTED", "ACCEPTED"} /\ (result = "none" <=> pc # "done")
    /\ limit \in Nat \ {0} /\ cap \in Nat
    /\ n = Len(orders) /\ n <= IF Maker THEN MaxReprices + 1 ELSE MaxAttempts
    /\ \A k \in 1..n : orders[k].matched \in 0..Size /\ orders[k].listed \in 0..orders[k].matched
    /\ faults \in 0..MaxFaults /\ blind \in BOOLEAN

\* No entry is sent at a price nobody approved: every BUY is at most the
\* decision's own limit, or the saved prediction found that this price, or for a
\* maker order one at least as dear, leaves the required edge within the
\* strategy's bounds, on whatever path the raised limit, the retries, the
\* refreshed quotes and the repricings took.  (A maker order may rest below the
\* policy's least price: its repricing looks at the cap only.)
PriceWithinMandate ==
    Buys => \A k \in 1..Len(orders) :
              \/ orders[k].limit <= plan.limit
              \/ /\ plan.policy
                 /\ orders[k].limit <= PolicyMax /\ orders[k].limit <= EdgeMax
                 /\ ~Maker => orders[k].limit >= PolicyMin

\* The request is executed once: unless an answer was lost, at most one of the
\* submissions trades or rests.
NoDoubleFill ==
    ~blind => Cardinality({k \in 1..Len(orders) : orders[k].live \/ orders[k].matched > 0}) <= 1

\* A rejected request has nothing at the venue: the worker will never look
\* again.  What a GTC order traded before its cancellation is found even when
\* the trades are listed later.
RejectedIsGone ==
    (result \in {"REJECTED", "READY"} /\ ~blind)
        => \A k \in 1..Len(orders) : ~orders[k].live /\ orders[k].matched = 0
=============================================================================
