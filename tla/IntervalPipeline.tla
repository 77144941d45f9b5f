--------------------------- MODULE IntervalPipeline ---------------------------
(***************************************************************************)
(* The market-data path that works on timestamped trades rather than on   *)
(* IndicatorBase rounds:                                                   *)
(*                                                                         *)
(*   exchange --UDP--> ChixTradeHandler --MSG_TRADE--> DirectionalMovement *)
(*                                                 +-> TrueRange -> EwmaElement *)
(*                                                 +-> TradeAggregator     *)
(*                                                       -> AroonIndicator *)
(*                                                                         *)
(* ChixTradeHandler (chix_trade_handler.{cc,hh}) keeps the CHI-X order    *)
(* book of add, cancel and execute messages and turns each execution of a *)
(* known order into a MsgTrade stamped with the message's own timestamp.  *)
(* DirectionalMovement, TrueRange and EwmaElement keep, per symbol, the    *)
(* current and the previous interval (interval = timestamp / INTERVAL_LEN) *)
(* and publish on every trade.  TradeAggregator sums each symbol's trades *)
(* until its timer flushes them as MsgTimePeriodStats, and              *)
(* AroonIndicatorElement (aroon_indicator.{cc,hh}) keeps, per symbol, the *)
(* closes of the last AroonSpan of those and the ticks since their        *)
(* highest and lowest.                                                     *)
(*                                                                         *)
(* Click pushes a packet through its downstream elements by nested calls  *)
(* on one thread, and runs timers on that thread between packets: so the *)
(* processing of one feed message by every element is one step, and so   *)
(* is one run of the aggregator's timer.                                   *)
(*                                                                         *)
(* The exchange is a ghost: its book holds the orders really live, and it *)
(* only sends cancels and executions that its book allows.  A message may *)
(* be lost on the way (Lossy), and an execution may arrive late, carrying *)
(* a timestamp below the feed's clock (Reorder).  Prices are raw fixedpt  *)
(* values; symbols and order references are model values.                 *)
(***************************************************************************)
EXTENDS Integers, Sequences, SequencesExt, FixedPoint

CONSTANTS
    Refs,         \* order reference numbers
    Syms,         \* symbols
    Prices,       \* raw fixedpt prices, all positive
    Shares,       \* share counts of adds, cancels and executions
    IntervalLen,  \* INTERVAL_LEN of the three interval elements, in ticks
    AlphaCfg,     \* EWMA_ALPHA of EwmaElement
    FBits,        \* fraction bits of fixedpt
    MaxTime,      \* the feed's clock stops here
    MaxTrades,    \* at most this many trades are published
    Lossy,        \* a feed message may be lost
    Reorder,      \* an execution may carry an earlier timestamp
    AroonSpan     \* _aroon_time_span, and the buffer's capacity (30)

ASSUME /\ IntervalLen \in Nat \ {0}
       /\ AroonSpan \in Nat \ {0}
       /\ AlphaCfg \in Nat \ {0}
       /\ \A p \in Prices : p > 0

VARIABLES
    xbook,    \* the exchange's live orders (ghost)
    book,     \* ChixTradeHandler::_orderMap
    now,      \* the feed's clock: the timestamp the next message carries
    hl,       \* DirectionalMovement::_high_low_map
    hlc,      \* TrueRange::_high_low_close_map
    ew,       \* EwmaElement::_ewma_map
    stats,    \* TradeAggregator::_time_stats_map
    dmOut,    \* what DirectionalMovement published in this step
    trOut,    \* what TrueRange published in this step
    ewOut,    \* what EwmaElement published in this step
    statsOut, \* the MsgTimePeriodStats the timer sent in this step
    hist,     \* ghost: every trade published, per symbol, in order
    period,   \* ghost: the trades of each symbol since the last flush
    trHist,   \* ghost: every TrueRange value published, with its interval
    used,     \* ghost: the references the exchange has ever added
    heard,    \* ghost: the references whose add reached the handler
    last,     \* ghost: the trade published in this step
    aroon,    \* AroonIndicatorElement::_indicator_map: symbol -> AroonIndicator
    aroonOn   \* AroonIndicatorElement::_active

vars == <<xbook, book, now, hl, hlc, ew, stats, dmOut, trOut, ewOut, statsOut,
          hist, period, trHist, used, heard, last, aroon, aroonOn>>

NoMsg == [none |-> TRUE]

\* fixedpt_fromint(1) and _ewma_alpha_value = fixedpt_div(1, EWMA_ALPHA).
One   == 2^FBits
Alpha == FxDiv(One, AlphaCfg * One, FBits)

\* The map entries: HighLow, HighLowClose and EwmaCalculator as their
\* constructors leave them (interval -1 for the first two, 0 for EWMA).
NewHighLow  == [prevLow |-> 0, curLow |-> 0, prevHigh |-> 0, curHigh |-> 0,
                curI |-> -1, prevI |-> -1]
NewHighLowClose == [curHigh |-> 0, curLow |-> 0, prevClose |-> 0, curClose |-> 0,
                    curI |-> -1, prevI |-> -1]
NewEwma == [prevV |-> 0, curV |-> 0, prevI |-> 0, curI |-> 0]

Init ==
    /\ xbook = [r \in {} |-> 0]
    /\ book = [r \in {} |-> 0]
    /\ now = 0
    /\ hl = [s \in Syms |-> NewHighLow]
    /\ hlc = [s \in Syms |-> NewHighLowClose]
    /\ ew = [s \in Syms |-> NewEwma]
    /\ stats = [s \in {} |-> 0]
    /\ dmOut = NoMsg /\ trOut = NoMsg /\ ewOut = NoMsg /\ statsOut = {}
    /\ hist = [s \in Syms |-> <<>>]
    /\ period = [s \in Syms |-> <<>>]
    /\ trHist = [s \in Syms |-> <<>>]
    /\ used = {} /\ heard = {} /\ last = NoMsg
    /\ aroon = [s \in {} |-> 0] /\ aroonOn = TRUE

(***************************************************************************)
(* The order book of ChixTradeHandler.                                     *)
(***************************************************************************)

\* do_parse_add_order: _orderMap.insert(ref_num, OrderInfo(...)), which
\* replaces the entry of a reference already in the map.
ParseAddOrder(bk, r, s, p, n) == (r :> [sym |-> s, price |-> p, shares |-> n]) @@ bk

\* The removal test off by one: an order left with one share goes.
ReduceOrderOffByOne(bk, r, n) ==
    IF bk[r].shares - n < 2
    THEN [x \in DOMAIN bk \ {r} |-> bk[x]]
    ELSE [bk EXCEPT ![r].shares = @ - n]

\* The tail of do_parse_cancel_order and do_parse_execute_order: remove
\* the order when fewer than one share would remain, else reduce it.
ReduceOrder(bk, r, n) ==
    IF bk[r].shares - n < 1
    THEN [x \in DOMAIN bk \ {r} |-> bk[x]]
    ELSE [bk EXCEPT ![r].shares = @ - n]

\* do_parse_cancel_order: a cancel of an unknown reference is ignored.
ParseCancelOrder(bk, r, n) == IF r \in DOMAIN bk THEN ReduceOrder(bk, r, n) ELSE bk

(***************************************************************************)
(* The interval elements, per symbol.  The trade's interval is            *)
(* (timestamp - start) / INTERVAL_LEN with the start at 0; a timestamp    *)
(* before the start (interval_num < 0) does not occur here.               *)
(***************************************************************************)
IntervalNum(t) == t \div IntervalLen

\* DirectionalMovement::calculate_dm: +DM and -DM from the two bars.
CalculateDm(prevHigh, prevLow, curHigh, curLow) ==
    LET up   == curHigh - prevHigh
        down == prevLow - curLow
    IN  [plus  |-> IF up > down /\ up > 0 THEN up ELSE 0,
         minus |-> IF down > up /\ down > 0 THEN down ELSE 0]

\* The rollover that forgets to move the current high into the previous bar.
DmUpdateKeepPrevHigh(h, p, i) ==
    IF h.curI = i
    THEN [h EXCEPT !.curHigh = IF p > @ THEN p ELSE @,
                   !.curLow  = IF p < @ THEN p ELSE @]
    ELSE [h EXCEPT !.prevLow = h.curLow, !.prevI = h.curI,
                   !.curI = i, !.curLow = p, !.curHigh = p]

\* The rollover with the two interval numbers assigned the wrong way round.
DmUpdateSwappedI(h, p, i) ==
    IF h.curI = i
    THEN [h EXCEPT !.curHigh = IF p > @ THEN p ELSE @,
                   !.curLow  = IF p < @ THEN p ELSE @]
    ELSE [h EXCEPT !.prevLow = h.curLow, !.prevHigh = h.curHigh, !.prevI = i,
                   !.curI = h.curI, !.curLow = p, !.curHigh = p]

\* DirectionalMovement::push step 4: widen the current interval's bar, or
\* roll it over into the previous one and open a new bar at the price.
DmUpdate(h, p, i) ==
    IF h.curI = i
    THEN [h EXCEPT !.curHigh = IF p > @ THEN p ELSE @,
                   !.curLow  = IF p < @ THEN p ELSE @]
    ELSE [h EXCEPT !.prevLow = h.curLow, !.prevHigh = h.curHigh, !.prevI = h.curI,
                   !.curI = i, !.curLow = p, !.curHigh = p]

\* DirectionalMovement::push step 5: no message while the previous bar is
\* (0, 0); else -DM on port 0 and +DM on port 1.
DmPublish(h) ==
    IF h.prevLow = 0 /\ h.prevHigh = 0 THEN NoMsg
    ELSE CalculateDm(h.prevHigh, h.prevLow, h.curHigh, h.curLow)

\* TrueRange::calculate_true_range: the largest of high - low,
\* high - previous close and previous close - low.
CalculateTrueRange(high, low, prevClose) ==
    LET max1 == IF high - low > high - prevClose THEN high - low ELSE high - prevClose
    IN  IF max1 > prevClose - low THEN max1 ELSE prevClose - low

\* A trade within the current bar that does not move its close.
TrUpdateNoClose(h, p, i) ==
    IF h.curI = i
    THEN [h EXCEPT !.curHigh = IF p > @ THEN p ELSE @,
                   !.curLow  = IF p < @ THEN p ELSE @]
    ELSE [h EXCEPT !.prevI = h.curI, !.prevClose = h.curClose,
                   !.curClose = p, !.curHigh = p, !.curLow = p, !.curI = i]

\* TrueRange::push step 4a: widen the current bar and move its close, or
\* roll the close over into the previous one and open a new bar.
TrUpdate(h, p, i) ==
    IF h.curI = i
    THEN [h EXCEPT !.curHigh = IF p > @ THEN p ELSE @,
                   !.curLow  = IF p < @ THEN p ELSE @,
                   !.curClose = p]
    ELSE [h EXCEPT !.prevI = h.curI, !.prevClose = h.curClose,
                   !.curClose = p, !.curHigh = p, !.curLow = p, !.curI = i]

\* TrueRange::push steps 4b and 5: no message while the previous close
\* is 0, else the true range of the current bar.
TrPublishes(h) == h.prevClose # 0
TrValue(h) == CalculateTrueRange(h.curHigh, h.curLow, h.prevClose)

\* (1 - alpha) * x + alpha * v, with fixedpt_mul, fixedpt_sub, fixedpt_add.
EwmaStep(x, v) == FxMul(One - Alpha, x, FBits) + FxMul(Alpha, v, FBits)

\* EwmaElement::push step 3: recompute the current interval's EWMA from
\* the previous one, or roll the current value over first.  A previous
\* EWMA of 0 stands for "none", and the value is then x itself.
EwmaUpdate(e, x, i) ==
    IF i = e.curI
    THEN [e EXCEPT !.curV = IF e.prevV = 0 THEN x ELSE EwmaStep(x, e.prevV)]
    ELSE [e EXCEPT !.prevI = e.curI, !.prevV = e.curV, !.curI = i,
                   !.curV = IF e.curV = 0 THEN x ELSE EwmaStep(x, e.curV)]

\* TimeStats as its constructor leaves it: reset().
NewTimeStats == [high |-> 0, low |-> 0, open |-> 0, close |-> 0, size |-> 0,
                 first |-> FALSE]

\* The reopening of an entry that keeps the last period's volume.
AggUpdateStatsKeepSize(ts, p, n) ==
    IF ~ts.first
    THEN [high |-> p, low |-> p, open |-> p, close |-> p, size |-> ts.size + n,
          first |-> TRUE]
    ELSE [ts EXCEPT !.high = IF p > @ THEN p ELSE @,
                    !.low  = IF p < @ THEN p ELSE @,
                    !.size = @ + n, !.close = p]

\* TradeAggregator::update_stats: the first trade since the flush resets
\* the entry and opens it at the price; later ones widen it, add the size
\* and move the close.
AggUpdateStats(ts, p, n) ==
    IF ~ts.first
    THEN [high |-> p, low |-> p, open |-> p, close |-> p, size |-> n, first |-> TRUE]
    ELSE [ts EXCEPT !.high = IF p > @ THEN p ELSE @,
                    !.low  = IF p < @ THEN p ELSE @,
                    !.size = @ + n, !.close = p]

\* TradeAggregator::push: get_or_create the symbol's entry, then update it.
GetOrCreateStats(s) == IF s \in DOMAIN stats THEN stats[s] ELSE NewTimeStats

\* A published value m of symbol s.
Tagged(m, s) == [v |-> m, sym |-> s]

(***************************************************************************)
(* A trade of n shares of s at price p, stamped t, as send_msg_trade      *)
(* pushes it: through DirectionalMovement, through TrueRange and, when    *)
(* that publishes, EwmaElement, and through TradeAggregator, which        *)
(* creates the symbol's entry on its first trade (get_or_create).          *)
(***************************************************************************)
PublishTrade(s, p, n, t) ==
    LET i    == IntervalNum(t)
        h1   == DmUpdate(hl[s], p, i)
        c1   == TrUpdate(hlc[s], p, i)
        tr   == TrValue(c1)
        e1   == EwmaUpdate(ew[s], tr, i)
        ts0  == GetOrCreateStats(s)
    IN  /\ hl' = [hl EXCEPT ![s] = h1]
        /\ dmOut' = IF DmPublish(h1) = NoMsg THEN NoMsg ELSE Tagged(DmPublish(h1), s)
        /\ hlc' = [hlc EXCEPT ![s] = c1]
        /\ trOut' = IF TrPublishes(c1) THEN Tagged(tr, s) ELSE NoMsg
        /\ ew' = IF TrPublishes(c1) THEN [ew EXCEPT ![s] = e1] ELSE ew
        /\ ewOut' = IF TrPublishes(c1) THEN Tagged(e1.curV, s) ELSE NoMsg
        /\ stats' = (s :> AggUpdateStats(ts0, p, n)) @@ stats
        /\ last' = [sym |-> s, price |-> p, size |-> n, t |-> t]
        /\ hist' = [hist EXCEPT ![s] = Append(@, [price |-> p, t |-> t])]
        /\ period' = [period EXCEPT ![s] = Append(@, [price |-> p, size |-> n])]
        /\ trHist' = IF TrPublishes(c1)
                     THEN [trHist EXCEPT ![s] = Append(@, [x |-> tr, i |-> i])]
                     ELSE trHist

\* Nothing published in this step.
Quiet ==
    /\ dmOut' = NoMsg /\ trOut' = NoMsg /\ ewOut' = NoMsg /\ statsOut' = {}
    /\ last' = NoMsg
    /\ UNCHANGED <<hl, hlc, ew, stats, hist, period, trHist>>

\* The trades published so far, over all symbols.
TradeCount == MapThenSumSet(LAMBDA s : Len(hist[s]), Syms)

\* The exchange's book after n shares of its order r go: the order leaves
\* the book with its last share.
ExchangeReduce(xb, r, n) ==
    IF xb[r].shares = n THEN [x \in DOMAIN xb \ {r} |-> xb[x]]
    ELSE [xb EXCEPT ![r].shares = @ - n]

(***************************************************************************)
(* Actions.  Each exchange action changes the exchange's book and sends   *)
(* one message; the handler's push() either processes it or, when the    *)
(* feed is lossy, never sees it.                                           *)
(***************************************************************************)

\* The feed's clock advances.
Tick ==
    /\ now < MaxTime
    /\ now' = now + 1
    /\ UNCHANGED <<aroon, aroonOn, xbook, book, used, heard>>
    /\ Quiet

\* The exchange adds order r; push() case 'A'/'a': parse_add_order.
AddOrder(r, s, p, n) ==
    /\ r \notin used
    /\ used' = used \cup {r}
    /\ xbook' = (r :> [sym |-> s, price |-> p, shares |-> n]) @@ xbook
    /\ \/ book' = ParseAddOrder(book, r, s, p, n) /\ heard' = heard \cup {r}
       \/ Lossy /\ UNCHANGED <<book, heard>>
    /\ UNCHANGED <<now, aroon, aroonOn>>
    /\ Quiet

\* The exchange cancels n shares of order r; push() case 'X'/'x'.
CancelOrder(r, n) ==
    /\ r \in DOMAIN xbook
    /\ n <= xbook[r].shares
    /\ xbook' = ExchangeReduce(xbook, r, n)
    /\ \/ book' = ParseCancelOrder(book, r, n)
       \/ Lossy /\ UNCHANGED book
    /\ UNCHANGED <<aroon, aroonOn, now, used, heard>>
    /\ Quiet

\* The exchange executes n shares of order r, stamped t; push() case
\* 'E'/'e': parse_execute_order.  do_parse_execute_order ignores an
\* unknown reference; for a known one it sends the trade at the order's
\* symbol and price with the executed shares, then reduces the order.
ExecuteOrder(r, n, t) ==
    /\ r \in DOMAIN xbook
    /\ n <= xbook[r].shares
    /\ TradeCount < MaxTrades
    /\ xbook' = ExchangeReduce(xbook, r, n)
    /\ UNCHANGED <<aroon, aroonOn, now, used, heard>>
    /\ \/ /\ r \in DOMAIN book
          /\ book' = ReduceOrder(book, r, n)
          /\ PublishTrade(book[r].sym, book[r].price, n, t)
          /\ statsOut' = {}
       \/ /\ r \notin DOMAIN book
          /\ UNCHANGED book
          /\ Quiet
       \/ /\ Lossy
          /\ UNCHANGED book
          /\ Quiet

\* TradeAggregator::run_timer: send every entry's stats (send_stats_msg)
\* and mark it not updated, so the next trade reopens it.
(***************************************************************************)
(* AroonIndicator.  Its up and down values are 100 * (1 - t / span) for   *)
(* t the ticks since the window's highest and lowest close; they are kept *)
(* here as t, and the constructor's 0.0 is t = AroonSpan.                   *)
(***************************************************************************)
NewAroon == [buf |-> <<>>, tMax |-> AroonSpan, tMin |-> AroonSpan]

\* AroonScan with a strict ">" for the high: a tie keeps the older close.
AroonScanStrictHigh(w) ==
    FoldLeft(LAMBDA a, k :
                 IF w[k] > a.max THEN [a EXCEPT !.max = w[k], !.tMax = AroonSpan - k]
                 ELSE IF w[k] <= a.min THEN [a EXCEPT !.min = w[k], !.tMin = AroonSpan - k]
                 ELSE a,
             [max |-> w[1], min |-> w[1], tMax |-> AroonSpan - 1, tMin |-> AroonSpan - 1],
             [k \in 1 .. AroonSpan |-> k])

\* The loop of update_indicator over a full window w, oldest first, with
\* backwardCounter counting down from 29 (AroonSpan - 1): a close at least
\* the highest so far is the new high, else one at most the lowest so far
\* is the new low.
AroonScan(w) ==
    FoldLeft(LAMBDA a, k :
                 IF w[k] >= a.max THEN [a EXCEPT !.max = w[k], !.tMax = AroonSpan - k]
                 ELSE IF w[k] <= a.min THEN [a EXCEPT !.min = w[k], !.tMin = AroonSpan - k]
                 ELSE a,
             [max |-> w[1], min |-> w[1], tMax |-> AroonSpan - 1, tMin |-> AroonSpan - 1],
             [k \in 1 .. AroonSpan |-> k])

\* update_indicator(price): push_back into the circular buffer, which drops
\* its oldest close when full; recompute only once it holds AroonSpan.
UpdateIndicator(a, price) ==
    LET buf == IF Len(a.buf) = AroonSpan THEN Append(Tail(a.buf), price)
               ELSE Append(a.buf, price)
        r   == AroonScan(buf)
    IN  IF Len(buf) < AroonSpan THEN [a EXCEPT !.buf = buf]
        ELSE [buf |-> buf, tMax |-> r.tMax, tMin |-> r.tMin]

\* simple_action for each message of a flush: get_symbol_data finds or
\* inserts the symbol's entry, then update_indicator with the close.  The
\* indicators are then written to the symbol's file, which is not modelled.
AroonSimpleAction(ar, msgs) ==
    LET Syms1 == DOMAIN ar \cup {m.sym : m \in msgs}
        Get(s) == IF s \in DOMAIN ar THEN ar[s] ELSE NewAroon
    IN  [s \in Syms1 |->
            IF \E m \in msgs : m.sym = s
            THEN UpdateIndicator(Get(s), (CHOOSE m \in msgs : m.sym = s).close)
            ELSE ar[s]]

\* Each MsgTimePeriodStats goes on to AroonIndicatorElement::simple_action,
\* which, when active, updates the symbol's indicator with the close.
Flush ==
    /\ statsOut' = {[sym |-> s, open |-> stats[s].open, high |-> stats[s].high,
                     low |-> stats[s].low, close |-> stats[s].close,
                     size |-> stats[s].size] : s \in DOMAIN stats}
    /\ stats' = [s \in DOMAIN stats |-> [stats[s] EXCEPT !.first = FALSE]]
    /\ period' = [s \in Syms |-> <<>>]
    /\ aroon' = IF aroonOn THEN AroonSimpleAction(aroon, statsOut') ELSE aroon
    /\ dmOut' = NoMsg /\ trOut' = NoMsg /\ ewOut' = NoMsg
    /\ last' = NoMsg
    /\ UNCHANGED <<xbook, book, now, hl, hlc, ew, hist, trHist, used, heard, aroonOn>>

\* AroonIndicatorElement's "active" handler is written.
AroonSetActive ==
    /\ aroonOn' = ~aroonOn
    /\ UNCHANGED <<xbook, book, now, used, heard, aroon>>
    /\ Quiet

\* An execution's timestamp: the clock, or with Reorder any earlier one.
Stamps == IF Reorder THEN 0 .. now ELSE {now}

Next ==
    \/ Tick
    \/ \E r \in Refs, s \in Syms, p \in Prices, n \in Shares : AddOrder(r, s, p, n)
    \/ \E r \in Refs, n \in Shares : CancelOrder(r, n)
    \/ \E r \in Refs, n \in Shares, t \in Stamps : ExecuteOrder(r, n, t)
    \/ Flush
    \/ AroonSetActive

Spec == Init /\ [][Next]_vars

(***************************************************************************)
(* Properties.                                                             *)
(***************************************************************************)

TypeOK ==
    /\ now \in 0 .. MaxTime
    /\ DOMAIN book \subseteq Refs /\ DOMAIN xbook \subseteq used
    /\ heard \subseteq used /\ used \subseteq Refs
    /\ DOMAIN stats \subseteq Syms
    /\ \A s \in Syms : hl[s].curI >= hl[s].prevI /\ hlc[s].curI >= hlc[s].prevI
    /\ DOMAIN aroon \subseteq DOMAIN stats /\ aroonOn \in BOOLEAN
    /\ \A s \in DOMAIN aroon : /\ Len(aroon[s].buf) \in 1 .. AroonSpan
                               /\ {aroon[s].tMax, aroon[s].tMin} \subseteq 0 .. AroonSpan

(***************************************************************************)
(* The handler's book never loses or misprices a live order it heard of:  *)
(* over lost adds, cancels and executions, every order the exchange still *)
(* has and whose add reached ChixTradeHandler is in _orderMap with its    *)
(* symbol and price and at least the shares the exchange has left (it     *)
(* can only have missed reductions).  So every trade it sends is at the  *)
(* price of a live order.                                                 *)
(***************************************************************************)
BookTracksExchange ==
    \A r \in DOMAIN xbook \cap heard :
        /\ r \in DOMAIN book
        /\ book[r].sym = xbook[r].sym /\ book[r].price = xbook[r].price
        /\ book[r].shares >= xbook[r].shares

\* The reference bars of a symbol's trade history H: the positions of its
\* trades in interval I, their high, low and close, and the intervals
\* before I that have trades.
InInterval(H, I) == {k \in 1 .. Len(H) : IntervalNum(H[k].t) = I}
BarHigh(H, I)  == Max({H[k].price : k \in InInterval(H, I)})
BarLow(H, I)   == Min({H[k].price : k \in InInterval(H, I)})
BarClose(H, I) == H[Max(InInterval(H, I))].price
Earlier(H, I)  == {IntervalNum(H[k].t) : k \in 1 .. Len(H)} \cap 0 .. (I - 1)

(***************************************************************************)
(* Directional movement over intervals (spec.md section 4.4): on every    *)
(* trade, DirectionalMovement publishes nothing while its symbol has no   *)
(* earlier interval with trades, and otherwise -DM and +DM of the bar of  *)
(* the latest such interval against the bar of the trade's interval, the *)
(* bars taken over every trade the symbol had.  The element keeps only    *)
(* two rolling bars and their interval numbers.                           *)
(***************************************************************************)
DmMatchesBars ==
    last # NoMsg =>
        LET s   == last.sym
            H   == hist[s]
            cur == IntervalNum(last.t)
            P   == Earlier(H, cur)
        IN  dmOut = IF P = {} THEN NoMsg
                    ELSE [v |-> CalculateDm(BarHigh(H, Max(P)), BarLow(H, Max(P)),
                                            BarHigh(H, cur), BarLow(H, cur)),
                          sym |-> s]

\* |a|, the spec's absolute value.
AbsVal(a) == IF a < 0 THEN -a ELSE a

(***************************************************************************)
(* True range over intervals (spec.md section 4.4: max(high - low,        *)
(* |high - prev_close|, |prev_close - low|)): on every trade, TrueRange   *)
(* publishes nothing while its symbol has no earlier interval with        *)
(* trades, and otherwise the true range of the trade's interval so far    *)
(* against the close of the latest earlier interval.                      *)
(***************************************************************************)
TrueRangeMatchesBars ==
    last # NoMsg =>
        LET s   == last.sym
            H   == hist[s]
            cur == IntervalNum(last.t)
            P   == Earlier(H, cur)
            hi  == BarHigh(H, cur)
            lo  == BarLow(H, cur)
        IN  trOut = IF P = {} THEN NoMsg
                    ELSE [v |-> Max({hi - lo, AbsVal(hi - BarClose(H, Max(P))),
                                     AbsVal(BarClose(H, Max(P)) - lo)}),
                          sym |-> s]

\* The stats of a run of trades P: first and last price, extremes, volume.
Summary(s, P) ==
    [sym |-> s, open |-> P[1].price, close |-> P[Len(P)].price,
     high |-> Max({P[k].price : k \in 1 .. Len(P)}),
     low  |-> Min({P[k].price : k \in 1 .. Len(P)}),
     size |-> FoldLeft(LAMBDA a, x : a + x.size, 0, P)]

(***************************************************************************)
(* Each flush of TradeAggregator reports, for every symbol that traded    *)
(* since the previous flush, the open, high, low, close and volume of     *)
(* exactly those trades: nothing of an earlier period leaks into it.      *)
(***************************************************************************)
AggregatorStatsMatchPeriod ==
    [][\A m \in statsOut' : period[m.sym] # <<>> => m = Summary(m.sym, period[m.sym])]_vars

(***************************************************************************)
(* The EWMA recurrence (spec.md section 4.4: v_t = (1 - a) x_t +          *)
(* a v_{t-1}), over intervals: what EwmaElement publishes for a symbol is *)
(* the recurrence run over the last TrueRange value of each interval so  *)
(* far, starting from the first interval's value.                         *)
(***************************************************************************)
EwmaFollowsRecurrence ==
    ewOut # NoMsg =>
        LET H  == trHist[ewOut.sym]
            Is == SetToSortSeq({H[k].i : k \in 1 .. Len(H)}, <)
            X(I) == H[Max({k \in 1 .. Len(H) : H[k].i = I})].x
            V[k \in 1 .. Len(Is)] ==
                IF k = 1 THEN X(Is[1]) ELSE EwmaStep(X(Is[k]), V[k - 1])
        IN  ewOut.v = V[Len(Is)]

(***************************************************************************)
(* AroonIndicator's up and down values count from the right closes: until *)
(* the window holds AroonSpan closes both stay at the constructor's 0.0;  *)
(* after that the up value counts the ticks since the most recent highest *)
(* close of the window (update_indicator takes a new high on ">="), and   *)
(* the down value the ticks since a lowest close.                          *)
(***************************************************************************)
AroonMarksExtremes ==
    \A s \in DOMAIN aroon :
        LET w == aroon[s].buf
        IN  IF Len(w) < AroonSpan
            THEN aroon[s].tMax = AroonSpan /\ aroon[s].tMin = AroonSpan
            ELSE /\ aroon[s].tMax = AroonSpan - SelectLastInSeq(w, LAMBDA x : x = Max(ToSet(w)))
                 /\ aroon[s].tMin \in 0 .. AroonSpan - 1
                 /\ w[AroonSpan - aroon[s].tMin] = Min(ToSet(w))

====
