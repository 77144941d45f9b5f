----------------------------- MODULE PriceParse ------------------------------
(***************************************************************************)
(* The parsers of the feed handlers, as operators on what they read,      *)
(* checked against the message the input spells.                          *)
(*                                                                         *)
(* populate_msg_trade (trade_processor.cc, and its copy in the hand-coded *)
(* engine's msg_parsing.h) splits the text after the 8-byte timestamp at  *)
(* '|': the third field is the symbol, the fourth the price and the rest  *)
(* after the fourth '|' the size.  Its input here is the text as the      *)
(* sequence of its '|'-separated fields, each a sequence of characters.   *)
(*                                                                         *)
(* TradeProcessor (trade_processor.cc) reads a '|'-delimited text price   *)
(* such as "12.34": parse_price_as_fixedpt looks for the '.', converts the *)
(* whole and fractional digits with strtol and adds fr / 10^len.  Its     *)
(* field is a sequence of one-character strings.                          *)
(*                                                                         *)
(* The hand-coded engine's populate_msg_trade (src/hand_coded/            *)
(* msg_parsing.h) reads the same text field with its own copy of          *)
(* parse_price_as_fixedpt.                                                 *)
(*                                                                         *)
(* ChixTradeHandler (chix_trade_handler_utils.hh) reads the fixed-width   *)
(* CHI-X price: PriceWholeLen digits, then PriceLen - PriceWholeLen        *)
(* decimal digits (4 in the short 'A' message, 7 in the long 'a' one).     *)
(* strtol of a zero-padded digit field is the number it spells, so that   *)
(* field is the pair of numbers [whole, dec] and the count of its decimal *)
(* digits.                                                                 *)
(*                                                                         *)
(* fixedpt_fromint(x) is x * 2^FBits; fixedpt_div is FxDiv of FixedPoint. *)
(***************************************************************************)
EXTENDS Integers, Sequences, SequencesExt, FixedPoint

CONSTANTS
    FBits,        \* fraction bits of fixedpt
    SymbolLen,    \* ORDER_SYMBOL_LEN
    TpPackets,    \* the trade texts checked, as sequences of fields
    ChixFields,   \* the CHI-X price fields checked: [whole, dec, decLen]
    SymbolsRouting, \* TradeProcessor's SYMBOLS_ROUTING: <<symbol, port>> pairs
    SplitConf,    \* SourceSplit's configuration: field name -> port
    MaxTrades,    \* bound on the texts TradeProcessor receives
    MaxTicks      \* bound on the timer's expiries

VARIABLES
    field,    \* what is checked: [parser |-> "tp"] runs TradeProcessor; an
              \* hc or chix field is one text under parse
    active,   \* TradeProcessor::_active
    stats,    \* _time_stats_map: symbol -> TimeStats
    exact,    \* the TimeStats of the same trades, each read exactly
    timerOn,  \* the timer is scheduled (first_symbol has been cleared)
    out,      \* the MsgValues the SourceSplits sent in the last step
    trades,   \* texts received so far
    ticks     \* timer expiries so far

Digits == {"0", "1", "2", "3", "4", "5", "6", "7", "8", "9"}
DigitVal == "0" :> 0 @@ "1" :> 1 @@ "2" :> 2 @@ "3" :> 3 @@ "4" :> 4
         @@ "5" :> 5 @@ "6" :> 6 @@ "7" :> 7 @@ "8" :> 8 @@ "9" :> 9

\* strtol(buffer, NULL, 10) on a buffer of digits: the value of its leading
\* digits, 0 when there are none (no field here holds spaces or a sign).
RECURSIVE StrTolFrom(_, _, _)
StrTolFrom(s, i, acc) ==
    IF i > Len(s) \/ s[i] \notin Digits THEN acc
    ELSE StrTolFrom(s, i + 1, 10 * acc + DigitVal[s[i]])
StrTol(s) == StrTolFrom(s, 1, 0)

\* denominator_for_len: 10^len for a fraction of 1 to 6 digits.  For any
\* other length the switch falls off the end and the result is undefined.
DenominatorForLen(len) == 10^len

(***************************************************************************)
(* parse_price_as_fixedpt(str, strlen).  d is the 1-based position of the *)
(* first '.', 0 when there is none.  The code's second branch tests       *)
(* dot_ptr == str + 1, a dot at C index 1 (position 2 here), and there    *)
(* computes fixedpt_add(price, ...) without storing it, so it returns the *)
(* price it started with, 0.                                               *)
(***************************************************************************)
TpParsePrice(s) ==
    LET d    == SelectInSeq(s, LAMBDA c : c = ".")
        frac == SubSeq(s, d + 1, Len(s))
    IN  CASE d = 0 -> StrTol(s) * 2^FBits
          [] d = 2 -> 0
          [] OTHER -> StrTol(SubSeq(s, 1, d - 1)) * 2^FBits
                        + FxDiv(StrTol(frac) * 2^FBits,
                                DenominatorForLen(Len(frac)) * 2^FBits, FBits)

\* parse_price_as_fixedpt of msg_parsing.h: the same code as TradeProcessor's,
\* its denominator_for_len included, line for line.
HcParsePrice(s) == TpParsePrice(s)

(***************************************************************************)
(* parse_add_order_price_as_fixedpt: whole_part_int and decimal_part_int  *)
(* are strtol of the two fields (parse_add_order_price), and the decimal  *)
(* part is divided by fixedpt_fromint(10000) whatever its length.         *)
(***************************************************************************)
ChixParsePrice(f) ==
    f.whole * 2^FBits + FxDiv(f.dec * 2^FBits, 10000 * 2^FBits, FBits)

\* The value a decimal number of whole part w and k-digit fraction f
\* spells, truncated to fixedpt: (w + f / 10^k) * 2^FBits rounded down.
Exact(w, f, k) == ((w * 10^k + f) * 2^FBits) \div 10^k

\* The value the text field spells.
TpExact(s) ==
    LET d == SelectInSeq(s, LAMBDA c : c = ".")
    IN  IF d = 0 THEN Exact(StrTol(s), 0, 0)
        ELSE Exact(StrTol(SubSeq(s, 1, d - 1)), StrTol(SubSeq(s, d + 1, Len(s))),
                   Len(s) - d)

(***************************************************************************)
(* populate_msg_trade(msg, p) as a record: whether it returns true, and   *)
(* the symbol, price and size it stored.  fs is the text after the        *)
(* timestamp, split at '|'; the loop meets bar k at the end of fs[k].  In *)
(* the loop's order: the third bar rejects a symbol longer than           *)
(* ORDER_SYMBOL_LEN - 1; the fourth parses the price and rejects a bar    *)
(* that is the last character, else reads the size with strtol, which     *)
(* stops at the next '|'; a fifth bar rejects; after the loop no bar at   *)
(* all rejects.  What a field a bar never closed would hold stays at the  *)
(* MsgTrade's defaults: no symbol, price 0, size 0.                       *)
(***************************************************************************)
Rejected == [ok |-> FALSE, symbol |-> <<>>, price |-> 0, size |-> 0]

TpPopulateMsgTrade(fs) ==
    LET bars == Len(fs) - 1
    IN  CASE bars >= 3 /\ Len(fs[3]) > SymbolLen - 1 -> Rejected
          [] bars = 4 /\ fs[5] = <<>>                -> Rejected
          [] bars >= 5                                -> Rejected
          [] bars < 1                                 -> Rejected
          [] OTHER ->
                [ok     |-> TRUE,
                 symbol |-> IF bars >= 3 THEN fs[3] ELSE <<>>,
                 price  |-> IF bars >= 4 THEN TpParsePrice(fs[4]) ELSE 0,
                 size   |-> IF bars >= 4 THEN StrTol(fs[5]) ELSE 0]

\* populate_msg_trade of msg_parsing.h: the same loop, line for line, over
\* the text after its 8-byte timestamp; its copy of parse_price_as_fixedpt
\* is HcParsePrice, the same operator.
HcPopulateMsgTrade(fs) == TpPopulateMsgTrade(fs)

\* The text spells a trade: the two header fields, a symbol that fits,
\* a price and a size, and no more.
SpellsTrade(fs) ==
    /\ Len(fs) = 5
    /\ Len(fs[3]) \in 1 .. SymbolLen - 1
    /\ fs[4] # <<>> /\ fs[5] # <<>>

(***************************************************************************)
(* TradeProcessor's push path behind the parser.  configure fills the     *)
(* subscriptions from SYMBOLS_ROUTING, symbol and port pairs, and returns *)
(* -1, so the router never starts, when a symbol is listed twice.          *)
(***************************************************************************)
TpConfigure(routing) ==
    FoldLeft(LAMBDA acc, r :
                 IF r[1] \in DOMAIN acc.subs THEN [acc EXCEPT !.ok = FALSE]
                 ELSE [acc EXCEPT !.subs = (r[1] :> r[2]) @@ acc.subs],
             [ok |-> TRUE, subs |-> [s \in {} |-> 0]], routing)

Subscriptions == TpConfigure(SymbolsRouting).subs

\* TimeStats(): no trade yet, every price 0.
NoStats == [high |-> 0, low |-> 0, open |-> 0, close |-> 0, size |-> 0, first |-> FALSE]

\* TimeStats::rollover: open takes the close, size restarts, high and low
\* stay, and the next trade starts the bar afresh.
Rollover(ts) == [ts EXCEPT !.open = ts.close, !.size = 0, !.first = FALSE]

\* update_stats(time_stats, msg_trade): the new stats and whether any of
\* high, low or close moved (rc); the first trade of an interval sets all
\* three and always reports a change.
UpdateStats(ts, m) ==
    IF ~ts.first
    THEN [stats |-> [ts EXCEPT !.high = m.price, !.low = m.price, !.close = m.price,
                               !.size = @ + m.size, !.first = TRUE],
          rc    |-> TRUE]
    ELSE [stats |-> [ts EXCEPT !.high = IF m.price > @ THEN m.price ELSE @,
                               !.low  = IF m.price < @ THEN m.price ELSE @,
                               !.size = @ + m.size, !.close = m.price],
          rc    |-> m.price > ts.high \/ m.price < ts.low \/ m.price # ts.close]

\* The MsgSource send_update_msg writes over the trade packet: _volume is
\* never set and keeps the constructor's 0.  The packet, which still holds
\* its MAC, IP and UDP headers, is never shorter than a MsgSource, so the
\* "packet too small" branch is not taken.
TpSendUpdateMsg(ts, isInit) ==
    [type |-> IF isInit THEN "init_source" ELSE "update_source",
     high |-> ts.high, low |-> ts.low, open |-> ts.open, close |-> ts.close, volume |-> 0]

\* The MsgSource send_add_msg puts in a new packet.
TpSendAddMsg(ts) ==
    [type |-> "add_source",
     high |-> ts.high, low |-> ts.low, open |-> ts.open, close |-> ts.close,
     volume |-> ts.size]

(***************************************************************************)
(* SourceSplit: its ports start at -1 and configure reads each of OPEN,   *)
(* HIGH, CLOSE, LOW and VOLUME it is given.  push sends one MsgValue per  *)
(* configured port, of the type the MsgSource type maps to (sendMsg), and  *)
(* discards a packet of any other type.  Each TradeProcessor output port   *)
(* feeds a SourceSplit of this configuration; sym names the port's symbol.*)
(***************************************************************************)
SplitFields == {"open", "high", "close", "low", "volume"}
SplitConfigure(conf) == [f \in SplitFields |-> IF f \in DOMAIN conf THEN conf[f] ELSE -1]
SplitType == "add_source" :> "add" @@ "update_source" :> "update" @@ "init_source" :> "init"

SourceSplitPush(sym, msg) ==
    LET ports == SplitConfigure(SplitConf)
    IN  IF msg.type \notin DOMAIN SplitType THEN {}
        ELSE {[sym |-> sym, port |-> ports[f], field |-> f, value |-> msg[f],
               type |-> SplitType[msg.type]] : f \in {g \in SplitFields : ports[g] > -1}}

\* The trade the text spells, read exactly.
ExactTrade(fs) == [symbol |-> fs[3], price |-> TpExact(fs[4]), size |-> StrTol(fs[5])]

StatsOf(st, s) == IF s \in DOMAIN st THEN st[s] ELSE NoStats

TpVars == <<active, stats, exact, timerOn, out, trades, ticks>>

Init ==
    /\ field \in {[parser |-> "tp"]}
                 \cup [parser : {"hc"}, packet : TpPackets]
                 \cup [parser : {"chix"}, chix : ChixFields]
    /\ TpConfigure(SymbolsRouting).ok
    /\ active = TRUE
    /\ stats = [s \in {} |-> NoStats]
    /\ exact = [s \in {} |-> NoStats]
    /\ timerOn = FALSE
    /\ out = {}
    /\ trades = 0
    /\ ticks = 0

(***************************************************************************)
(* push(port, p) with _active set.  A text populate_msg_trade rejects, or *)
(* of a symbol with no subscription, is discarded.  Otherwise the first   *)
(* such trade starts the timer (the static first_symbol), get_or_create   *)
(* finds or adds the symbol's TimeStats, and when update_stats reports a  *)
(* change send_update_msg sends INIT for a TimeStats just added, UPDATE   *)
(* otherwise.  exact follows the same bars over the trades the texts      *)
(* spell, read exactly.                                                   *)
(***************************************************************************)
TpPush ==
    /\ field.parser = "tp" /\ active /\ trades < MaxTrades
    /\ \E fs \in TpPackets :
        LET m     == TpPopulateMsgTrade(fs)
            sym   == m.symbol
            added == sym \notin DOMAIN stats
            u     == UpdateStats(StatsOf(stats, sym), m)
        IN  /\ exact' = IF SpellsTrade(fs) /\ fs[3] \in DOMAIN Subscriptions
                        THEN (fs[3] :> UpdateStats(StatsOf(exact, fs[3]), ExactTrade(fs)).stats)
                               @@ exact
                        ELSE exact
            /\ IF m.ok /\ sym \in DOMAIN Subscriptions
               THEN /\ timerOn' = TRUE
                    /\ stats' = (sym :> u.stats) @@ stats
                    /\ out' = IF u.rc THEN SourceSplitPush(sym, TpSendUpdateMsg(u.stats, added))
                              ELSE {}
               ELSE /\ out' = {}
                    /\ UNCHANGED <<stats, timerOn>>
    /\ trades' = trades + 1
    /\ UNCHANGED <<field, active, ticks>>

\* push with _active cleared forwards the text unchanged, and SourceSplit
\* discards it: its type is not a MsgSource type.
TpPushInactive ==
    /\ field.parser = "tp" /\ ~active /\ trades < MaxTrades
    /\ out' = SourceSplitPush(<<>>, [type |-> "trade"])
    /\ trades' = trades + 1
    /\ UNCHANGED <<field, active, stats, exact, timerOn, ticks>>

\* A write to the "active" handler.
SetActive ==
    /\ field.parser = "tp"
    /\ active' = ~active
    /\ out' = {}
    /\ UNCHANGED <<field, stats, exact, timerOn, trades, ticks>>

(***************************************************************************)
(* run_timer: an ADD for every symbol with TimeStats, each rolled over     *)
(* after its send.  Every symbol in _time_stats_map has a subscription, so *)
(* the "could not find subscription" branch is never taken.                *)
(***************************************************************************)
TpRunTimer ==
    /\ field.parser = "tp" /\ timerOn /\ ticks < MaxTicks
    /\ out' = UNION {SourceSplitPush(s, TpSendAddMsg(stats[s])) : s \in DOMAIN stats}
    /\ stats' = [s \in DOMAIN stats |-> Rollover(stats[s])]
    /\ exact' = [s \in DOMAIN exact |-> Rollover(exact[s])]
    /\ ticks' = ticks + 1
    /\ UNCHANGED <<field, active, timerOn, trades>>

\* The single-text parsers are checked on the state they start in.
Parsed ==
    /\ field.parser \in {"hc", "chix"}
    /\ UNCHANGED <<field>> /\ UNCHANGED TpVars

Next == TpPush \/ TpPushInactive \/ SetActive \/ TpRunTimer \/ Parsed

(***************************************************************************)
(* The feed handlers take a trade exactly when its text spells one, as    *)
(* the comment after populate_msg_trade's loop ("if we get here, the msg  *)
(* is the correct one") says, with its price as the decimal value it      *)
(* spells, to the last fixedpt place.  For TradeProcessor this is checked *)
(* where it shows, at SourceSplit's outputs: it sends values only for a   *)
(* symbol some subscribed trade text spelled, and each high, low and      *)
(* close it sends is that of the bar of the spelled trades.  For the      *)
(* hand-coded engine's populate_msg_trade it is checked on each text, and *)
(* CHI-X prices of either message length are read exactly.                *)
(***************************************************************************)
TradeParsedExactly ==
    CASE field.parser = "chix" ->
            ChixParsePrice(field.chix)
                = Exact(field.chix.whole, field.chix.dec, field.chix.decLen)
      [] field.parser = "hc" ->
            LET fs == field.packet
                m  == HcPopulateMsgTrade(fs)
            IN  /\ m.ok <=> SpellsTrade(fs)
                /\ m.ok => /\ m.symbol = fs[3] /\ m.size = StrTol(fs[5])
                           /\ m.price = TpExact(fs[4])
      [] OTHER ->
            \A o \in out :
                /\ o.sym \in DOMAIN exact
                /\ o.field \in {"high", "low", "close"} => o.value = exact[o.sym][o.field]

=============================================================================
