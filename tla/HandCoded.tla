------------------------------ MODULE HandCoded ------------------------------
(***************************************************************************)
(* The hand-coded engine of src/hand_coded: the comparison build of the   *)
(* Click pipeline, in one process on a libev loop, run with any of the    *)
(* indicators -t (Trix), -d (Dmi), -v (Vortex) and -a (ADLineTick).       *)
(*                                                                         *)
(* main.cpp keeps, per listed symbol, a TimeStats bar and an              *)
(* IndicatorManager.  udp_read_cb parses a trade, drops it when its       *)
(* symbol is not listed, starts the interval timer, folds the price into  *)
(* the bar (update_hloc) and, when the bar changed, initializes the       *)
(* symbol's indicators on its first trade or emits a speculative UPDATE.  *)
(* on_timer_cb emits a durable ADD of every listed symbol's bar and rolls *)
(* the bar over.  The loop runs one callback at a time, so each callback  *)
(* is one action.                                                          *)
(*                                                                         *)
(* Prices are raw fixedpt values; the size and open of a bar, the trade   *)
(* timestamps and the measurement counters are left out: nothing an       *)
(* indicator computes reads them.  A division by zero in fixedpt_div is   *)
(* an integer division by zero: the process dies of SIGFPE, and nothing   *)
(* runs after.  Values an indicator returns but nothing stores are left   *)
(* out, save what decides whether the process dies.                       *)
(***************************************************************************)
EXTENDS Integers, Sequences, SequencesExt, FixedPoint

CONSTANTS
    Syms,         \* the symbols of -s
    CmdLines,     \* command lines: sequences of getopt option letters
    Prices,       \* trade prices, raw fixedpt
    FBits,        \* fraction bits of fixedpt
    Periods,      \* -n: the EWMA periods of Dmi
    MaxTrades,    \* the feed sends at most this many trades
    MaxTicks      \* the timer fires at most this many times

Indicators == {"trix", "dmi", "vortex", "adline"}

\* Vortex's sum buffers hold sum_len - 1 = Periods - 1 values; with -n 1
\* their capacity is 0 (see the hazards).
ASSUME Periods \in Nat \ {0, 1} /\ Prices \subseteq Nat \ {0}

(***************************************************************************)
(* parse_cmds: getopt over "tdvs:n:i:p:ewa".  -t, -d, -v and -a set an    *)
(* indicator flag; -s, -n, -i and -p carry a value the constants Syms and *)
(* Periods stand for; -e and -w turn on logging.  An unrecognized option  *)
(* ('?') exits, and so does a command line with no option (argc < 2).     *)
(***************************************************************************)
OptFlag == "t" :> "trix" @@ "d" :> "dmi" @@ "v" :> "vortex" @@ "a" :> "adline"

ParseCmds(args) ==
    LET step(p, c) ==
            IF p.exit THEN p
            ELSE IF c = "?" THEN [p EXCEPT !.exit = TRUE]
            ELSE IF c \in DOMAIN OptFlag THEN [p EXCEPT !.flags = @ \cup {OptFlag[c]}]
            ELSE p
    IN  FoldLeft(step, [flags |-> {}, exit |-> args = <<>>], args)

\* The indicator sets of the command lines on which the process runs.
ParamSets == {ParseCmds(c).flags : c \in {c \in CmdLines : ~ParseCmds(c).exit}}

VARIABLES
    pars,         \* the indicators configured: Params of parse_cmds
    ts,           \* symbol -> TimeStats: high, low, close, _first_time_updated
    initialized,  \* symbol -> IndicatorManager::_initialized
    mgr,          \* symbol -> the IndicatorManager's trix, dmi, vortex, adtick
    adline,       \* the ADLine singleton: tick per symbol, total up and down
    timerOn,      \* ev_is_active(&gTimerWatcher)
    crash,        \* "none", or the signal the process died of
    trades,       \* trades read from the socket so far
    ticks         \* timer firings so far

vars == <<pars, ts, initialized, mgr, adline, timerOn, crash, trades, ticks>>

One == 2^FBits

(***************************************************************************)
(* EwmaHc: an alfa, a last value and whether it has one.                  *)
(***************************************************************************)
NewEwmaHc == [init |-> FALSE, last |-> 0]

\* Dmi::Dmi and Trix::Trix: alfa = 2 / (ewma_periods + 1) in FixedPt.
Alfa == FxDiv(2 * One, Periods * One + One, FBits)

\* The value calculate_new_value returns: the update itself while the
\* average has no last value, else (1 - alfa) * update + alfa * last.
CalculateNewValue(e, x) ==
    IF ~e.init THEN x ELSE FxMul(One - Alfa, x, FBits) + FxMul(Alfa, e.last, FBits)

\* What calculate_new_value leaves behind: the first call stores the
\* update as the last value, every later call stores nothing.
AfterNewValue(e, x) == IF ~e.init THEN [init |-> TRUE, last |-> x] ELSE e

\* set_last_value
SetLastValue(v) == [init |-> TRUE, last |-> v]

(***************************************************************************)
(* Dmi.                                                                    *)
(***************************************************************************)
NewDmi == [prevClose |-> 0, prevHigh |-> 0, prevLow |-> 0,
           pdm |-> NewEwmaHc, ndm |-> NewEwmaHc, tr |-> NewEwmaHc, dx |-> NewEwmaHc]

\* Dmi::initialize: the first bar becomes the previous one.
DmiInitialize(d, c, h, l) == [d EXCEPT !.prevClose = c, !.prevHigh = h, !.prevLow = l]

CalculatePdm(d, h, l) ==
    IF h - d.prevHigh < d.prevLow - l \/ h - d.prevHigh < 0 THEN 0 ELSE h - d.prevHigh

CalculateNdm(d, h, l) ==
    IF d.prevLow - l < h - d.prevHigh \/ d.prevLow - l < 0 THEN 0 ELSE d.prevLow - l

MaxFx(a, b) == IF a > b THEN a ELSE b

CalculateTr(d, c, h, l) == MaxFx(d.prevClose - l, MaxFx(h - l, h - d.prevClose))

(***************************************************************************)
(* Dmi::calculate_value(close, high, low, type) as a record: the value it *)
(* returns, the Dmi it leaves and the signal it dies of, if any.  pdm, ndm   *)
(* and tr are smoothed; pdi and ndi divide by the smoothed tr; when pdi + *)
(* ndi is 0 it returns 0 at once, else it smooths dx and, on ADD, commits *)
(* the bar and the four smoothed values.                                   *)
(***************************************************************************)
DmiCalculateValue(d, c, h, l, type) ==
    LET pdm  == CalculatePdm(d, h, l)
        ndm  == CalculateNdm(d, h, l)
        tr   == CalculateTr(d, c, h, l)
        pdmS == CalculateNewValue(d.pdm, pdm)
        ndmS == CalculateNewValue(d.ndm, ndm)
        trS  == CalculateNewValue(d.tr, tr)
        d1   == [d EXCEPT !.pdm = AfterNewValue(@, pdm), !.ndm = AfterNewValue(@, ndm),
                          !.tr = AfterNewValue(@, tr)]
        pdi  == FxDiv(pdmS, trS, FBits)
        ndi  == FxDiv(ndmS, trS, FBits)
        dx   == FxDiv(FxMul(100 * One, FxAbs(pdi - ndi), FBits), pdi + ndi, FBits)
        res  == CalculateNewValue(d1.dx, dx)
        d2   == [d1 EXCEPT !.dx = AfterNewValue(@, dx)]
    IN  CASE trS = 0      -> [val |-> 0, st |-> d1, crash |-> "SIGFPE"]
          [] pdi + ndi = 0 -> [val |-> 0, st |-> d1, crash |-> "none"]
          [] type = "ADD" ->
                [val |-> res, crash |-> "none",
                 st  |-> [d2 EXCEPT !.prevClose = c, !.prevHigh = h, !.prevLow = l,
                                    !.pdm = SetLastValue(pdmS), !.ndm = SetLastValue(ndmS),
                                    !.tr = SetLastValue(trS), !.dx = SetLastValue(res)]]
          [] OTHER -> [val |-> res, st |-> d2, crash |-> "none"]

(***************************************************************************)
(* Trix: three chained EwmaHc.  calculate_value returns                  *)
(* 100 * ((ewma_3 - last_ewma_3) / last_ewma_3), last_ewma_3 read after   *)
(* ewma_3's calculate_new_value, and on ADD stores the three as the last  *)
(* values.  The result is not kept; the divisor decides the crash.        *)
(***************************************************************************)
NewTrix == [e1 |-> NewEwmaHc, e2 |-> NewEwmaHc, e3 |-> NewEwmaHc]

TrixInitialize(x) == [e1 |-> SetLastValue(x), e2 |-> SetLastValue(x), e3 |-> SetLastValue(x)]

TrixCalculateValue(tx, x, type) ==
    LET e1    == CalculateNewValue(tx.e1, x)
        e2    == CalculateNewValue(tx.e2, e1)
        e3    == CalculateNewValue(tx.e3, e2)
        after == [e1 |-> AfterNewValue(tx.e1, x), e2 |-> AfterNewValue(tx.e2, e1),
                  e3 |-> AfterNewValue(tx.e3, e2)]
    IN  [st    |-> IF type = "ADD"
                   THEN [e1 |-> SetLastValue(e1), e2 |-> SetLastValue(e2),
                         e3 |-> SetLastValue(e3)]
                   ELSE after,
         crash |-> IF after.e3.last = 0 THEN "SIGFPE" ELSE "none"]

(***************************************************************************)
(* Vortex: the previous bar and three SumRingBuffers of sum_len - 1       *)
(* values.  viu and vid divide by tr_total + tr; their numerators, the    *)
(* vmu and vmd sums, feed only the returned pair, which nothing stores,   *)
(* so only the true-range buffer is kept.  The three buffers are pushed   *)
(* together, so _vmu_sum's _initialized stands for all.                   *)
(***************************************************************************)
NewVortex == [prevClose |-> 0, prevHigh |-> 0, prevLow |-> 0, tr |-> <<>>, sumsInit |-> FALSE]

VortexInitialize(v, c, h, l) == [v EXCEPT !.prevClose = c, !.prevHigh = h, !.prevLow = l]

\* SumRingBuffer::push_back_new_value: CircArray::push_back with overwrite
\* (the oldest value goes when the buffer is full), then the sum afresh.
PushBackNewValue(buf, x) == IF Len(buf) = Periods - 1 THEN Append(Tail(buf), x) ELSE Append(buf, x)

GetTotalSum(buf) == FoldSeq(LAMBDA x, y : x + y, 0, buf)

\* An UPDATE before the buffers hold anything pushes its own values first
\* ("catering for the first update situation"); an ADD pushes its values
\* after the division and makes the bar the previous one.
VortexCalculateValue(v, c, h, l, type) ==
    LET tr == MaxFx(v.prevClose - l, MaxFx(h - l, h - v.prevClose))
        v1 == IF type = "UPDATE" /\ ~v.sumsInit
              THEN [v EXCEPT !.tr = PushBackNewValue(@, tr), !.sumsInit = TRUE]
              ELSE v
        v2 == IF type = "ADD"
              THEN [v1 EXCEPT !.tr = PushBackNewValue(@, tr), !.sumsInit = TRUE,
                              !.prevClose = c, !.prevLow = l, !.prevHigh = h]
              ELSE v1
    IN  [st |-> v2, crash |-> IF GetTotalSum(v1.tr) + tr = 0 THEN "SIGFPE" ELSE "none"]

(***************************************************************************)
(* ADLineTick and the ADLine singleton.  A tick compares the close with   *)
(* the previous close (kept on ADD only); ADLine counts the symbols whose *)
(* last tick was UP and DOWN, the tick of a symbol new to its map counted *)
(* once.  Its switch of old tick against new moves each total by the     *)
(* change in the symbol's own tick, as Moved says.  calculate_value then  *)
(* calls printf("%s", rv) on the int rv = up - down: 0 is read as a null  *)
(* pointer, which glibc prints as "(null)"; a positive rv is an address   *)
(* in the first pages, never mapped, and the process dies of SIGSEGV.  A  *)
(* negative rv reads an address near 4 GiB that may or may not be mapped; *)
(* the model lets the process live, so every SIGSEGV it reports is sure.  *)
(***************************************************************************)
NewADLine == [tick |-> [s \in Syms |-> "NONE"], up |-> 0, down |-> 0]

TickOf(diff) == CASE diff > 0 -> "UP" [] diff < 0 -> "DOWN" [] OTHER -> "FLAT"

Moved(old, new, t) == (IF new = t THEN 1 ELSE 0) - (IF old = t THEN 1 ELSE 0)

ADLineCalculateValue(a, tick, s) ==
    [tick |-> [a.tick EXCEPT ![s] = tick],
     up   |-> a.up + Moved(a.tick[s], tick, "UP"),
     down |-> a.down + Moved(a.tick[s], tick, "DOWN")]

AdTickCalculateValue(prevClose, a, c, type, s) ==
    LET a1 == ADLineCalculateValue(a, TickOf(c - prevClose), s)
    IN  [st    |-> IF type = "ADD" THEN c ELSE prevClose,
         ad    |-> a1,
         crash |-> IF a1.up - a1.down > 0 THEN "SIGSEGV" ELSE "none"]

(***************************************************************************)
(* IndicatorManager: one object per listed symbol, holding the           *)
(* indicators configure_indicators made for pars.  initialize_indicators *)
(* and emit_add / emit_update call them in the order trix, dmi, vortex,  *)
(* adline; the first that crashes ends the process.  What emit_update    *)
(* stores in _all_values and the running stats are measurements.         *)
(***************************************************************************)
NewManager == [trix |-> NewTrix, dmi |-> NewDmi, vortex |-> NewVortex, adtick |-> 0]

\* An indicator pars did not configure is NULL and left alone.
Configured(i, new, old) == IF i \in pars THEN new ELSE old

InitializeIndicators(m, t) ==
    [trix   |-> Configured("trix", TrixInitialize(t.close), m.trix),
     dmi    |-> Configured("dmi", DmiInitialize(m.dmi, t.close, t.high, t.low), m.dmi),
     vortex |-> Configured("vortex", VortexInitialize(m.vortex, t.close, t.high, t.low), m.vortex),
     adtick |-> Configured("adline", t.close, m.adtick)]

\* The manager, the ADLine and the crash after emitting bar t of symbol s.
EmitToAll(m, a, s, t, type) ==
    LET rt == TrixCalculateValue(m.trix, t.close, type)
        rd == DmiCalculateValue(m.dmi, t.close, t.high, t.low, type)
        rv == VortexCalculateValue(m.vortex, t.close, t.high, t.low, type)
        ra == AdTickCalculateValue(m.adtick, a, t.close, type, s)
        cs == <<Configured("trix", rt.crash, "none"), Configured("dmi", rd.crash, "none"),
                Configured("vortex", rv.crash, "none"), Configured("adline", ra.crash, "none")>>
        k  == SelectInSeq(cs, LAMBDA c : c # "none")
    IN  [mgr   |-> [trix   |-> Configured("trix", rt.st, m.trix),
                    dmi    |-> Configured("dmi", rd.st, m.dmi),
                    vortex |-> Configured("vortex", rv.st, m.vortex),
                    adtick |-> Configured("adline", ra.st, m.adtick)],
         ad    |-> Configured("adline", ra.ad, a),
         crash |-> IF k = 0 THEN "none" ELSE cs[k]]

EmitAdd(m, a, s, t) == EmitToAll(m, a, s, t, "ADD")
EmitUpdate(m, a, s, t) == EmitToAll(m, a, s, t, "UPDATE")

(***************************************************************************)
(* TimeStats and update_hloc of main.cpp.                                  *)
(***************************************************************************)
NewTimeStats == [high |-> 0, low |-> 0, close |-> 0, first |-> FALSE]

\* rollover: high, low and close stay; the next trade starts a new bar.
Rollover(t) == [t EXCEPT !.first = FALSE]

\* update_hloc: the bar after price p, and whether it changed.
UpdateHloc(t, p) ==
    IF ~t.first
    THEN [ts |-> [high |-> p, low |-> p, close |-> p, first |-> TRUE], rc |-> TRUE]
    ELSE LET t1 == [t EXCEPT !.high = MaxFx(@, p), !.low = IF p < @ THEN p ELSE @,
                             !.close = p]
         IN  [ts |-> t1, rc |-> t1 # t]

Init ==
    /\ pars \in ParamSets
    /\ ts = [s \in Syms |-> NewTimeStats]
    /\ initialized = [s \in Syms |-> FALSE]
    /\ mgr = [s \in Syms |-> NewManager]
    /\ adline = NewADLine
    /\ timerOn = FALSE
    /\ crash = "none"
    /\ trades = 0
    /\ ticks = 0

(***************************************************************************)
(* udp_read_cb, one action per way it ends.                                *)
(***************************************************************************)
ReadTrade ==
    /\ crash = "none"
    /\ trades < MaxTrades
    /\ trades' = trades + 1

\* A trade of a symbol outside the filter group: dropped.
TradeUnlisted ==
    /\ ReadTrade
    /\ UNCHANGED <<pars, ts, initialized, mgr, adline, timerOn, crash, ticks>>

\* The bar did not change: no recalculation.
TradeNoChange(s, p) ==
    /\ ReadTrade
    /\ ~UpdateHloc(ts[s], p).rc
    /\ timerOn' = TRUE
    /\ UNCHANGED <<pars, ts, initialized, mgr, adline, crash, ticks>>

\* The symbol's first change: initialize_indicators with the bar.
TradeInitializes(s, p) ==
    LET t == UpdateHloc(ts[s], p).ts
    IN  /\ ReadTrade
        /\ UpdateHloc(ts[s], p).rc
        /\ ~initialized[s]
        /\ timerOn' = TRUE
        /\ ts' = [ts EXCEPT ![s] = t]
        /\ initialized' = [initialized EXCEPT ![s] = TRUE]
        /\ mgr' = [mgr EXCEPT ![s] = InitializeIndicators(@, t)]
        /\ UNCHANGED <<pars, adline, crash, ticks>>

\* Any later change: emit_update of the bar, speculative values.
TradeUpdates(s, p) ==
    LET t == UpdateHloc(ts[s], p).ts
        r == EmitUpdate(mgr[s], adline, s, t)
    IN  /\ ReadTrade
        /\ UpdateHloc(ts[s], p).rc
        /\ initialized[s]
        /\ timerOn' = TRUE
        /\ ts' = [ts EXCEPT ![s] = t]
        /\ mgr' = [mgr EXCEPT ![s] = r.mgr]
        /\ adline' = r.ad
        /\ crash' = r.crash
        /\ UNCHANGED <<pars, initialized, ticks>>

(***************************************************************************)
(* on_timer_cb: emit_add of every listed symbol's bar, initialized or     *)
(* not, then its rollover, in the order of the hash_map, which the model  *)
(* leaves open.  Symbols share only the ADLine.  A crash ends the loop.   *)
(***************************************************************************)
TimerStep(acc, s) ==
    IF acc.crash # "none" THEN acc
    ELSE LET r == EmitAdd(acc.mgr[s], acc.ad, s, ts[s])
         IN  [mgr |-> [acc.mgr EXCEPT ![s] = r.mgr], ad |-> r.ad, crash |-> r.crash]

Timer ==
    /\ crash = "none"
    /\ timerOn
    /\ ticks < MaxTicks
    /\ ticks' = ticks + 1
    /\ \E order \in SetToSeqs(Syms) :
          LET r == FoldLeft(TimerStep, [mgr |-> mgr, ad |-> adline, crash |-> "none"], order)
          IN  /\ mgr' = r.mgr
              /\ adline' = r.ad
              /\ crash' = r.crash
    /\ ts' = [s \in Syms |-> Rollover(ts[s])]
    /\ UNCHANGED <<pars, initialized, timerOn, trades>>

Next ==
    \/ TradeUnlisted
    \/ \E s \in Syms, p \in Prices :
          TradeNoChange(s, p) \/ TradeInitializes(s, p) \/ TradeUpdates(s, p)
    \/ Timer

Spec == Init /\ [][Next]_vars

(***************************************************************************)
(* Properties.                                                             *)
(***************************************************************************)

TypeOK ==
    /\ pars \subseteq Indicators
    /\ \A s \in Syms : ts[s].first => ts[s].low <= ts[s].close /\ ts[s].close <= ts[s].high
    /\ initialized \in [Syms -> BOOLEAN]
    /\ \A s \in Syms : Len(mgr[s].vortex.tr) <= Periods - 1
    /\ adline.up + adline.down <= Cardinality(Syms)
    /\ timerOn \in BOOLEAN /\ crash \in {"none", "SIGFPE", "SIGSEGV"}
    /\ trades \in 0 .. MaxTrades /\ ticks \in 0 .. MaxTicks

(***************************************************************************)
(* The engine never dies, whatever indicators the command line picks and *)
(* whatever listed symbols trade: no indicator divides by zero (Dmi's     *)
(* test of pdi + ndi is printed as "avoiding the division by 0", the      *)
(* code's own guard), and ADLineTick's printing of the A/D line does not  *)
(* fault.                                                                  *)
(***************************************************************************)
ProcessSurvives == crash = "none"

=============================================================================
