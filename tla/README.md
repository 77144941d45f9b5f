# TLA+ models of Synapse

Synapse computes technical-analysis indicators over a live trade feed. It is
built from Click modular-router elements. This directory holds TLA+ models of
its core and TLC configurations that check them. PROJECT.json lists the
components, runs, mutants, findings and hazards, and maps every model
definition to the source lines it translates.

## The system

Inventory of `src/` (about 13.9k lines):

| Part | Source | What it does |
|---|---|---|
| Ring buffer | `include/click/circ_array.hpp` | `CircArray<T>`: fixed-capacity deque over a slot array (`_start`, `_size`, `_capacity`), push/pop at both ends with optional overwrite, `pop_at`, `resize_by_two`, deep copy |
| PortSet | `lib/buffers.cc`, `include/click/buffers.hh` | one `CircArray<FixedPt>` per input port, a per-round barrier on a timestamp, durable (`add_new_value`) and speculative (`add_new_value_temp`) adds, rollback of a speculative round when the next timestamp arrives |
| Dispatch engine | `elements/standard/indicator_base.cc` | `IndicatorBase::push`: INIT / not-yet-initialised feed, then NAIVE (full recompute) or STARTUP→NORMAL (cached incremental) modes over a 4-operation strategy |
| Strategies | `sum.cc`, `pdm.cc`, `ndm.cc`, `dx.cc`, `ndi.cc`, `vmu.cc`, `vid.cc`, `trix.cc`, `ewma_incremental.cc` | `initialize_element`, `process_naive`, `process_ext`, `process_opt_ext` per indicator |
| Joiners | `directional_index.cc`, `dx_indicator.cc` | combine two streams with the same timestamp; one saved packet |
| Source | `trade_processor.cc`, `source_split.cc` | parse trades, keep per-symbol HLOC; the first trade is an INIT, price moves are UPDATEs stamped with the wire timestamp, the interval timer sends ADDs stamped with `rdtsc`; SourceSplit fans one source message out to the configured ports in order |
| Feed handler | `chix_trade_handler.{cc,hh}`, `chix_trade_handler_utils.hh` | keeps the CHI-X order book from add, cancel and execute messages and sends a `MsgTrade` per execution of a known order |
| Interval pipeline | `directional_movement.cc`, `true_range.cc`, `ewma_calculator.cc`, `lib/SynapseEWMA.cc`, `trade_aggregator.cc` | per-symbol elements on `MsgTrade`: the current and previous interval's bar (interval = timestamp / INTERVAL_LEN), +DM/-DM, true range and its EWMA; TradeAggregator sums trades until its timer flushes them |
| Thread hand-off | `mt_new_thread.cc` | a spin-locked `CircArray` between a pushing thread and a task |
| Kernel queue | `kernel_modules/shmq/shmq.c`, `packet_capture/packet_capture.c`, `shmqueue.cc` | the capture hook copies each packet into a kfifo of fixed-size messages, drained by a work item into a SysV message queue |
| Hand-coded engine | `hand_coded/*.cpp` | the same indicators without Click (DMI, EWMA, TRIX, Vortex, A/D line) |
| Aroon indicator | `aroon_indicator.{cc,hh}` | per symbol, the closes of the last 30 MsgTimePeriodStats and the ticks since their highest and lowest (Aroon up and down), written to a file per symbol |
| I/O and tools | `timestamper.c`, printers, `tools/` | capture, timestamping, printing, benchmarking |

How the parts interact: TradeProcessor pushes a source message to
SourceSplit, which synchronously pushes one value message per configured
port. Each port feeds an IndicatorBase element. Its PortSet waits until every
input port has a value for the current timestamp. The element then calls its
strategy and synchronously pushes its result downstream, to further
IndicatorBase elements or to a joiner. An element discards the message of
every incomplete round. Before its first complete round it also discards, and
it drops that first round's result when `initialize_element` is invalid
(Pdm, Ndm and Vmu return invalid). So the element downstream misses the
first rounds on that port. All of this runs to completion in one Click
thread. Threads meet only in MtNewThread and the kernel queue.

The source has two clocks. ADD rounds carry the `rdtsc` of TradeProcessor's
interval timer (`send_add_msg`). UPDATE rounds carry the trade's wire
timestamp, the first 8 bytes of its UDP payload. A trade stamped before the
timer fired, but processed after it, reaches the elements with a timestamp
at or below the last ADD's.

The interval pipeline is a second path. ChixTradeHandler turns each
execution of a known order into a `MsgTrade` carrying the order's symbol
and price and the message's own timestamp. DirectionalMovement, TrueRange
(and behind it EwmaElement) and TradeAggregator each keep per-symbol state
and react to every trade in the same Click thread. TradeAggregator's
timer pushes its MsgTimePeriodStats on to AroonIndicatorElement, which
updates the symbol's Aroon window with each close.

The hand-coded engine is a separate program that computes the same
indicators without Click, for comparison. It is a libev loop in one
thread. Its UDP callback parses a trade of the same text format, folds it
into the symbol's bar and either initializes the symbol's indicators or
computes a speculative UPDATE of each configured indicator (Trix, Dmi,
Vortex, ADLineTick; the A/D line is shared by all symbols). A repeating timer, started by the first
listed trade, commits an ADD of every listed symbol's bar and rolls the
bars over.

## Modules

- **RingOps**: `CircArray` operations on the sequence of contents, front
  first (`PushFrontSeq`, `PushBackSeq`, `PopFrontSeq`, `PopBackSeq`, `At`,
  `Back`, `IsFull`). The PortSet and the strategies use these.
- **RingBuffer**: the abstract deque that `CircArray` promises. Its state is
  `buf`, `cap`, `rc` and `out`, with one action per public operation.
- **CircArray**: the implementation. Its state is `arr` (slots; `Garbage` in
  slots `new T[]` left unwritten), `start`, `size`, `cap`, `rc` and `out`.
  Each action translates one function: `push_back` and `push_front` with
  their full, overwrite and refusal branches, `pop_front(T&)` and
  `pop_back(T&)` with the empty branch, `pop_at`'s shifting loop, and
  `resize_by_two`. `Abs` maps the slots to `RingBuffer`'s sequence, and
  `ImplementsRingBuffer` is `RingBuffer!Spec` under that mapping.
- **Buffers**: the PortSet as a record `[bufs, updated, temp, tstamp,
  state]`. `NewValueCheck` (with `RollBack`), `AddNewValueOp`,
  `AddNewValueTempOp` (with `EvictBack`), `Reset`, `CheckUpdated` and
  `IsUpdateComplete` translate the functions of `buffers.cc`, in the code's
  order. `Fronts` and `PopFronts` are the increments loop of `push()`. A pop
  of an empty window yields `Default` and leaves it empty, and `PopsEmpty`
  says when that happens: the code's `pop_front` asserts there.
- **FixedPoint**: `FixedPt` as `[val, valid]`, and `fixedpt_mul` /
  `fixedpt_div` on raw values with `fb` fraction bits (`FxMul`, `FxDiv`).
  C's shift rounds down and C's division truncates toward 0.
- **IndicatorBase**: one element. Its state is `ps`, `initialized`,
  `opMode`, `cache`, `emit` (what the last push sent, or `NoMsg`) and
  `popFailed` (a `pop_front` assert has fired). `Init` is `configure`.
  `Push` is `push()`, split by its branches into `PushInit`, `PushNaive`,
  `PushStartup` and `PushNormal`. Each of these calls the PortSet operations
  and the strategy exactly as the code does. The strategy is a set of
  constant operators.
- **Sum**: `sum.cc`'s four operations. The `VectorCache` is `[v0, v1,
  win]`, where `win` is the ring buffer that `process_opt_ext` uses to know
  the evicted value.
- **Dm**: `pdm.cc` and `ndm.cc`. `CalculatePdm` and `CalculateNdm` are the
  two static functions. `Bars` reads the new and previous high and low from
  windows 0 (high) and 1 (low). The `VectorCache` is `[v0, v1, v2]`: the
  result, the previous high and the previous low.
- **Vmu**: `vmu.cc`, |high − previous low|, with the previous low cached.
- **Quotients**: the stateless two-port strategies `dx.cc`
  (100·|pdi − ndi|/(pdi + ndi)), `ndi.cc` and `vid.cc` (a/b). Each guards
  its division by zero and keeps its result as its one `CacheStruct`.
- **Trix**: `trix.cc`, 100·(last − penultimate)/penultimate of window 0,
  with the last value cached. The naive and the incremental path group the
  arithmetic differently, as the code does.
- **IndicatorPair**: the composition. One source drives two IndicatorBase
  instances with the same strategy, one NAIVE (`N`) and one STARTUP→NORMAL
  (`S`). The source opens an INIT round, then ADD rounds (`NewAddRound`,
  stamped with the clock) or UPDATE rounds (`NewUpdateRound(t)`, stamped
  with a wire time `t` later than the last trade's). With `Reorder` false,
  `t` is the clock. With `Reorder` true, `t` may lie at or below the last
  ADD's stamp. `Deliver(p, v)` pushes port p's value to both elements in one
  step, as a synchronous push does. `Drop(p)` models an upstream element
  that is not yet initialised: it may discard port p's messages until that
  port first delivers (`live`), when `Lossy` is set. The ghost `hist` is the
  NAIVE element's windows as the durable adds alone would leave them. The
  ghost `spec` marks a speculative round that has not yet been rolled back.
- **Joiner**: DirectionalIndex and DxIndicator, which differ only in the
  formula `Combine` (`Di` or `Dx`, in fixed point with `FBits` fraction
  bits). The state is the saved packet `[port, ts, val]`, `active`, and
  `emit`. `push()` is one action per branch: `Supersede`, `SaveFirst`,
  `DiscardStale`, `ReplaceOlder`, `Pair` and `PassThrough`. The
  environment is the same two-clock source, with each port's upstream
  delivering or skipping its value of a round (`Deliver`, `Skip`), and the
  `active` handler (`SetActive`). The ghosts `recv`, `got`, `pairs` and
  `wasOff` record what was received and emitted in the round.
- **MtNewThread**: the hand-off queue. The producer thread (`push`) and the
  task (`run_task`) each have a program counter. Every statement that
  touches shared state is one action: clone, spin-lock acquire, the full
  check, the slot write, `++_size`, release. On the task's side: the
  unlocked `empty()`, acquire, read and `--_size`, advance `_start`,
  release, output. `arr`, `start` and `size` are the `CircArray`'s fields.
  The ghosts `sent`, `dropped` and `out` record the packets.
- **ShmQ**: the kernel queue of `shmq.c`. The kfifo is a sequence of bytes
  tagged `<<message, offset>>`. `SendMsg` is `shm_queue_send_msg`, whose
  `kfifo_in` copies only what fits. The worker `send_msg_from_queue` is
  `WorkerSleep`, `WorkerWake`, `WorkerTake` and `WorkerExit`, with
  `cancel_work` checked where the code checks it. `cleanup_func` is
  `CleanupCancel` and `CleanupFree`. `Init` chooses among `init_func`'s
  outcomes (`InitOutcomes`): loaded, failed (`resolve_syscalls`, `msgget`
  or `kfifo_alloc` returned an error) or the oops of `queue_work` on a
  NULL workqueue. The caller is packet_capture: `PcInit` registers the
  hook and finds the capture device or not (`capDev`), `HookEnter` is
  `custom_hook` past its device check (`inflight` counts such calls until
  they reach `shm_queue_send_msg`), and `PcCleanup` removes the hook.
  shmq's `cleanup_func` waits until the hook is gone, as the module
  reference count makes rmmod do.
- **IntervalPipeline**: ChixTradeHandler and the interval elements. The
  state is `book` (`_orderMap`), `hl` (`_high_low_map`), `hlc`
  (`_high_low_close_map`), `ew` (`_ewma_map`), `stats`
  (`_time_stats_map`), and what each element published in the last step
  (`dmOut`, `trOut`, `ewOut`, `statsOut`). `ParseAddOrder`,
  `ParseCancelOrder` and `ReduceOrder` are the `do_parse_*` templates.
  `PublishTrade` is one trade pushed through all four elements: `DmUpdate`
  and `DmPublish` are steps 4 and 5 of `DirectionalMovement::push`,
  `TrUpdate`, `TrPublishes` and `TrValue` those of `TrueRange::push`,
  `EwmaUpdate` is `EwmaElement::push` on the true range, and
  `AggUpdateStats` is `update_stats`. The actions are the exchange's
  `AddOrder`, `CancelOrder` and `ExecuteOrder` (each message delivered to
  `push()` or, with `Lossy`, lost), `Tick` (the feed's clock) and `Flush`
  (`run_timer`). The exchange's own book `xbook` is a ghost: it only sends
  what its book allows. With `Reorder`, an execution may carry any earlier
  timestamp. The ghosts `hist`, `period` and `trHist` record the trades and
  true ranges, for the properties' reference definitions. `aroon` is
  AroonIndicatorElement's map: per symbol the circular buffer of closes
  and the ticks since its highest (`tMax`) and lowest (`tMin`) close, from
  which the code's doubles `100 * (1 - t / 30)` are computed; the
  constructor's 0.0 is `t = AroonSpan`. `Flush` passes its messages
  through `AroonSimpleAction` (`simple_action` with `get_symbol_data`),
  whose `UpdateIndicator` is `update_indicator` and `AroonScan` its loop.
  `AroonSetActive` writes the element's `active` handler (`aroonOn`).
- **PriceParse**: TradeProcessor and SourceSplit, and the price parsers.
  With `field = [parser |-> "tp"]` TradeProcessor runs: `Init` is its
  constructor, `TpConfigure` (`configure`, `SYMBOLS_ROUTING`) and
  `initialize`; `TpPush` is `push` (populate, subscription lookup, the
  `first_symbol` timer start, `get_or_create`, `UpdateStats`, and
  `TpSendUpdateMsg` for INIT or UPDATE); `TpPushInactive` and `SetActive`
  are the `active` handler's pass-through and write; `TpRunTimer` is
  `run_timer` with `TpSendAddMsg` and `Rollover`. Every message goes
  through `SourceSplitPush` (`SourceSplit::push` and `sendMsg`, ports from
  `SplitConfigure`), and `out` holds what the SourceSplits sent in the
  last step. `exact` is a ghost: the same TimeStats over the trades the
  texts spell, read exactly. The parsers themselves are operators: `TpParsePrice`
  (`parse_price_as_fixedpt`, with `DenominatorForLen`) on the text field
  as a sequence of characters, and `ChixParsePrice`
  (`parse_add_order_price_as_fixedpt`) on the strtol values of the
  fixed-width whole and decimal fields. `Exact` is the reference: the
  decimal value the field spells, truncated to fixed point. The one
  variable `field` otherwise holds a text or CHI-X field under test;
  nothing changes it.
  `HcParsePrice` is the hand-coded engine's parser in `msg_parsing.h`, a
  line-for-line copy of TradeProcessor's. `TpPopulateMsgTrade`
  (`populate_msg_trade`) splits the text after the timestamp at `'|'`.
  Its input is the sequence of fields, and it follows the loop's order:
  a symbol that is too long at the third bar, a price bar that ends the
  text at the fourth, a fifth bar, and no bar at all. `HcPopulateMsgTrade`
  is the hand-coded copy. `SpellsTrade` is the reference: a text with two
  header fields, a symbol that fits, a price and a size.
- **HandCoded**: the hand-coded engine, run with any set of the flags
  `-t`, `-d`, `-v` and `-a`. The set is `pars`, chosen at start from
  `ParamSets`: what `ParseCmds` (main.cpp's `parse_cmds`, a fold of the
  getopt letters) gives for each of the command lines `CmdLines` that do
  not exit. An unrecognized option and an empty command line exit before
  the loop starts; the values of `-s`, `-n`, `-i` and `-p` are the
  constants `Syms` and `Periods`. Per listed symbol the state is the `TimeStats` bar `ts`, the
  `IndicatorManager::_initialized` flag `initialized`, and the manager's
  indicators `mgr`:
  - `trix`: three `EwmaHc`, each `[init, last]`;
  - `dmi`: the previous bar and four `EwmaHc`;
  - `vortex`: the previous bar and the true-range `SumRingBuffer`, a
    sequence of at most `Periods - 1` values;
  - `adtick`: the previous close.
  The process-wide state is:
  - `adline`: the `ADLine` singleton, with each symbol's last tick and the
    up and down totals;
  - `timerOn`: the timer watcher is active;
  - `crash`: `"none"`, or the signal the process died of.
  Each libev callback is one action. `udp_read_cb` ends in one of four
  ways:
  - `TradeUnlisted`: the symbol is not listed.
  - `TradeNoChange`: `update_hloc` reports no change.
  - `TradeInitializes`: `initialize_indicators` runs.
  - `TradeUpdates`: `emit_update` runs.
  `Timer` is `on_timer_cb`: `emit_add` of every listed symbol, then
  `rollover`. It takes the symbols in any order (`TimerStep` folded over
  a permutation) because the `hash_map` order is unspecified and the
  `ADLine` is shared. `EmitToAll` calls the configured indicators in the
  code's order: Trix, Dmi, Vortex, ADLineTick. The first crash is the one
  that counts. `CalculateNewValue` and `AfterNewValue` are what `EwmaHc`'s
  `calculate_new_value` returns and what it stores. The values the
  indicators return are kept only where they decide a crash or are
  stored. A crash disables every action.
- **MCCircArray**, **MCSumPair**, **MCTrixPair**, **MCJoiner**,
  **MCMtNewThread**, **MCIntervalPipeline**, **MCPriceParse** and
  **MCHandCoded**: the
  instances TLC checks. ShmQ is checked directly from its cfg.
  - MCSumPair runs Sum, Pdm, Ndm, Vmu, Dx, Ndi and Vid at once. Elements
    fed the same messages hold the same PortSet and take the same branches
    of `push()`, so one node stands for the seven elements. Its cache is the tuple of
    their caches, and its value is the tuple of their values, each with
    its own valid flag. It sends when any of them would.
  - MCJoiner does the same for the two joiners: its `Combine` sends the
    pair of the two formulas.

## Runs

| Run | Config | Expect | What it shows |
|---|---|---|---|
| circarray_refines_ringbuffer | MCCircArray.cfg | pass | Every sequence of CircArray calls implements the deque (`ImplementsRingBuffer`): the wrap-around, the overwrite, `pop_at`'s shift and the resize all land on the right element. Since the deque only ever holds pushed values, no call hands back an unwritten slot of `new T[]`. |
| sum_naive_vs_incremental | MCSumPair.cfg | pass | Sum, Pdm, Ndm, Vmu, Dx, Ndi and Vid, with one clock. Upstreams may drop a port's first rounds. For every message the NAIVE elements' full recomputation and the STARTUP/NORMAL elements' cached chains send the same values, kinds and timestamps, or both discard (`NaiveIncrementalAgree`). While no round was dropped, outside a speculative round the windows equal the durable history (`HistoryIsDurable`). A drop breaks that through the restore loop, which the next row shows. |
| mt_handoff_fifo | MCMtNewThread.cfg | pass | What the task has output, the packet in its hand, the queue and the producer's unwritten clone are exactly the pushed packets that were not dropped, in order (`FifoNoLoss`). Every packet the queue accepted is eventually output (`EveryAcceptedOutput`). |
| joiner_pairs_reordered | MCJoiner.cfg | pass | DirectionalIndex and DxIndicator with both clocks. Every value sent combines a PortA and a PortB value of the same timestamp, even when rounds arrive with lower timestamps (`PairedOnly`). A round carrying the clock, in which both upstreams sent with the element active, emits exactly once and leaves nothing saved, whatever late rounds left behind (`RoundEmitsOnce`). |
| restore_fabricates_value | MCSumPairLossy.cfg | violation | **Code bug.** After an upstream drops port 1's first round, port 0 fills first. An UPDATE round evicts on port 0 only, and the rollback pushes `_temp_updates[1]`, a default `FixedPt()` (0) that port 1 never received, into port 1's window (`buffers.cc:83`). |
| late_update_corrupts_history | MCSumPairReorder.cfg | violation | **Code bug.** Trades stamped before the timer's ADD, but processed after it, fall at or below the barrier (`buffers.cc:57`). Each is pushed speculatively into the completed round. The second eviction overwrites `_temp_updates`, and the rollback's single pop leaves an UPDATE value in the window as history (`HistoryIsDurable`). |
| trix_paths_disagree | MCTrixPair.cfg | violation | **Spec–code divergence.** Trix's `process_naive` computes (100·difference)/penultimate, and `process_opt_ext` computes 100·(difference/penultimate) (`trix.cc:84`, `:104`). The truncated quotient is scaled by 100, so the two paths differ by up to 99 units of the last place. For prices 1.0, 1.25, 1.0 with 2 fraction bits they send −20 and 0. spec.md section 8 asks for agreement within fixed-point tolerance (`PathsAgreeWithinUlp`). |
| interval_pipeline | MCIntervalPipeline.cfg | pass | Over lost adds, cancels and executions, every live order whose add reached ChixTradeHandler is in its book with its symbol and price and at least the exchange's shares (`BookTracksExchange`). With in-order timestamps, DirectionalMovement and TrueRange, which keep only two rolling bars, publish on each trade what the bars of the symbol's whole trade history give (`DmMatchesBars`, `TrueRangeMatchesBars`). Each TradeAggregator flush reports, for a symbol that traded since the last flush, exactly those trades' open, high, low, close and volume (`AggregatorStatsMatchPeriod`). AroonIndicatorElement, fed those flushes, leaves both values at 0 until its window is full and then counts from the most recent highest close and from a lowest close of the window (`AroonMarksExtremes`). |
| price_parse | MCPriceParse.cfg | violation | **Code bug.** `parse_price_as_fixedpt` takes its "only fractional part" branch when the dot is at index 1, so any one-digit price such as 5.5 is read as 0: the branch drops the result of `fixedpt_add` (`trade_processor.cc:99`). The CHI-X long add order has 7 decimal digits, but `parse_add_order_price_as_fixedpt` divides by 10^4 (`chix_trade_handler_utils.hh:75`), so 12.25 reads as 262 (`TradeParsedExactly`). The hand-coded engine's copy of the text parser has the same branch (`msg_parsing.h:59`). `populate_msg_trade` rejects only a text with no bar at all. A text cut off after its second or third bar is accepted, with price 0 and size 0 (`trade_processor.cc:346`, `msg_parsing.h:173`). For TradeProcessor the check is made where the error shows, on what SourceSplit sends: a text cut off after its third bar, of a subscribed symbol, opens a bar at price 0, and a 5.5 trade makes a bar of 0. TLC reports the hand-coded and CHI-X cases as initial states and the TradeProcessor ones after one `push`, all of them with `-continue`. |
| hc_process_dies | MCHandCoded.cfg | violation | **Code bugs**, one per indicator (`ProcessSurvives`). **Dmi**: `Dmi::calculate_value` divides by the smoothed true range before any test (`dmi.cpp:136`). Its "avoiding the division by 0" check of pdi + ndi comes after the division. At the first timer firing that range is 0 for a listed symbol whose first interval had one price, and for one that never traded, because `on_timer_cb` emits an ADD for every listed symbol (`main.cpp:231`). **Trix** divides by `last_ewma_3` (`trix.cpp:60`), which is 0 for a listed symbol that never traded. **Vortex** divides by `tr_total + tr` (`vortex.cpp:116`), which is 0 after a one-price first interval. Each of these dies of SIGFPE after one trade and one timer firing. **ADLineTick** passes the int A/D line to `printf("%s")` (`ad_line.cpp:59`): the first UPDATE that raises a close makes it 1, and the process dies of SIGSEGV. TLC reports the shortest of these, the ADLine case. Setting `MCCmdLines` to one command line shows each. |
| ewma_zero_sentinel | MCIntervalPipelineEwma.cfg | violation | **Spec–code divergence.** EwmaElement takes a previous EWMA of 0 to mean "none" (`ewma_calculator.cc:119`, `:140`). After an interval whose true range is 0, the EWMA is a real 0, and the next interval restarts at its true range: 4 where spec.md section 4.4's recurrence gives (1 − ½)·4 + ½·0 = 2 (`EwmaFollowsRecurrence`). |
| shmq_partial_message | MCShmQ.cfg | violation | **Code bug.** `kfifo_in` into a nearly full fifo writes only the first bytes of a message, and its count is ignored (`shmq.c:174`). The worker's next fixed-size read straddles two messages, and all later messages are misframed (`WholeMessages`). |

Every property of a passing run has a mutant in PROJECT.json: a faulty
variant of a mapped definition that TLC must catch.

- push_front without its full check breaks `TypeOK` of CircArray.
- pop_back reading one slot too far breaks `ImplementsRingBuffer`.
- push_front ignoring overwrite breaks `TypeOK` of the pair.
- NORMAL keeping the UPDATE cache breaks `NaiveIncrementalAgree` for Sum.
- A rollback without the restore breaks `HistoryIsDurable`.
- The same property is also broken by Pdm's `process_opt_ext` not
  moving the previous bar on (`PdmProcessOptExtKeepPrev`, checked by hand).
- A slot write without the full check breaks `TypeOK` of MtNewThread.
- The task popping without the spin lock breaks `FifoNoLoss`.
- A task that stops on an empty queue breaks `EveryAcceptedOutput`.
- Pairing whatever the saved timestamp breaks `PairedOnly`.
- Keeping the older packet of the same port breaks `RoundEmitsOnce`.
- A rollover that swaps the two interval numbers breaks `TypeOK` of the
  pipeline.
- Removing an order when one share would remain breaks
  `BookTracksExchange`.
- A rollover that leaves the previous high behind breaks `DmMatchesBars`.
- A trade that does not move the current close breaks
  `TrueRangeMatchesBars`.
- Reopening a stats entry without resetting its size breaks
  `AggregatorStatsMatchPeriod`.

### Bounds

- **CircArray**: two values and capacity 2, which `resize_by_two` may double
  to 4. Every start position, full and empty buffers, both overwrite
  branches and a resize of a wrapped buffer occur. About 2.2k states.
- **Sum pair** (Sum, Pdm, Ndm, Vmu, Dx, Ndi and Vid): two ports, windows of 2 (`BufLen`), values {1, 2, 3}, and a
  clock up to 5: the INIT round and four more, each ADD or UPDATE, in either
  port order. A window fills after two rounds, so rounds 3 to 5 cover a
  speculative eviction, its rollback, a speculative round followed by
  another, and the STARTUP→NORMAL switch with a full window. `Default` is 0,
  a value no port receives, so a fabricated value is visible. For the same
  reason the zero guards of Dx, Ndi and Vid are not reached here. Three price
  levels let two bars differ in both directions. Lossy upstreams. 88,698
  states.
  The reorder runs raise the clock to 6, because corrupting the history
  takes two late trades after a full window. The constraint on the clock
  ends the source; it does not cause a deadlock.
- **Trix pair**: one port, windows of 2, the raw values 4 and 5 (1.0 and
  1.25 with 2 fraction bits). Any rise or fall then has a quotient below
  1, which truncation loses. The model's width is not the build's:
  fixedptc.h, which fixes the fraction bits, is not in the repository. The
  loss of up to 99 units of the last place is the same for any width.
- **Joiner**: values {0, 2} (0 exercises the division guards), 2 fraction
  bits, clock up to 4, and both clocks. Rounds can leave a packet saved,
  supersede it, pair it, discard a stale one, arrive late, and switch the
  element off and on. About 1.2M states.
- **MtNewThread**: capacity 2 and 4 packets. The queue fills, a push meets a
  full queue, and the slot index wraps. 597 states.
- **Interval pipeline**: one symbol, two order references, prices 1.0 and
  2.0 (raw 4 and 8 with 2 fraction bits), one- and two-share orders,
  intervals of 2 ticks over a clock of 5 (intervals 0, 1 and 2), EWMA_ALPHA
  2 and at most 4 trades. Orders are added, partly and wholly cancelled and
  executed, and their messages lost. Bars open, widen and roll over across
  three intervals, and a flush falls anywhere between trades. Every action
  and branch fires. An Aroon window of 3 closes (the code's is 30) fills,
  rolls and, with only two prices, meets every pattern of ties. About 1.4M
  states, about a minute. With `Reorder` set, TLC finds
  `DmMatchesBars` violated in two trades: a trade of interval 0 arriving
  after one of interval 1 is taken as a new interval, the bars swap, and a
  DM is published across them (`directional_movement.cc:117`). The CHI-X
  timestamp comes from the message, so this is what a late or reordered
  UDP datagram does. It is listed as a hazard; the run has `Reorder` off.
- **Hand-coded engine**: two listed symbols, prices 1.0 and 2.0 (raw 4 and
  8 with 2 fraction bits), `-n 2`, up to 5 trades and 3 timer firings.
  Each of `-t`, `-d`, `-v` and `-a` runs alone, as the comment in
  `configure_indicators` says the engine is used. `-n 2` gives Vortex
  sums of one bar; `-n 1` would give buffers of capacity 0, which is a
  hazard of its own.
  Two symbols are needed for a symbol that never traded to meet the timer.
  Two prices let the first interval be flat or not.
- **Price parse**: trade texts with the text prices 5, 5.5, 5.25, 12, 12.5
  and 12.25. Also texts that end after the symbol or after the price, a
  text with an empty size, one with a fifth field, and one with a
  10-character symbol (`ORDER_SYMBOL_LEN` is 10 in `hand_coded/msg_trade.h`;
  the Click header that defines it is not in the repository). These reach
  every return of the loop. CHI-X fields 12.0000 and 12.2500 (short) and
  12.0000000 and 12.2500000 (long). TradeProcessor subscribes symbol A on
  port 0, SourceSplit sends high, low and close (open and volume stay at
  -1), and it runs for up to 3 texts and 2 timer expiries: enough for an
  INIT, an UPDATE, a rollover and a bar after it.
- **ShmQ**: a fifo of 8 bytes and messages of 3. Like 2048 and 136, the fifo
  is not a whole number of messages, which is all the failure needs.

### Fairness

Only MtNewThread's run checks a liveness property. Its task reschedules
itself on every path (`fast_reschedule`, or the reschedule on an empty
queue), so Click's scheduler runs it again and again: every task step is
weakly fair. A thread inside `push()` runs on to its return, so the
producer's steps after the clone are weakly fair too. Whether the upstream
calls `push()` again is up to the upstream, so the clone steps have no
fairness. Every other run checks safety only, with no fairness assumed: the
elements run to completion in one Click thread, and the source (or the
exchange and the aggregator's timer) alone chooses what happens next.

## Not modelled, and why

- Out of TLC's reach or pure I/O: the timestamper kernel
  module, the byte layout of CHI-X messages (a packet of the wrong length
  is dropped, which the lossy feed covers), the ShmQueue element's
  `msgsnd`, the printers and `tools/`.
- `denominator_for_len` falls off its switch for a fraction of 0 or more
  than 6 digits, and the CHI-X executed shares are an `int` read from 10
  digits. Both are hazards without a run: the first is undefined
  behaviour at the line, the second needs counts above 2^31.
- `SynapseEWMA.cc`: no element of either path calls it.
- AroonIndicatorElement's `write_indicators` and `run_timer` open, write
  and flush a file per symbol. A failed `fopen` leaves the handle NULL and
  `ferror(NULL)` is then called. This is file I/O, not modelled.
- Which lowest close the Aroon down value should count from on a tie is
  not specified. `update_indicator` takes the most recent highest close,
  but a run of equal closes that opens the window keeps its first as the
  low. `AroonMarksExtremes` asks only for a lowest close, and the
  asymmetry is a hazard.
- TradeAggregator re-sends a symbol's last stats on every flush after it
  stops trading. Whether the consumer expects that is not specified, so
  it is a hazard, not a property.
- Copying a `CircArray` (`deep_copy`) is modelled as sequence equality where
  it is used, not as an action.
- IndicatorBase's `active` handler and its forwarding of wrong-type messages
  pass packets through and change no state of the element.
- Capacity 0 is excluded by an `ASSUME`. It is a hazard, listed in
  PROJECT.json.
- Packet ownership: the clones that MtNewThread and the joiners never free
  are listed as hazards without a property.
- The byte layout of a trade packet. `populate_msg_trade` computes
  `md_len` as a `uint32_t` after checking only for 43 bytes, so a 43- to
  49-byte packet wraps it and the loop reads past the packet
  (`trade_processor.cc:287`; `msg_parsing.h:112` for a datagram under 8
  bytes). The model starts from the fields after the timestamp. This is
  listed as a hazard.
- Concurrent producers of the ShmQ kfifo, one byte copy at a time:
  `custom_hook` runs in each CPU's receive path, and `SendMsg` is one
  step. A hook call still running when packet_capture's `cleanup_func`
  returns, and the oops of a NULL workqueue, are reachable in ShmQ and
  listed as hazards; the module's run checks framing.
- `send_update_msg` never sets `_volume`, so SourceSplit's VOLUME port
  gets 0 on every INIT and UPDATE; no configuration in the repository
  connects that port, and the model's SourceSplit leaves it unconnected.
- `first_symbol` in `TradeProcessor::push` is a function-local static
  shared by all instances: only the first TradeProcessor to see a
  subscribed trade starts its timer. The model has one instance; this is
  a hazard.
- EwmaIncremental. After an eviction, by its formulas, its naive fold
  differs from its incremental value by alpha^BUF_SIZE times an older
  difference. Whether that is within tolerance depends on the
  configuration.
- Of the hand-coded engine: the `_all_values` and `RunningStat`
  measurements, which nothing reads; the viu, vid and TRIX values, which
  nothing stores; and Vortex with `-n 1`. Three hazards have no run:
  - The first UPDATE of a symbol seeds Vortex's sums with a speculative
    bar (`vortex.cpp:91`).
  - It also seeds each `EwmaHc` with a speculative value (`ewma.cpp:23`).
  - A pdi + ndi that rounds to 0 skips the ADD's commit (`dmi.cpp:139`).
  All three happen in the same first interval whose crashes the one run
  already reports.
- `PopFrontAssertHolds` of IndicatorPair (a late UPDATE in NORMAL mode pops
  windows the last round emptied, against spec.md section 7(a)) has no run
  of its own. Its trigger is the late UPDATE of
  `late_update_corrupts_history`. TLC finds it violated with the constants
  of MCSumPairReorder.cfg and the default `MCMaxTs` of 5.

## Plan for later sittings

1. **EwmaIncremental** with a tolerance tied to BUF_SIZE, and Trix's
   unguarded division by a zero penultimate value.
2. **Interval pipeline**: a run of its own for the late trade, and
   several symbols.
3. **Hand-coded engine**: properties of the speculative seeds of EwmaHc
   and Vortex, on a model that starts after the first interval.
4. **TradeProcessor's statistics**: `update_stats` and the interval
   rollover as the source of the pair, in place of free choice of values.
