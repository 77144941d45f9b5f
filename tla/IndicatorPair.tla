---------------------------- MODULE IndicatorPair ----------------------------
(***************************************************************************)
(* Two IndicatorBase elements with the same strategy and the same inputs,  *)
(* one configured OP_MODE 1 (NAIVE) and one STARTUP -> NORMAL, behind the  *)
(* source of trade_processor.cc and source_split.cc.                       *)
(*                                                                         *)
(* The source opens rounds with strictly increasing timestamps: the first  *)
(* trade of a symbol is an INIT round, later rounds are UPDATE (a trade    *)
(* that moved the bar) or ADD (the timer closing the bar).  Every port of  *)
(* a round receives one value of that round's kind, in any port order;     *)
(* Click pushes synchronously, so a value reaches both nodes in one step.  *)
(* With Lossy, a port may miss the first rounds: an upstream IndicatorBase *)
(* discards every message before its own first completed round, and that  *)
(* round too when its initialize_element returns invalid (Pdm, Ndm, Vmu). *)
(* Once a port has received a message its upstream forwards every round.  *)
(*                                                                         *)
(* The timer stamps an ADD round with rdtsc, the clock; a trade's UPDATE   *)
(* round carries its wire timestamp.  With Reorder, that timestamp is any  *)
(* one after the previous trade's and no later than the clock: a trade     *)
(* stamped before the timer fired may be processed after the timer's ADD. *)
(* Without Reorder every round carries the clock.                          *)
(***************************************************************************)
EXTENDS Integers, Sequences, FiniteSets, RingOps

CONSTANTS
    Ports, BufLen, Default,
    Vals,       \* the values a port may receive
    Lossy,      \* whether an upstream may discard the first rounds of a port
    Reorder,    \* whether UPDATE rounds carry the wire clock
    InitializeElement(_), ProcessNaive(_), ProcessExt(_), ProcessOptExt(_, _),
    Primary(_), EmptyCache

VARIABLES
    now, kind, pending, live, clock, wire,              \* the source
    nPs, nInitialized, nOpMode, nCache, nEmit, nPopFailed,  \* the NAIVE node
    sPs, sInitialized, sOpMode, sCache, sEmit, sPopFailed,  \* the STARTUP node
    hist, spec, dropped                                 \* ghost, see below

srcVars   == <<now, kind, pending, live, clock, wire>>
naiveVars == <<nPs, nInitialized, nOpMode, nCache, nEmit, nPopFailed>>
extVars   == <<sPs, sInitialized, sOpMode, sCache, sEmit, sPopFailed>>
vars      == <<srcVars, naiveVars, extVars, hist, spec, dropped>>

N == INSTANCE IndicatorBase WITH OP_MODE <- 1,
        ps <- nPs, initialized <- nInitialized, opMode <- nOpMode,
        cache <- nCache, emit <- nEmit, popFailed <- nPopFailed
S == INSTANCE IndicatorBase WITH OP_MODE <- 2,
        ps <- sPs, initialized <- sInitialized, opMode <- sOpMode,
        cache <- sCache, emit <- sEmit, popFailed <- sPopFailed

(***************************************************************************)
(* Ghost state of the NAIVE node.  hist[p] is port p's window as the      *)
(* durable adds alone would leave it; spec is TRUE from a speculative add  *)
(* until the node opens its next round, which must roll it back.  dropped *)
(* is TRUE once an upstream has discarded a port's message.               *)
(***************************************************************************)
DurableFeed(k) == k \in {N!INIT, N!ADD} \/ ~nInitialized

Init ==
    /\ now = 1 /\ kind = N!INIT /\ pending = Ports /\ live = {}
    /\ clock = 1 /\ wire = 1
    /\ N!Init /\ S!Init
    /\ hist = [p \in Ports |-> <<>>]
    /\ spec = FALSE
    /\ dropped = FALSE

\* A port's message of the current round reaches both nodes.
Deliver(p, v) ==
    /\ p \in pending
    /\ pending' = pending \ {p}
    /\ live' = live \cup {p}
    /\ N!Push(p, v, now, kind)
    /\ S!Push(p, v, now, kind)
    /\ hist' = IF DurableFeed(kind)
               THEN [hist EXCEPT ![p] = PushFrontSeq(@, v, BufLen)]
               ELSE hist
    /\ spec' = (~DurableFeed(kind) \/ (spec /\ now <= nPs.tstamp))
    /\ UNCHANGED <<now, kind, clock, wire, dropped>>

\* The upstream of port p, not yet initialised, discards its message.
Drop(p) ==
    /\ Lossy /\ p \in pending /\ p \notin live
    /\ pending' = pending \ {p}
    /\ dropped' = TRUE
    /\ UNCHANGED <<now, kind, live, clock, wire, naiveVars, extVars, hist, spec>>

\* The timer opens an ADD round stamped with rdtsc.
NewAddRound ==
    /\ pending = {}
    /\ clock' = clock + 1 /\ now' = clock + 1 /\ kind' = N!ADD /\ pending' = Ports
    /\ UNCHANGED <<live, wire, naiveVars, extVars, hist, spec, dropped>>

\* The next trade that moved the bar opens an UPDATE round stamped t.
NewUpdateRound(t) ==
    /\ pending = {}
    /\ t > wire /\ t <= clock + 1 /\ (Reorder \/ t = clock + 1)
    /\ clock' = clock + 1 /\ wire' = t
    /\ now' = t /\ kind' = N!UPDATE /\ pending' = Ports
    /\ UNCHANGED <<live, naiveVars, extVars, hist, spec, dropped>>

Next ==
    \/ \E p \in Ports, v \in Vals : Deliver(p, v)
    \/ \E p \in Ports : Drop(p)
    \/ NewAddRound
    \/ \E t \in 1 .. clock + 1 : NewUpdateRound(t)

Spec == Init /\ [][Next]_vars

-----------------------------------------------------------------------------
\* Every variable holds a value of its type, and no port's window ever
\* holds more than BUF_SIZE values.
TypeOK ==
    /\ now \in Nat /\ kind \in N!Kinds /\ pending \subseteq Ports /\ live \subseteq Ports
    /\ nPs \in N!PortSetType(Vals) /\ sPs \in S!PortSetType(Vals)
    /\ nInitialized \in BOOLEAN /\ sInitialized \in BOOLEAN
    /\ nOpMode = N!NAIVE /\ sOpMode \in {S!STARTUP, S!NORMAL}
    /\ \A p \in Ports : Len(nPs.bufs[p]) <= BufLen /\ Len(sPs.bufs[p]) <= BufLen

\* Strategy equivalence (spec.md section 8): for every message, the NAIVE
\* node's full-window recomputation and the STARTUP/NORMAL node's
\* process_ext then process_opt_ext chain send the same thing, or both
\* discard.  Breaks if push() persists a speculative cache, if the NORMAL
\* window forgets an eviction, or if a rollback restores the wrong value.
NaiveIncrementalAgree == nEmit = sEmit

\* Speculative rollback (spec.md section 4.2): outside a speculative round,
\* and while every upstream has delivered every round, the NAIVE node's
\* buffers hold exactly the durable history: no UPDATE value, and no value
\* an UPDATE evicted, is lost or left behind once new_value_check has
\* rolled the round back.  (After a drop the restore loop breaks it, as
\* NoFabricatedValue shows.)
HistoryIsDurable == (~spec /\ ~dropped) => nPs.bufs = hist

\* Every value in a window is a value some port received: the restore loop
\* of new_value_check never pushes a default-constructed _temp_updates
\* entry into a buffer.
NoFabricatedValue ==
    \A p \in Ports : \A i \in 1 .. Len(nPs.bufs[p]) : nPs.bufs[p][i] \in Vals

(***************************************************************************)
(* The assert (rc == SUCCESS) of CircArray::pop_front() never fires: a    *)
(* NORMAL node completes a round only when every port's window holds a   *)
(* value of that round to pop into the increments (spec.md section 7(a)  *)
(* makes pop-empty fatal, never silently absorbed).                        *)
(***************************************************************************)
PopFrontAssertHolds == ~sPopFailed

=============================================================================
