------------------------------- MODULE Joiner --------------------------------
(***************************************************************************)
(* The two-port joiners DirectionalIndex (directional_index.cc) and        *)
(* DxIndicator (dx_indicator.cc): one SavedPacket (_port, and the clone of *)
(* the packet, here its timestamp and value), and push() matching a value *)
(* of one port with the value of the other port that carries the same      *)
(* timestamp.  The two elements differ only in the formula, the constant   *)
(* operator Combine(a, b) of a value a of PortA and b of PortB.            *)
(*                                                                         *)
(* Upstream, each port is fed by an element that sends at most one value  *)
(* per source round, stamped with the round's timestamp.  ADD rounds carry *)
(* the rdtsc of TradeProcessor's timer; UPDATE rounds carry the wire       *)
(* timestamp of the trade, which with Reorder may lie at or below the      *)
(* timer's last stamp (a trade stamped before the timer fired but          *)
(* processed after it).                                                    *)
(***************************************************************************)
EXTENDS Integers, FiniteSets, FixedPoint

CONSTANTS
    PortA, PortB,   \* the configured TR_PORT and DM_PORT (PDI_PORT, MDI_PORT)
    Vals,           \* raw fixedpt values an upstream may send, all >= 0
    FBits,          \* FIXEDPT_FBITS of fixedptc.h
    MaxTs,          \* bound on the source's clock
    Reorder,        \* whether UPDATE rounds carry the wire clock
    Combine(_, _)   \* the formula of step 5 of push()

Ports == {PortA, PortB}
NoPort == "NO_PORT"

\* DirectionalIndex, step 5: di = dm / tr, 0 when tr is 0.
Di(tr, dm) == IF tr # 0 THEN FxDiv(dm, tr, FBits) ELSE 0

\* DxIndicator, step 5: dx = 100 * |pdi - mdi| / (pdi + mdi), 0 when the
\* sum is 0.
Dx(pdi, mdi) ==
    IF pdi + mdi # 0
    THEN FxMul(100 * 2^FBits, FxDiv(FxAbs(pdi - mdi), pdi + mdi, FBits), FBits)
    ELSE 0

VARIABLES
    saved,      \* _saved_packet: [port, ts, val]
    active,     \* _active, written by the "active" handler
    emit,       \* what the last push sent, or NoMsg
    now,        \* the source's rdtsc clock
    ts,         \* the current round's timestamp
    wire,       \* the wire timestamp of the last trade
    pending,    \* ports whose upstream has not yet sent in this round
    recv,       \* ghost: every <<port, ts, val>> the joiner received
    got,        \* ghost: ports whose upstream sent in this round
    pairs,      \* ghost: combined values sent in this round
    wasOff      \* ghost: the element was inactive during this round

vars == <<saved, active, emit, now, ts, wire, pending, recv, got, pairs, wasOff>>

NoMsg == [kind |-> "NONE"]
NoSaved == [port |-> NoPort, ts |-> 0, val |-> 0]

\* SavedPacket(): _packet NULL, _port NO_PORT; the first trade opens the
\* INIT round at time 1.
Init ==
    /\ saved = NoSaved /\ active = TRUE /\ emit = NoMsg
    /\ now = 1 /\ ts = 1 /\ wire = 1 /\ pending = Ports
    /\ recv = {} /\ got = {} /\ pairs = 0 /\ wasOff = FALSE

-----------------------------------------------------------------------------
(* push(port, p) on an active element, one action per branch.  Each takes  *)
(* the packet's port p, timestamp t and value v.                           *)

\* A faulty step 2 that keeps the older packet of the same port.
SupersedeKeepOld(p, t, v) ==
    /\ saved.port = p
    /\ emit' = NoMsg /\ UNCHANGED <<saved, pairs>>

\* Step 2: the saved packet came from the same port; keep the new one.
Supersede(p, t, v) ==
    /\ saved.port = p
    /\ saved' = [port |-> p, ts |-> t, val |-> v] /\ emit' = NoMsg /\ UNCHANGED pairs

\* Step 2: nothing saved; save the new packet.
SaveFirst(p, t, v) ==
    /\ saved.port = NoPort
    /\ saved' = [port |-> p, ts |-> t, val |-> v] /\ emit' = NoMsg /\ UNCHANGED pairs

\* Step 3: the saved packet is newer; discard the incoming one.
DiscardStale(p, t, v) ==
    /\ saved.port \notin {p, NoPort} /\ saved.ts > t
    /\ emit' = NoMsg /\ UNCHANGED <<saved, pairs>>

\* Step 3: the saved packet is older; discard it and save the new one.
ReplaceOlder(p, t, v) ==
    /\ saved.port \notin {p, NoPort} /\ t > saved.ts
    /\ saved' = [port |-> p, ts |-> t, val |-> v] /\ emit' = NoMsg /\ UNCHANGED pairs

\* The value of port q among the saved packet and the incoming one.
ValueOf(q, p, v) == IF saved.port = q THEN saved.val ELSE v

\* A faulty step 4 that pairs with the saved packet whatever its timestamp.
PairAnyTs(p, t, v) ==
    /\ saved.port \notin {p, NoPort}
    /\ emit' = [kind |-> "IND", ts |-> t,
                val |-> Combine(ValueOf(PortA, p, v), ValueOf(PortB, p, v))]
    /\ saved' = NoSaved /\ pairs' = pairs + 1

\* Steps 4-7: equal timestamps; send Combine of the two values with the
\* saved packet's timestamp, discard the saved packet and clear the slot.
Pair(p, t, v) ==
    /\ saved.port \notin {p, NoPort} /\ saved.ts = t
    /\ emit' = [kind |-> "IND", ts |-> t,
                val |-> Combine(ValueOf(PortA, p, v), ValueOf(PortB, p, v))]
    /\ saved' = NoSaved /\ pairs' = pairs + 1

\* Step 1 of an inactive element: checked_output_push(port, p) unchanged.
PassThrough(p, t, v) ==
    /\ ~active
    /\ emit' = [kind |-> "RAW", ts |-> t, val |-> v]
    /\ UNCHANGED <<saved, pairs>>

Push(p, t, v) ==
    \/ PassThrough(p, t, v)
    \/ /\ active
       /\ \/ Supersede(p, t, v) \/ SaveFirst(p, t, v) \/ DiscardStale(p, t, v)
          \/ ReplaceOlder(p, t, v) \/ Pair(p, t, v)

-----------------------------------------------------------------------------
(* The source and the "active" handler.                                    *)

\* Port p's upstream sends its value of the round.
Deliver(p, v) ==
    /\ p \in pending
    /\ Push(p, ts, v)
    /\ pending' = pending \ {p}
    /\ recv' = recv \cup {<<p, ts, v>>}
    /\ got' = got \cup {p}
    /\ UNCHANGED <<active, now, ts, wire, wasOff>>

\* Port p's upstream discards its message of the round.
Skip(p) ==
    /\ p \in pending
    /\ pending' = pending \ {p}
    /\ UNCHANGED <<saved, active, emit, now, ts, wire, recv, got, pairs, wasOff>>

\* The timer sends an ADD round stamped with rdtsc.
NewAddRound ==
    /\ pending = {} /\ now < MaxTs
    /\ now' = now + 1 /\ ts' = now + 1
    /\ pending' = Ports /\ got' = {} /\ pairs' = 0 /\ wasOff' = ~active /\ emit' = NoMsg
    /\ UNCHANGED <<saved, active, wire, recv>>

\* A trade sends an UPDATE round stamped with its wire timestamp t; it was
\* stamped after the previous trade and no later than now.
NewUpdateRound(t) ==
    /\ pending = {} /\ now < MaxTs
    /\ t > wire /\ t <= now + 1 /\ (Reorder \/ t = now + 1)
    /\ now' = now + 1 /\ ts' = t /\ wire' = t
    /\ pending' = Ports /\ got' = {} /\ pairs' = 0 /\ wasOff' = ~active /\ emit' = NoMsg
    /\ UNCHANGED <<saved, active, recv>>

\* The "active" write handler.
SetActive(b) ==
    /\ active' = b /\ active # b
    /\ wasOff' = (wasOff \/ ~b)
    /\ UNCHANGED <<saved, emit, now, ts, wire, pending, recv, got, pairs>>

Next ==
    \/ \E p \in Ports, v \in Vals : Deliver(p, v)
    \/ \E p \in Ports : Skip(p)
    \/ NewAddRound
    \/ \E t \in 1 .. MaxTs : NewUpdateRound(t)
    \/ \E b \in BOOLEAN : SetActive(b)

Spec == Init /\ [][Next]_vars

-----------------------------------------------------------------------------
(***************************************************************************)
(* Genuine pairing (spec.md section 4.5): every combined value the joiner  *)
(* sends is Combine of a value it received on PortA and a value it         *)
(* received on PortB, both with the timestamp it is sent with.             *)
(***************************************************************************)
PairedOnly ==
    emit.kind = "IND" =>
        \E a, b \in Vals :
            /\ <<PortA, emit.ts, a>> \in recv /\ <<PortB, emit.ts, b>> \in recv
            /\ emit.val = Combine(a, b)

(***************************************************************************)
(* A round that carries the source's clock, in which both upstreams sent  *)
(* with the element active throughout, ends with exactly one combined     *)
(* value sent and nothing left saved (spec.md section 8: (0,t) then (1,t) *)
(* emits exactly one value and no pending state remains), whatever the    *)
(* earlier rounds, late ones included, left saved.  A late round itself   *)
(* may emit nothing: its values are stale by the rule of section 4.5.     *)
(***************************************************************************)
RoundEmitsOnce ==
    pending = {} /\ got = Ports /\ ~wasOff /\ ts = now => pairs = 1 /\ saved = NoSaved

=============================================================================
