------------------------------- MODULE Buffers -------------------------------
(***************************************************************************)
(* The PortSet of src/click-2.0.1/lib/buffers.cc: one RingBuffer per input *)
(* port, an updated flag per port, the barrier timestamp _tstamp, the      *)
(* values _temp_updates remembered when a speculative add evicts, and the  *)
(* round state.  The operations are pure operators on a PortSet record,   *)
(* so that every IndicatorBase node holds one and its push() composes     *)
(* them as the code calls them.                                            *)
(***************************************************************************)
EXTENDS Naturals, Sequences, RingOps

CONSTANTS
    Ports,      \* 0 .. num_ports-1
    BufLen,     \* buf_len, the capacity of every port's RingBuffer
    Default     \* the value of a FixedPt() default-constructed by new FixedPt[]

ASSUME BufLen \in Nat \ {0}

\* enum BufferStates
INITIAL              == "INITIAL"
ACCUMULATING         == "ACCUMULATING"
ACCUMULATING_POP     == "ACCUMULATING_POP"
ACCUMULATED          == "ACCUMULATED"
ACCUMULATED_TEMP     == "ACCUMULATED_TEMP"
ACCUMULATED_TEMP_POP == "ACCUMULATED_TEMP_POP"
States == {INITIAL, ACCUMULATING, ACCUMULATING_POP, ACCUMULATED,
           ACCUMULATED_TEMP, ACCUMULATED_TEMP_POP}
TempStates == {ACCUMULATED_TEMP, ACCUMULATED_TEMP_POP}

\* The constructor: _tstamp 0, empty buffers, reset(), state INITIAL.
NewPortSet ==
    [bufs    |-> [p \in Ports |-> <<>>],
     updated |-> [p \in Ports |-> FALSE],
     temp    |-> [p \in Ports |-> Default],
     tstamp  |-> 0,
     state   |-> INITIAL]

\* reset(): every _updated flag back to 'N'.
Reset(b) == [b EXCEPT !.updated = [p \in Ports |-> FALSE]]

\* check_updated(): every port has reported in this round.
CheckUpdated(b) == \A p \in Ports : b.updated[p]

\* is_update_complete()
IsUpdateComplete(b) == b.state \in {ACCUMULATED} \cup TempStates

(***************************************************************************)
(* new_value_check(port, tstamp): a strictly higher timestamp opens a new  *)
(* round.  If the previous round was speculative, the front of EVERY       *)
(* buffer is popped, and after an eviction the remembered _temp_updates[i] *)
(* of EVERY port is pushed back, whether or not that port evicted.  A      *)
(* higher timestamp during ACCUMULATING(_POP) only prints a diagnostic.    *)
(* The port range check never fails for the ports Click connects.          *)
(***************************************************************************)
\* A faulty rollback that pops the speculative fronts and restores nothing.
RollBackNoRestore(b) ==
    IF b.state \in TempStates THEN [p \in Ports |-> PopFrontSeq(b.bufs[p])] ELSE b.bufs

RollBack(b) ==
    IF b.state \in TempStates
    THEN [p \in Ports |->
            IF b.state = ACCUMULATED_TEMP_POP
            THEN PushBackSeq(PopFrontSeq(b.bufs[p]), b.temp[p], BufLen)
            ELSE PopFrontSeq(b.bufs[p])]
    ELSE b.bufs

NewValueCheck(b, port, t) ==
    IF t > b.tstamp
    THEN [Reset(b) EXCEPT !.tstamp = t, !.bufs = RollBack(b), !.state = ACCUMULATING]
    ELSE b

\* The round completes when the last flag is set.
MarkUpdated(b, port, completeState) ==
    LET u == [b EXCEPT !.updated[port] = TRUE]
    IN  IF CheckUpdated(u) THEN [u EXCEPT !.state = completeState] ELSE u

(***************************************************************************)
(* add_new_value(value, tstamp, port): durable push_front(value, true).    *)
(***************************************************************************)
AddNewValueOp(b, v, t, port) ==
    LET c == NewValueCheck(b, port, t)
    IN  MarkUpdated([c EXCEPT !.bufs[port] = PushFrontSeq(@, v, BufLen)],
                    port, ACCUMULATED)

(***************************************************************************)
(* add_new_value_temp(value, tstamp, port): on a full buffer pop_back() is *)
(* saved in _temp_updates[port] and the state becomes ACCUMULATING_POP;    *)
(* then push_front(value, true).  A completed round becomes                *)
(* ACCUMULATED_TEMP only from ACCUMULATING, ACCUMULATED_TEMP_POP from any  *)
(* other state.                                                            *)
(***************************************************************************)
EvictBack(c, port) ==
    IF IsFull(c.bufs[port], BufLen)
    THEN [c EXCEPT !.temp[port] = Back(c.bufs[port]),
                   !.bufs[port] = PopBackSeq(@),
                   !.state      = ACCUMULATING_POP]
    ELSE c

AddNewValueTempOp(b, v, t, port) ==
    LET e == EvictBack(NewValueCheck(b, port, t), port)
        d == [e EXCEPT !.bufs[port] = PushFrontSeq(@, v, BufLen)]
    IN  MarkUpdated(d, port,
                    IF d.state = ACCUMULATING THEN ACCUMULATED_TEMP
                                              ELSE ACCUMULATED_TEMP_POP)

(***************************************************************************)
(* The increments vector of the NORMAL mode: pop_front() on every port.   *)
(* On an empty buffer pop_front(value) returns BUFFER_EMPTY_ERROR and     *)
(* leaves the default-constructed FixedPt in value; the assert on the RC  *)
(* is checked through PopsEmpty.                                          *)
(***************************************************************************)
PopFronts(b) == [b EXCEPT !.bufs = [p \in Ports |->
                    IF b.bufs[p] = <<>> THEN <<>> ELSE PopFrontSeq(b.bufs[p])]]
Fronts(b)    == [p \in Ports |-> IF b.bufs[p] = <<>> THEN Default ELSE Head(b.bufs[p])]
PopsEmpty(b) == \E p \in Ports : b.bufs[p] = <<>>

PortSetType(Vals) ==
    [bufs: [Ports -> Seq(Vals \cup {Default})], updated: [Ports -> BOOLEAN],
     temp: [Ports -> Vals \cup {Default}], tstamp: Nat, state: States]

=============================================================================
