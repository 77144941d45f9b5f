----------------------------- MODULE RingBuffer -----------------------------
(***************************************************************************)
(* What CircArray<T> (src/click-2.0.1/include/click/circ_array.hpp)        *)
(* promises: a bounded double-ended queue of values.  The contents are a   *)
(* sequence whose first element is logical index 0, the "front".           *)
(*                                                                         *)
(* The pure sequence operators live in RingOps; this module is the        *)
(* abstract state machine that the concrete CircArray module refines.      *)
(***************************************************************************)
EXTENDS Naturals, Sequences, RingOps

LOCAL SX == INSTANCE SequencesExt

CONSTANTS
    Values,         \* what a slot can hold
    InitCapacity,   \* the capacity given to the constructor
    MaxCapacity     \* bound on resize_by_two, to keep the model finite

ASSUME InitCapacity \in Nat \ {0} /\ MaxCapacity \in Nat /\ InitCapacity <= MaxCapacity

\* Return codes of CircArray::RC.
SUCCESS            == "SUCCESS"
NO_SPACE_ERROR     == "NO_SPACE_ERROR"
BUFFER_EMPTY_ERROR == "BUFFER_EMPTY_ERROR"
RCs == {SUCCESS, NO_SPACE_ERROR, BUFFER_EMPTY_ERROR}

(***************************************************************************)
(* The abstract state machine.                                             *)
(***************************************************************************)
VARIABLES
    buf,    \* the contents, front first
    cap,    \* capacity
    rc,     \* the RC of the last push/pop that returns one
    out     \* the value handed back by the last successful pop

vars == <<buf, cap, rc, out>>

Init ==
    /\ buf = <<>>
    /\ cap = InitCapacity
    /\ rc  = SUCCESS
    /\ out = CHOOSE v \in Values : TRUE

PushFront(v, ow) ==
    \/ /\ IsFull(buf, cap) /\ ~ow
       /\ rc' = NO_SPACE_ERROR
       /\ UNCHANGED <<buf, cap, out>>
    \/ /\ ~IsFull(buf, cap) \/ ow
       /\ buf' = PushFrontSeq(buf, v, cap)
       /\ rc' = SUCCESS
       /\ UNCHANGED <<cap, out>>

PushBack(v, ow) ==
    \/ /\ IsFull(buf, cap) /\ ~ow
       /\ rc' = NO_SPACE_ERROR
       /\ UNCHANGED <<buf, cap, out>>
    \/ /\ ~IsFull(buf, cap) \/ ow
       /\ buf' = PushBackSeq(buf, v, cap)
       /\ rc' = SUCCESS
       /\ UNCHANGED <<cap, out>>

\* A pop on an empty buffer reports BUFFER_EMPTY_ERROR and leaves out alone.
PopEmpty ==
    /\ buf = <<>>
    /\ rc' = BUFFER_EMPTY_ERROR
    /\ UNCHANGED <<buf, cap, out>>

PopFront ==
    \/ PopEmpty
    \/ /\ buf # <<>>
       /\ out' = Head(buf)
       /\ buf' = PopFrontSeq(buf)
       /\ rc' = SUCCESS
       /\ UNCHANGED cap

PopBack ==
    \/ PopEmpty
    \/ /\ buf # <<>>
       /\ out' = SX!Last(buf)
       /\ buf' = PopBackSeq(buf)
       /\ rc' = SUCCESS
       /\ UNCHANGED cap

\* pop_at(i): removes logical element i, keeping the order of the others.
PopAt(i) ==
    /\ i < Len(buf)
    /\ out' = At(buf, i)
    /\ buf' = SX!RemoveAt(buf, i + 1)
    /\ UNCHANGED <<cap, rc>>

ResizeByTwo ==
    /\ 2 * cap <= MaxCapacity
    /\ cap' = 2 * cap
    /\ UNCHANGED <<buf, rc, out>>

Next ==
    \/ \E v \in Values, ow \in BOOLEAN : PushFront(v, ow) \/ PushBack(v, ow)
    \/ PopFront
    \/ PopBack
    \/ \E i \in 0 .. MaxCapacity - 1 : PopAt(i)
    \/ ResizeByTwo

Spec == Init /\ [][Next]_vars

=============================================================================
