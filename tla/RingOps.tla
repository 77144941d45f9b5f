------------------------------- MODULE RingOps -------------------------------
(***************************************************************************)
(* The RingBuffer (CircArray<FixedPt>) operations that the PortSet and the *)
(* strategies call, on the sequence of its contents, front first.  The     *)
(* CircArray run shows the slot arithmetic of circ_array.hpp implements    *)
(* exactly these.                                                          *)
(***************************************************************************)
EXTENDS Naturals, Sequences

LOCAL SX == INSTANCE SequencesExt

(***************************************************************************)
(* Sequence-level operations.  c is the capacity.                          *)
(***************************************************************************)
IsFull(s, c) == Len(s) = c

\* A faulty push_front that ignores the overwrite flag and never evicts.
PushFrontSeqNoEvict(s, v, c) == <<v>> \o s

\* push_front(v, overwrite): on a full buffer the back is dropped first.
PushFrontSeq(s, v, c) ==
    IF IsFull(s, c) THEN <<v>> \o SX!Front(s) ELSE <<v>> \o s

\* push_back(v, overwrite): on a full buffer the front is dropped first.
PushBackSeq(s, v, c) ==
    IF IsFull(s, c) THEN Append(Tail(s), v) ELSE Append(s, v)

PopFrontSeq(s) == Tail(s)
PopBackSeq(s)  == SX!Front(s)

\* operator[](i), 0-based from the front.
At(s, i) == s[i + 1]

\* The value pop_back() hands back.
Back(s) == SX!Last(s)

=============================================================================
