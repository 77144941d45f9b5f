------------------------------ MODULE CircArray ------------------------------
(***************************************************************************)
(* CircArray<T> of src/click-2.0.1/include/click/circ_array.hpp as the     *)
(* code implements it: a slot array _array, the index _start of logical    *)
(* element 0, the count _size and the _capacity.  Slots the constructor    *)
(* allocates with new T[capacity] and nobody has written hold Garbage.     *)
(*                                                                         *)
(* The module is shown to implement RingBuffer under the mapping Abs.      *)
(***************************************************************************)
EXTENDS Naturals, Sequences

CONSTANTS
    Values,
    Garbage,        \* contents of a slot never written
    InitCapacity,
    MaxCapacity

ASSUME Garbage \notin Values

VARIABLES
    arr,    \* _array, slots 0 .. MaxCapacity-1; only 0 .. cap-1 are allocated
    start,  \* _start
    size,   \* _size
    cap,    \* _capacity
    rc,     \* RC returned by the last push/pop(value) call
    out     \* the reference argument of the last successful pop

vars == <<arr, start, size, cap, rc, out>>

Slots == 0 .. MaxCapacity - 1

SUCCESS            == "SUCCESS"
NO_SPACE_ERROR     == "NO_SPACE_ERROR"
BUFFER_EMPTY_ERROR == "BUFFER_EMPTY_ERROR"

\* set_initial_values: new T[capacity], _start = _size = 0.
Init ==
    /\ arr   = [i \in Slots |-> Garbage]
    /\ start = 0
    /\ size  = 0
    /\ cap   = InitCapacity
    /\ rc    = SUCCESS
    /\ out   = CHOOSE v \in Values : TRUE

\* operator[](index): _array[(_start + index) % _capacity].
Elem(i) == arr[(start + i) % cap]

\* The slot written by push_back and read by pop_back(value).
BackSlot(st, sz) == (st + sz) % cap

\* _start after the decrement of push_front.
PrevStart(st) == IF st = 0 THEN cap - 1 ELSE st - 1

(***************************************************************************)
(* Faulty variants of the operations below, each a slip the slot           *)
(* arithmetic invites; the properties must tell them from the code.        *)
(***************************************************************************)
\* push_front with the full-buffer check left out.
PushFrontNoFullCheck(v, ow) ==
    /\ start' = PrevStart(start)
    /\ arr'   = [arr EXCEPT ![PrevStart(start)] = v]
    /\ size'  = size + 1
    /\ rc'    = SUCCESS
    /\ UNCHANGED <<cap, out>>

\* pop_back(value) reading the slot after the last element.
PopBackPastEnd ==
    /\ size > 0
    /\ out'  = arr[BackSlot(start, size)]
    /\ size' = size - 1
    /\ rc'   = SUCCESS
    /\ UNCHANGED <<arr, start, cap>>

(***************************************************************************)
(* push_back(value, overwrite): a full buffer refuses, or with overwrite   *)
(* first drops its front with pop_front(); then the value is written after *)
(* the last element.                                                       *)
(***************************************************************************)
PushBack(v, ow) ==
    \/ /\ size = cap /\ ~ow
       /\ rc' = NO_SPACE_ERROR
       /\ UNCHANGED <<arr, start, size, cap, out>>
    \/ /\ size < cap \/ ow
       /\ LET full == size = cap
              st   == IF full THEN (start + 1) % cap ELSE start
              sz   == IF full THEN size - 1 ELSE size
          IN /\ arr'   = [arr EXCEPT ![BackSlot(st, sz)] = v]
             /\ start' = st
             /\ size'  = sz + 1
       /\ rc' = SUCCESS
       /\ UNCHANGED <<cap, out>>

(***************************************************************************)
(* push_front(value, overwrite): a full buffer refuses, or with overwrite  *)
(* first drops its back with pop_back(); then _start steps back one slot   *)
(* and the value is written there.                                         *)
(***************************************************************************)
PushFront(v, ow) ==
    \/ /\ size = cap /\ ~ow
       /\ rc' = NO_SPACE_ERROR
       /\ UNCHANGED <<arr, start, size, cap, out>>
    \/ /\ size < cap \/ ow
       /\ LET sz == IF size = cap THEN size - 1 ELSE size
          IN /\ start' = PrevStart(start)
             /\ arr'   = [arr EXCEPT ![PrevStart(start)] = v]
             /\ size'  = sz + 1
       /\ rc' = SUCCESS
       /\ UNCHANGED <<cap, out>>

PopEmpty ==
    /\ size = 0
    /\ rc' = BUFFER_EMPTY_ERROR
    /\ UNCHANGED <<arr, start, size, cap, out>>

\* pop_front(value): read _array[_start], --_size, advance _start.
PopFront ==
    \/ PopEmpty
    \/ /\ size > 0
       /\ out'   = arr[start]
       /\ size'  = size - 1
       /\ start' = (start + 1) % cap
       /\ rc'    = SUCCESS
       /\ UNCHANGED <<arr, cap>>

\* pop_back(value): read the last slot, --_size.
PopBack ==
    \/ PopEmpty
    \/ /\ size > 0
       /\ out'  = arr[BackSlot(start, size - 1)]
       /\ size' = size - 1
       /\ rc'   = SUCCESS
       /\ UNCHANGED <<arr, start, cap>>

(***************************************************************************)
(* pop_at(index): every element after index is copied one place towards   *)
(* the front, then pop_back() drops the now duplicated last one.           *)
(***************************************************************************)
PopAt(i) ==
    /\ i < size
    /\ out'  = Elem(i)
    /\ arr'  = [s \in Slots |->
                  IF \E j \in i .. size - 2 : s = (start + j) % cap
                  THEN arr[(s + 1) % cap]
                  ELSE arr[s]]
    /\ size' = size - 1
    /\ UNCHANGED <<start, cap, rc>>

(***************************************************************************)
(* resize_by_two: a fresh array of twice the capacity receives the         *)
(* elements in logical order from slot 0; _start becomes 0.                *)
(***************************************************************************)
ResizeByTwo ==
    /\ 2 * cap <= MaxCapacity
    /\ arr'   = [s \in Slots |-> IF s < size THEN Elem(s) ELSE Garbage]
    /\ cap'   = 2 * cap
    /\ start' = 0
    /\ UNCHANGED <<size, rc, out>>

Next ==
    \/ \E v \in Values, ow \in BOOLEAN : PushFront(v, ow) \/ PushBack(v, ow)
    \/ PopFront
    \/ PopBack
    \/ \E i \in 0 .. MaxCapacity - 1 : PopAt(i)
    \/ ResizeByTwo

Spec == Init /\ [][Next]_vars

-----------------------------------------------------------------------------
(***************************************************************************)
(* Properties.                                                             *)
(***************************************************************************)

\* Every variable of CircArray holds a value of its type, and _start and
\* _size stay within the allocated _capacity.
TypeOK ==
    /\ arr \in [Slots -> Values \cup {Garbage}]
    /\ cap \in 1 .. MaxCapacity
    /\ start \in 0 .. cap - 1
    /\ size \in 0 .. cap
    /\ rc \in {SUCCESS, NO_SPACE_ERROR, BUFFER_EMPTY_ERROR}
    /\ out \in Values

\* The refinement mapping: logical element j is _array[(_start+j) % cap].
Abs == [j \in 1 .. size |-> Elem(j - 1)]

RB == INSTANCE RingBuffer WITH buf <- Abs

\* The index arithmetic of all the operations above implements the deque of
\* RingBuffer: fronts, backs, overwrites and pops land on the right element.
ImplementsRingBuffer == RB!Spec

=============================================================================
