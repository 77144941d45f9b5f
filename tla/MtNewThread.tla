----------------------------- MODULE MtNewThread -----------------------------
(***************************************************************************)
(* MtNewThread (src/click-2.0.1/elements/standard/mt_new_thread.cc): a     *)
(* CircArray<WritablePacket*> _buffer guarded by a Spinlock between the    *)
(* thread that calls push() and the task whose run_task() drains it.       *)
(*                                                                         *)
(* Each thread is a program counter; every statement that touches shared  *)
(* state is one step, so the unlocked _buffer.empty() of run_task, and     *)
(* the statements of push_back and pop_front inside the lock, interleave   *)
(* with the other thread exactly where the code lets them.  The packets    *)
(* are 1 .. NumPackets, pushed in that order.                              *)
(***************************************************************************)
EXTENDS Naturals, Sequences, FiniteSets
LOCAL SX == INSTANCE SequencesExt

CONSTANTS
    Capacity,       \* the capacity of _buffer (100 in the constructor)
    NumPackets,     \* how many packets the upstream pushes
    Active,         \* the ACTIVE configuration argument
    Garbage         \* a slot of new T[] that nobody has written

ASSUME Capacity \in Nat \ {0} /\ NumPackets \in Nat

None == 0
Slots == 0 .. Capacity - 1

VARIABLES
    arr, start, size,   \* _buffer's _array, _start, _size
    lock,               \* the holder of _spinlock: "none", "push" or "task"
    ppc, pkt,           \* push(): its next statement and the clone it holds
    tpc, hand,          \* run_task(): its next statement and the popped packet
    sent, dropped, out  \* ghost: packets pushed, packets lost, packets output

vars == <<arr, start, size, lock, ppc, pkt, tpc, hand, sent, dropped, out>>

\* The constructor: _buffer(100) is new T[100], _start = _size = 0.
Init ==
    /\ arr = [i \in Slots |-> Garbage] /\ start = 0 /\ size = 0
    /\ lock = "none"
    /\ ppc = "idle" /\ pkt = None
    /\ tpc = "run" /\ hand = None
    /\ sent = <<>> /\ dropped = {} /\ out = <<>>

-----------------------------------------------------------------------------
(* push(int, Packet *p), one step per statement.                           *)

\* The upstream calls push(p); p->clone() and uniqueify() succeed.
PushClone ==
    /\ ppc = "idle" /\ Len(sent) < NumPackets
    /\ sent' = Append(sent, Len(sent) + 1)
    /\ pkt' = Len(sent) + 1
    /\ ppc' = "acquire"
    /\ UNCHANGED <<arr, start, size, lock, tpc, hand, dropped, out>>

\* p->clone() returns null: push() does nothing with the packet.
PushCloneFails ==
    /\ ppc = "idle" /\ Len(sent) < NumPackets
    /\ sent' = Append(sent, Len(sent) + 1)
    /\ dropped' = dropped \cup {Len(sent) + 1}
    /\ UNCHANGED <<arr, start, size, lock, ppc, pkt, tpc, hand, out>>

\* _spinlock.acquire() spins until the lock is free.
PushAcquire ==
    /\ ppc = "acquire" /\ lock = "none"
    /\ lock' = "push" /\ ppc' = "full"
    /\ UNCHANGED <<arr, start, size, pkt, tpc, hand, sent, dropped, out>>

\* push_back(write_packet) on a full buffer returns NO_SPACE_ERROR; the
\* clone is lost.
PushFull ==
    /\ ppc = "full" /\ size = Capacity
    /\ dropped' = dropped \cup {pkt}
    /\ pkt' = None /\ ppc' = "release"
    /\ UNCHANGED <<arr, start, size, lock, tpc, hand, sent, out>>

\* A faulty push_back that writes without its full check.
PushWriteNoFullCheck ==
    /\ ppc = "full"
    /\ arr' = [arr EXCEPT ![(start + size) % Capacity] = pkt]
    /\ ppc' = "incr"
    /\ UNCHANGED <<start, size, lock, pkt, tpc, hand, sent, dropped, out>>

\* _array[(_start + _size) % _capacity] = value;
PushWrite ==
    /\ ppc = "full" /\ size < Capacity
    /\ arr' = [arr EXCEPT ![(start + size) % Capacity] = pkt]
    /\ ppc' = "incr"
    /\ UNCHANGED <<start, size, lock, pkt, tpc, hand, sent, dropped, out>>

\* ++_size;
PushIncr ==
    /\ ppc = "incr"
    /\ size' = size + 1
    /\ pkt' = None /\ ppc' = "release"
    /\ UNCHANGED <<arr, start, lock, tpc, hand, sent, dropped, out>>

\* _spinlock.release() and return.
PushRelease ==
    /\ ppc = "release"
    /\ lock' = "none" /\ ppc' = "idle"
    /\ UNCHANGED <<arr, start, size, pkt, tpc, hand, sent, dropped, out>>

-----------------------------------------------------------------------------
(* run_task(), one step per statement.                                          *)

\* if (!_active) return false: an inactive task is never rescheduled, so
\* only an active one runs.  if (_buffer.empty()) reads _size without the
\* lock; an empty buffer reschedules the task and returns.
\* A faulty run_task that returns false on an empty buffer, so the task
\* is never rescheduled.
TaskEmptyNoReschedule ==
    /\ tpc = "run" /\ Active /\ size = 0
    /\ tpc' = "stopped"
    /\ UNCHANGED <<arr, start, size, lock, ppc, pkt, hand, sent, dropped, out>>

TaskEmpty ==
    /\ tpc = "run" /\ Active /\ size = 0
    /\ UNCHANGED vars

TaskNotEmpty ==
    /\ tpc = "run" /\ Active /\ size # 0
    /\ tpc' = "acquire"
    /\ UNCHANGED <<arr, start, size, lock, ppc, pkt, hand, sent, dropped, out>>

\* A faulty run_task that pops without taking the spin lock.
TaskAcquireNoLock ==
    /\ tpc = "acquire"
    /\ tpc' = "read"
    /\ UNCHANGED <<arr, start, size, lock, ppc, pkt, hand, sent, dropped, out>>

\* _spinlock.acquire()
TaskAcquire ==
    /\ tpc = "acquire" /\ lock = "none"
    /\ lock' = "task" /\ tpc' = "read"
    /\ UNCHANGED <<arr, start, size, ppc, pkt, hand, sent, dropped, out>>

\* pop_front(): value = _array[_start]; --_size;  (the assert on an empty
\* buffer cannot fail: only this task removes, and it saw _size # 0)
TaskRead ==
    /\ tpc = "read"
    /\ hand' = arr[start]
    /\ size' = size - 1
    /\ tpc' = "advance"
    /\ UNCHANGED <<arr, start, lock, ppc, pkt, sent, dropped, out>>

\* _start = (_start + 1) % _capacity;
TaskAdvance ==
    /\ tpc = "advance"
    /\ start' = (start + 1) % Capacity
    /\ tpc' = "release"
    /\ UNCHANGED <<arr, size, lock, ppc, pkt, hand, sent, dropped, out>>

\* _spinlock.release()
TaskRelease ==
    /\ tpc = "release"
    /\ lock' = "none" /\ tpc' = "output"
    /\ UNCHANGED <<arr, start, size, ppc, pkt, hand, sent, dropped, out>>

\* output(0).push(write_packet); _task.fast_reschedule(); return true.
TaskOutput ==
    /\ tpc = "output"
    /\ out' = Append(out, hand)
    /\ hand' = None /\ tpc' = "run"
    /\ UNCHANGED <<arr, start, size, lock, ppc, pkt, sent, dropped>>

PushStep ==
    \/ PushClone \/ PushCloneFails \/ PushAcquire \/ PushFull
    \/ PushWrite \/ PushIncr \/ PushRelease

TaskStep ==
    \/ TaskEmpty \/ TaskNotEmpty \/ TaskAcquire \/ TaskRead
    \/ TaskAdvance \/ TaskRelease \/ TaskOutput

Next == PushStep \/ TaskStep

(***************************************************************************)
(* Fairness.  The task reschedules itself on every path, so Click's task   *)
(* scheduler runs it again and again: every task step is weakly fair.  A   *)
(* thread inside push() runs on to its return; a new push() is up to the   *)
(* upstream, so PushClone and PushCloneFails carry no fairness.            *)
(***************************************************************************)
PushInside == PushAcquire \/ PushFull \/ PushWrite \/ PushIncr \/ PushRelease

Spec == Init /\ [][Next]_vars /\ WF_vars(TaskStep) /\ WF_vars(PushInside)

-----------------------------------------------------------------------------
(* The contents of _buffer, front first.  Between --_size and the advance *)
(* of _start the task has already taken the front element.                *)
FrontSlot == IF tpc = "advance" THEN (start + 1) % Capacity ELSE start

Contents == [j \in 1 .. size |-> arr[(FrontSlot + j - 1) % Capacity]]

\* The packet each thread holds outside the buffer, as a sequence.
Held(x) == IF x = None THEN <<>> ELSE <<x>>

\* Every variable holds a value of its type, and _size never exceeds the
\* capacity.
TypeOK ==
    /\ arr \in [Slots -> 1 .. NumPackets \cup {Garbage}]
    /\ start \in Slots /\ size \in 0 .. Capacity
    /\ lock \in {"none", "push", "task"}
    /\ pkt \in 0 .. NumPackets /\ hand \in 0 .. NumPackets \cup {Garbage}
    /\ dropped \subseteq 1 .. NumPackets

(***************************************************************************)
(* The hand-off loses nothing it accepted and reorders nothing: what the   *)
(* task has output, the packet in its hand, the buffer and the producer's  *)
(* clone not yet written are, in this order, exactly the pushed packets    *)
(* that were not dropped.  The producer's push_back and the task's         *)
(* pop_front must not interleave inside the lock for this to hold.         *)
(***************************************************************************)
FifoNoLoss ==
    out \o Held(hand) \o Contents \o Held(pkt) = SelectSeq(sent, LAMBDA p : p \notin dropped)

\* Every packet the buffer accepted is eventually output by the task.
EveryAcceptedOutput ==
    \A p \in 1 .. NumPackets :
        (\E j \in 1 .. size : Contents[j] = p) ~> SX!Contains(out, p)

=============================================================================
