--------------------------------- MODULE Sum ---------------------------------
(***************************************************************************)
(* The Sum strategy of src/click-2.0.1/elements/standard/sum.cc: the four  *)
(* operations an IndicatorBase node calls, as operators on the PortSet     *)
(* record of Buffers.  A FixedPt is [val, valid]; the cache VectorCache of *)
(* three CacheStructs is [v0, v1, win]: _local_cache[0]._value,            *)
(* _local_cache[1]._value and _local_cache[2]._ring_buffer.                *)
(***************************************************************************)
EXTENDS Integers, Sequences, RingOps, FixedPoint

CONSTANT BufLen     \* capacity of buffers[0], which the cache's buffer copies

\* calculate_sum_recursive(buffer): pops the front and adds the sum of the rest.
RECURSIVE CalculateSumRecursive(_)
CalculateSumRecursive(s) ==
    IF Len(s) = 1 THEN Head(s) ELSE Head(s) + CalculateSumRecursive(Tail(s))

\* initialize_element: buffers[0][0], a valid value.
SumInitializeElement(b) == FixedPt(At(b.bufs[0], 0))

\* process_naive: the sum of a copy of buffers[0], the whole window.
SumProcessNaive(b) == FixedPt(CalculateSumRecursive(b.bufs[0]))

\* process_ext: the naive sum, twice, and a copy of buffers[0].
SumProcessExt(b) ==
    LET r == CalculateSumRecursive(b.bufs[0])
    IN  [v0 |-> r, v1 |-> r, win |-> b.bufs[0]]

(***************************************************************************)
(* process_opt_ext(increments, cache): sum_buf is a copy of the cached     *)
(* window.  If it is full its back is popped and subtracted; the new value *)
(* increments[0] is added and pushed to the front.                         *)
(***************************************************************************)
SumProcessOptExt(incs, cache) ==
    LET sumBuf == cache.win
        new    == incs[0]
        full   == IsFull(sumBuf, BufLen)
        result == IF full THEN cache.v1 - Back(sumBuf) + new ELSE cache.v1 + new
        kept   == IF full THEN PopBackSeq(sumBuf) ELSE sumBuf
    IN  [v0 |-> result, v1 |-> result, win |-> PushFrontSeq(kept, new, BufLen)]

\* cache[0]._value, the value the node sends.
SumPrimary(cache) == FixedPt(cache.v0)

\* The three default-constructed CacheStructs of the constructor.
SumEmptyCache == [v0 |-> 0, v1 |-> 0, win |-> <<>>]

=============================================================================
