--------------------------------- MODULE Trix ---------------------------------
(***************************************************************************)
(* The Trix strategy of src/click-2.0.1/elements/standard/trix.cc: the     *)
(* rate of change of buffers[0] in percent, 100 * (last - penultimate) /   *)
(* penultimate, over the raw fixedpt values with FBits fraction bits.      *)
(* The cache VectorCache of two CacheStructs is [v0, v1]: the result and   *)
(* the last value, which becomes the next call's penultimate one.          *)
(***************************************************************************)
EXTENDS Integers, Sequences, RingOps, FixedPoint

CONSTANT FBits      \* FIXEDPT_FBITS

\* FixedPt::fromInt(100), the left operand of 100 * x.
Hundred == 100 * 2^FBits

\* initialize_element: a valid 0.
TrixInitializeElement(b) == FixedPt(0)

\* process_naive: pop_front twice from a copy of buffers[0], then
\* 100*(last_value - penultimate_value)/penultimate_value, which C++ groups
\* as (100 * difference) / penultimate.
TrixProcessNaive(b) ==
    LET last == At(b.bufs[0], 0)
        pen  == At(b.bufs[0], 1)
    IN  FixedPt(FxDiv(FxMul(Hundred, last - pen, FBits), pen, FBits))

\* process_ext: the naive result, and buffers[0][0] as the next
\* penultimate value.
TrixProcessExt(b) == [v0 |-> TrixProcessNaive(b).val, v1 |-> At(b.bufs[0], 0)]

\* process_opt_ext: 100*((last_value - penultimate_value)/penultimate_value)
\* with the penultimate value from the cache; the quotient is taken first.
TrixProcessOptExt(i, c) ==
    [v0 |-> FxMul(Hundred, FxDiv(i[0] - c.v1, c.v1, FBits), FBits), v1 |-> i[0]]

\* cache[0]._value, the value the node sends.
TrixPrimary(c) == FixedPt(c.v0)

\* The two default-constructed CacheStructs of the constructor.
TrixEmptyCache == [v0 |-> 0, v1 |-> 0]

=============================================================================
