--------------------------------- MODULE Vmu ----------------------------------
(***************************************************************************)
(* The Vmu strategy of src/click-2.0.1/elements/standard/vmu.cc, the      *)
(* vortex up-movement |high_t - low_(t-1)|: buffers[0] is the high of each *)
(* bar and buffers[1] its low.  The cache VectorCache of two CacheStructs  *)
(* is [v0, v1]: the result and the previous low.                           *)
(***************************************************************************)
EXTENDS Integers, Sequences, RingOps, FixedPoint

\* initialize_element: an invalid value; the first bar has no previous one.
VmuInitializeElement(b) == InvalidFixedPt

\* process_naive: fpt_abs(high_buf[0] - low_buf[1]).
VmuProcessNaive(b) == FixedPt(FxAbs(At(b.bufs[0], 0) - At(b.bufs[1], 1)))

\* process_ext: the naive result, and buffers[1][0] as the previous low of
\* the next call.
VmuProcessExt(b) == [v0 |-> VmuProcessNaive(b).val, v1 |-> At(b.bufs[1], 0)]

\* process_opt_ext: the new high against the cached previous low; the new
\* low replaces it.
VmuProcessOptExt(i, c) == [v0 |-> FxAbs(i[0] - c.v1), v1 |-> i[1]]

\* cache[0]._value, the value the node sends.
VmuPrimary(c) == FixedPt(c.v0)

\* The two default-constructed CacheStructs of the constructor.
VmuEmptyCache == [v0 |-> 0, v1 |-> 0]

=============================================================================
