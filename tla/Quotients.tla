------------------------------- MODULE Quotients ------------------------------
(***************************************************************************)
(* The three stateless two-port strategies of src/click-2.0.1/elements/   *)
(* standard: Dx (dx.cc), the directional index 100 |pdi - ndi| / (pdi +   *)
(* ndi); Ndi (ndi.cc), ndm_smoothed / tr_smoothed; and Vid (vid.cc),      *)
(* vmd_summed / tr_summed.  Each reads the front of its two windows, or   *)
(* the two increments, guards its division and keeps the result as its   *)
(* one CacheStruct [v0].                                                   *)
(***************************************************************************)
EXTENDS Integers, Sequences, RingOps, FixedPoint

CONSTANT FBits    \* fraction bits of fixedpt

\* 100 * fpt_abs(pdi - ndi) / (pdi + ndi), or 0 when pdi + ndi is 0.
DxOf(pdi, ndi) ==
    IF pdi + ndi = 0 THEN 0
    ELSE FxDiv(FxMul(100 * 2^FBits, FxAbs(pdi - ndi), FBits), pdi + ndi, FBits)

\* Ndi and Vid: a / b, or 0 when b is 0.
GuardedDiv(a, b) == IF b = 0 THEN 0 ELSE FxDiv(a, b, FBits)

\* Dx::process_naive, on buffers[0][0] and buffers[1][0];
\* initialize_element returns the same.
DxProcessNaive(b) == FixedPt(DxOf(At(b.bufs[0], 0), At(b.bufs[1], 0)))
DxInitializeElement(b) == DxProcessNaive(b)

\* Dx::process_ext: the naive value into _local_cache[0].
DxProcessExt(b) == [v0 |-> DxProcessNaive(b).val]

\* Dx::process_opt_ext: the same formula on the two increments.
DxProcessOptExt(i, c) == [v0 |-> DxOf(i[0], i[1])]

\* Ndi::process_naive and initialize_element.
NdiProcessNaive(b) == FixedPt(GuardedDiv(At(b.bufs[0], 0), At(b.bufs[1], 0)))
NdiInitializeElement(b) == NdiProcessNaive(b)

NdiProcessExt(b) == [v0 |-> NdiProcessNaive(b).val]

NdiProcessOptExt(i, c) == [v0 |-> GuardedDiv(i[0], i[1])]

\* Vid::process_naive and initialize_element.
VidProcessNaive(b) == FixedPt(GuardedDiv(At(b.bufs[0], 0), At(b.bufs[1], 0)))
VidInitializeElement(b) == VidProcessNaive(b)

VidProcessExt(b) == [v0 |-> VidProcessNaive(b).val]

VidProcessOptExt(i, c) == [v0 |-> GuardedDiv(i[0], i[1])]

\* cache[0]._value, the value the node sends.
QuotientPrimary(c) == FixedPt(c.v0)

\* The one default-constructed CacheStruct of each constructor.
QuotientEmptyCache == [v0 |-> 0]

=============================================================================
