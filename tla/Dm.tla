---------------------------------- MODULE Dm ----------------------------------
(***************************************************************************)
(* The Pdm and Ndm strategies of src/click-2.0.1/elements/standard/pdm.cc  *)
(* and ndm.cc: the four operations an IndicatorBase node calls, as         *)
(* operators on the PortSet record of Buffers.  buffers[0] is the high of  *)
(* each bar and buffers[1] its low.  The two elements are the same code    *)
(* around a different calculate_pdm / calculate_ndm.  The cache           *)
(* VectorCache of three CacheStructs is [v0, v1, v2]: the result, the      *)
(* previous high and the previous low.                                     *)
(***************************************************************************)
EXTENDS Integers, Sequences, RingOps, FixedPoint

\* calculate_pdm: the up-move nh - ph, unless it is below the down-move
\* pl - nl or below zero.
CalculatePdm(nl, pl, nh, ph) ==
    IF nh - ph < pl - nl THEN FixedPt(0)
    ELSE IF nh - ph < 0 THEN FixedPt(0)
    ELSE FixedPt(nh - ph)

\* calculate_ndm: the down-move pl - nl, unless it is below the up-move
\* nh - ph or below zero.
CalculateNdm(nl, pl, nh, ph) ==
    IF pl - nl < nh - ph THEN FixedPt(0)
    ELSE IF pl - nl < 0 THEN FixedPt(0)
    ELSE FixedPt(pl - nl)

\* initialize_element: an invalid value; the first bar has no previous one.
DmInitializeElement(b) == InvalidFixedPt

\* The new and the previous high and low: [0] and [1] of each window.
Bars(b) ==
    [nl |-> At(b.bufs[1], 0), pl |-> At(b.bufs[1], 1),
     nh |-> At(b.bufs[0], 0), ph |-> At(b.bufs[0], 1)]

\* Pdm::process_naive: calculate_pdm on the two bars of the windows.
PdmProcessNaive(b) == LET x == Bars(b) IN CalculatePdm(x.nl, x.pl, x.nh, x.ph)

\* Pdm::process_ext: the naive result, and the new high and low as the
\* previous bar of the next call.
PdmProcessExt(b) ==
    [v0 |-> PdmProcessNaive(b).val, v1 |-> Bars(b).nh, v2 |-> Bars(b).nl]

\* A faulty Pdm::process_opt_ext that never moves the previous bar on.
PdmProcessOptExtKeepPrev(i, c) ==
    [c EXCEPT !.v0 = CalculatePdm(i[1], c.v2, i[0], c.v1).val]

\* Pdm::process_opt_ext: increments[0] and [1] are the new high and low,
\* the previous ones come from the cache, and the new ones replace them.
PdmProcessOptExt(i, c) ==
    [v0 |-> CalculatePdm(i[1], c.v2, i[0], c.v1).val, v1 |-> i[0], v2 |-> i[1]]

\* Ndm's three operations: the same code around calculate_ndm.
NdmProcessNaive(b) == LET x == Bars(b) IN CalculateNdm(x.nl, x.pl, x.nh, x.ph)

NdmProcessExt(b) ==
    [v0 |-> NdmProcessNaive(b).val, v1 |-> Bars(b).nh, v2 |-> Bars(b).nl]

NdmProcessOptExt(i, c) ==
    [v0 |-> CalculateNdm(i[1], c.v2, i[0], c.v1).val, v1 |-> i[0], v2 |-> i[1]]

\* cache[0]._value, the value the node sends.
DmPrimary(cache) == FixedPt(cache.v0)

\* The three default-constructed CacheStructs of the constructor: FixedPt()
\* is a valid 0.
DmEmptyCache == [v0 |-> 0, v1 |-> 0, v2 |-> 0]

=============================================================================
