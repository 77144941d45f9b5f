------------------------------- MODULE MCJoiner -------------------------------
(* The joiners for TLC, over the values 0 and 2, with 2 fraction bits and  *)
(* a clock up to 4.  DirectionalIndex and DxIndicator run the same push()  *)
(* on the same saved-packet state, so one joiner whose Combine sends both  *)
(* formulas, the DirectionalIndex of (PortA, PortB) and the DxIndicator of *)
(* (PortA, PortB), checks both elements on every input.                    *)
EXTENDS Joiner

MCVals == {0, 2}

MCCombine(a, b) == <<Di(a, b), Dx(a, b)>>

=============================================================================
