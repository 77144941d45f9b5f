------------------------- MODULE MCIntervalPipeline -------------------------
(* IntervalPipeline with one symbol, two order references, two prices    *)
(* (raw 4 and 8, so 1.0 and 2.0 at 2 fraction bits), one- and two-share  *)
(* orders, intervals of two ticks over a clock of five (intervals 0, 1   *)
(* and 2), EWMA_ALPHA 2 and at most four trades.                          *)
EXTENDS IntervalPipeline

MCRefs == {"r1", "r2"}
MCSyms == {"S"}
MCPrices == {4, 8}
MCShares == {1, 2}

=============================================================================
