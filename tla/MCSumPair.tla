------------------------------ MODULE MCSumPair ------------------------------
(* IndicatorPair with seven strategies at once: Sum, Pdm, Ndm, Vmu, Dx,   *)
(* Ndi and Vid.  Two ports, windows of two, values 1 to 3, and enough     *)
(* rounds after INIT for the windows to fill, evict and roll back.        *)
(* Default is 0, the value of FixedPt(), which no port ever receives.     *)
(* For Pdm, Ndm and Vmu port 0 carries a bar's high and port 1 its low,   *)
(* as SourceSplit sends them; for Dx, Ndi and Vid the two ports carry the *)
(* outputs of their two upstream elements.                                *)
(*                                                                         *)
(* Elements fed the same messages hold the same PortSet and take the same *)
(* branches of push(): only the strategy and its cache differ.  So each    *)
(* node here stands for the seven elements at once: its cache is the      *)
(* tuple of their caches, and its value the tuple of their values, each   *)
(* with its own valid flag.  The node sends when any of them would; an    *)
(* element that would not send shows as an invalid entry of the tuple.    *)
EXTENDS IndicatorPair

Sm == INSTANCE Sum
D  == INSTANCE Dm
V  == INSTANCE Vmu
Q  == INSTANCE Quotients WITH FBits <- 2

MCVals == {1, 2, 3}
MCPorts == {0, 1}
MCMaxTs == 5

\* The values of the seven elements, in the order above, as one.
Tuple(q) ==
    [val   |-> [k \in DOMAIN q |-> [val |-> q[k].val, valid |-> q[k].valid]],
     valid |-> \E k \in DOMAIN q : q[k].valid]

MCInitializeElement(b) ==
    Tuple(<<Sm!SumInitializeElement(b), D!DmInitializeElement(b),
            D!DmInitializeElement(b), V!VmuInitializeElement(b),
            Q!DxInitializeElement(b), Q!NdiInitializeElement(b), Q!VidInitializeElement(b)>>)
MCProcessNaive(b) ==
    Tuple(<<Sm!SumProcessNaive(b), D!PdmProcessNaive(b), D!NdmProcessNaive(b),
            V!VmuProcessNaive(b), Q!DxProcessNaive(b), Q!NdiProcessNaive(b),
            Q!VidProcessNaive(b)>>)
MCProcessExt(b) ==
    <<Sm!SumProcessExt(b), D!PdmProcessExt(b), D!NdmProcessExt(b), V!VmuProcessExt(b),
      Q!DxProcessExt(b), Q!NdiProcessExt(b), Q!VidProcessExt(b)>>
MCProcessOptExt(i, c) ==
    <<Sm!SumProcessOptExt(i, c[1]), D!PdmProcessOptExt(i, c[2]),
      D!NdmProcessOptExt(i, c[3]), V!VmuProcessOptExt(i, c[4]),
      Q!DxProcessOptExt(i, c[5]), Q!NdiProcessOptExt(i, c[6]), Q!VidProcessOptExt(i, c[7])>>
MCPrimary(c) ==
    Tuple(<<Sm!SumPrimary(c[1]), D!DmPrimary(c[2]), D!DmPrimary(c[3]), V!VmuPrimary(c[4]),
            Q!QuotientPrimary(c[5]), Q!QuotientPrimary(c[6]), Q!QuotientPrimary(c[7])>>)
MCEmptyCache ==
    <<Sm!SumEmptyCache, D!DmEmptyCache, D!DmEmptyCache, V!VmuEmptyCache,
      Q!QuotientEmptyCache, Q!QuotientEmptyCache, Q!QuotientEmptyCache>>

\* The source stops after MCMaxTs rounds.
MCBound == clock <= MCMaxTs

=============================================================================
