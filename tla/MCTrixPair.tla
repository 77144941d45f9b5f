----------------------------- MODULE MCTrixPair ------------------------------
(* IndicatorPair with the Trix strategy on its one port, buffers[0]:        *)
(* windows of two, 2 fraction bits, and the values 1.0 and 1.25 (raw 4 and *)
(* 5), so that a rise or a fall is a quarter of the previous value or less. *)
EXTENDS IndicatorPair

T == INSTANCE Trix WITH FBits <- 2

MCVals == {4, 5}
MCPorts == {0}
MCMaxTs == 5

MCInitializeElement(b) == T!TrixInitializeElement(b)
MCProcessNaive(b)      == T!TrixProcessNaive(b)
MCProcessExt(b)        == T!TrixProcessExt(b)
MCProcessOptExt(i, c)  == T!TrixProcessOptExt(i, c)
MCPrimary(c)           == T!TrixPrimary(c)
MCEmptyCache           == T!TrixEmptyCache

\* The source stops after MCMaxTs rounds.
MCBound == clock <= MCMaxTs

(***************************************************************************)
(* Strategy equivalence within fixed-point tolerance (spec.md section 8:  *)
(* process_naive and the chain process_ext then process_opt_ext agree     *)
(* within fixed-point tolerance): for every message the NAIVE and the     *)
(* STARTUP/NORMAL Trix nodes both send or both discard, and what they     *)
(* send differs by at most one unit of the last place.                    *)
(***************************************************************************)
PathsAgreeWithinUlp ==
    /\ nEmit.kind = sEmit.kind
    /\ nEmit # N!NoMsg => (nEmit.valid = sEmit.valid /\ T!FxAbs(nEmit.val - sEmit.val) <= 1)

=============================================================================
