---------------------------- MODULE MCHandCoded -----------------------------
(* The hand-coded engine with two listed symbols, prices 1.0 and 2.0 (raw *)
(* 4 and 8 at 2 fraction bits), -n 2 (alfa 2/3, Vortex sums of one bar),  *)
(* up to five trades and three timer firings, run with each of -t, -d, -v *)
(* and -a (the last two command lines exit).                               *)
EXTENDS HandCoded

MCSyms == {"A", "B"}
MCPrices == {4, 8}
\* Each indicator alone, with logging or an unknown option alongside, and
\* the empty command line.
MCCmdLines == {<<"t">>, <<"d", "e">>, <<"v", "s", "n">>, <<"a", "w">>,
               <<"t", "?", "d">>, <<>>}

=============================================================================
