---------------------------- MODULE MCPriceParse -----------------------------
(* The trade texts the parsers are checked on: the two header fields, a    *)
(* symbol and a size around prices with a one- or two-digit whole part    *)
(* and none, one or two decimals; and texts cut short after the symbol or  *)
(* the price bar, with an empty size, with a fifth bar, with a symbol of   *)
(* ORDER_SYMBOL_LEN characters.  CHI-X short (4 decimal digits) and long   *)
(* (7 decimal digits) fields for 12.0, 12.25.                              *)
EXTENDS PriceParse

MCWhole == {<<"5">>, <<"1", "2">>}
MCFrac  == {<<>>, <<".", "5">>, <<".", "2", "5">>}
MCTpPrices == {w \o f : w \in MCWhole, f \in MCFrac}

MCHead == <<<<"1">>, <<"0">>>>
MCLongSymbol == [i \in 1 .. 10 |-> "A"]

MCTpPackets ==
    {MCHead \o <<<<"A">>, p, <<"3">>>> : p \in MCTpPrices}
      \cup {MCHead \o <<<<"A">>>>,
            MCHead \o <<<<"A">>, <<"1", "2">>>>,
            MCHead \o <<<<"A">>, <<"1", "2">>, <<>>>>,
            MCHead \o <<<<"A">>, <<"1", "2">>, <<"3">>, <<"4">>>>,
            MCHead \o <<MCLongSymbol, <<"1", "2">>, <<"3">>>>}

MCChixFields ==
    [whole : {12}, dec : {0, 2500}, decLen : {4}]
        \cup [whole : {12}, dec : {0, 2500000}, decLen : {7}]

\* One subscribed symbol on port 0; SourceSplit sends high, low and close.
MCRouting == <<<<<<"A">>, 0>>>>
MCSplitConf == "high" :> 0 @@ "low" :> 1 @@ "close" :> 2

=============================================================================
