--------------------------- MODULE MCPaperSession ---------------------------
EXTENDS PaperSession

MCCategory == <<"crypto", "crypto", "sports">>
\* Two short-window crypto markets share a window and a group, the third is apart.
MCIdentity ==
  << [underlying |-> "btc", window |-> "5m", tags |-> {}, place |-> None],
     [underlying |-> "eth", window |-> "5m", tags |-> {}, place |-> None],
     [underlying |-> None, window |-> None, tags |-> {}, place |-> "boston"] >>

MCRules == {"same_underlying", "same_category_window", "tag_overlap", "yaml_groups"}

MCGroups ==
  { [id |-> "short", category |-> "crypto", windows |-> {"5m"}, underlyings |-> {}, tagsAny |-> {},
     key |-> None, cap |-> MaxCorrelatedExposure, maxMarkets |-> 2] }

MCRegimes == <<>>

MCPrices == {2}
MCMarkPrices == {1, 3}
MCSharesWanted == {2, 4}
MCLotSizes == {2}

=============================================================================
