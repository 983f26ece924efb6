---------------------------- MODULE MCAllocator ----------------------------
(* Two short-window markets on two underlyings, one long-window market on  *)
(* the first underlying and one weather market: a group joins the first    *)
(* two, the underlying the first and the third, tags the third and fourth. *)
EXTENDS Allocator

MCCategory == <<"crypto", "crypto", "crypto", "weather">>

MCIdentity ==
  << [underlying |-> "btc", window |-> "5m", tags |-> {"hot"}, place |-> None],
     [underlying |-> "eth", window |-> "15m", tags |-> {"hot", "tokyo"}, place |-> None],
     [underlying |-> "btc", window |-> "4h", tags |-> {"hot", "tokyo"}, place |-> None],
     [underlying |-> None, window |-> None, tags |-> {"tokyo"}, place |-> "tokyo"] >>

MCRules == {"same_underlying", "same_category_window", "tag_overlap", "yaml_groups"}

MCGroups ==
  { [id |-> "short", category |-> "crypto", windows |-> {"5m", "15m"}, underlyings |-> {"btc", "eth"},
     tagsAny |-> {}, key |-> None, cap |-> 4, maxMarkets |-> 2],
    [id |-> "city", category |-> "weather", windows |-> {}, underlyings |-> {},
     tagsAny |-> {}, key |-> "place", cap |-> 3, maxMarkets |-> 1],
    [id |-> "asia", category |-> None, windows |-> {}, underlyings |-> {},
     tagsAny |-> {"tokyo"}, key |-> None, cap |-> 5, maxMarkets |-> 1] }

MCGeneric == {"hot"}

MCRegimes == << [id |-> "shock", scale |-> [short |-> 50, city |-> 100, asia |-> 100]] >>

MCHeld == {2}
MCShifts == {-1, 2}
MCIntended == {2, 3}

=============================================================================
