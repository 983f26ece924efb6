---------------------------- MODULE MCScanFeeds -----------------------------
\* One symbol and an undocumented one, three topics, one league and one game
\* with an update that names none; two seconds of collection, one lost
\* connection, one crash.
EXTENDS ScanFeeds

MCTwapFrames ==
    {[topic |-> "twap_thirty", window |-> 0, symbol |-> "btc"],
     [topic |-> "sdk", window |-> 60, symbol |-> "btc"],
     [topic |-> "twap_sixty", window |-> 0, symbol |-> "doge"]}

MCGameFrames ==
    {[game |-> 1, league |-> "NBA"], [game |-> 2, league |-> "spl"], [game |-> 0, league |-> "NBA"]}
=============================================================================
