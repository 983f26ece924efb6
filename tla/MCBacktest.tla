----------------------------- MODULE MCBacktest -----------------------------
\* The latencies, penalties and ratios of config.py, and documents of three
\* kinds: every short file over a few rows that crowd around a decision, files
\* with rows a reader has to reject, and what the recorder writes.
EXTENDS Backtest

CONSTANTS MaxRows, SyntheticSteps

Level(price, size) == [price |-> price, size |-> 100 * size]
Quote(bid, ask, size) == [bids |-> <<Level(bid, size)>>, asks |-> <<Level(ask, size), Level(ask + 20, 20)>>]

First     == Row(1000, "book", Quote(400, 420, 5))
Within    == Row(5040, "book", Quote(410, 430, 50))
After     == Row(6000, "book", Quote(80, 120, 50))
NoAsks    == Row(5100, "book", [bids |-> <<Level(400, 5)>>, asks |-> <<>>])
Gap       == Row(5130, "gap", [reason |-> "feed_disconnect"])
Decide    == Row(5000, "decision", [info |-> 700])
DecideSoon == Row(5600, "decision", [info |-> 700])
DecideLate == Row(7000, "decision", [info |-> 700])
Resolve   == Row(5050, "resolve", [price |-> 1000])
Traded    == Row(5000, "trade", [price |-> 410])

Pool == {First, Within, After, Gap, Decide, DecideLate, Resolve, Traded}

Plain(rows) == [rows |-> rows, fees |-> [enabled |-> TRUE, rate |-> 4, words |-> {"dated"}], marketFees |-> NULL,
                words |-> {}, book |-> DemoBook, split |-> [trainEnd |-> 5000, validationEnd |-> 6000, oosStart |-> NULL]]

Short ==
    {Plain(<<First>> \o rows) : rows \in UNION {[1..n -> Pool] : n \in 0..MaxRows}}
      \cup {[Plain(rows) EXCEPT !.book = template] : rows \in [1..(MaxRows - 2) -> Pool], template \in {NULL, DemoBook}}

\* Each of these is refused, raises, or has rows that are left out.
Odd ==
    LET base == <<First, Decide, Within, DecideLate>>
        Bad(row) == Plain(<<First, row, Decide, First, DecideLate, Resolve>>)
        Asked(split) == [Plain(base) EXCEPT !.split = split]
    IN { Bad(NULL), Bad(Row(NULL, "book", Quote(400, 420, 5))), Bad(Row(Unreadable, "book", Quote(400, 420, 5))),
         Bad(Row(2000, "depth", [info |-> 1])), Bad(Row(500, "book", Quote(300, 310, 5))),
         Bad(Row(2000, "trade", [price |-> NULL])), Bad(NoAsks),
         Bad(Row(2000, "twap", [symbol |-> "btc/usd", window |-> NULL, value |-> 1])),
         Bad(Row(2000, "twap", [symbol |-> "btc/usd", window |-> 60, value |-> 1])),
         Bad(Row(2000, "sports_state", [home |-> "home", away |-> "away"])),
         Bad(Row(2000, "weather_forecast", [key |-> "default", mean |-> 70])),
         Bad(Row(2000, "esports_state", [home |-> "home", away |-> "away"])),
         Plain(<<Row(1000, "candle", [close |-> 400]), Decide, Resolve>>), Plain(<<>>), Plain(<<Decide>>),
         Plain(<<First, Decide, NoAsks, DecideLate>>), Plain(<<NoAsks, DecideLate>>),
         Plain(<<First, Decide, DecideSoon, DecideLate, After>>),
         Plain(<<First, [First EXCEPT !.payload = Quote(500, 520, 5)], First, Decide, DecideLate>>),
         [Plain(base) EXCEPT !.fees = NULL], [Plain(base) EXCEPT !.fees.enabled = NULL],
         [Plain(base) EXCEPT !.fees.words = {"clob"}], [Plain(base) EXCEPT !.fees.words = {"clob"}, !.words = {"as_of"}],
         [Plain(base) EXCEPT !.fees.rate = NULL], [Plain(base) EXCEPT !.fees.enabled = FALSE],
         [Plain(base) EXCEPT !.marketFees = [enabled |-> TRUE, rate |-> 7, words |-> {"fixture"}]],
         Asked([trainEnd |-> NULL, validationEnd |-> NULL, oosStart |-> NULL]),
         Asked([trainEnd |-> 6000, validationEnd |-> 6500, oosStart |-> 6800]),
         Asked([trainEnd |-> 5000, validationEnd |-> 5000, oosStart |-> 8000]),
         Asked([trainEnd |-> NULL, validationEnd |-> NULL, oosStart |-> 6000]) }

\* What the recorder leaves, with a decision added by hand; a poll that failed
\* leaves nothing to replay.
Answer  == [bids |-> <<Level(380, 5), NULL, Level(400, 5)>>, asks |-> <<Level(440, 9), Level(420, 5)>>]
Nothing == [bids |-> <<Level(380, 5)>>, asks |-> <<NULL>>]
Printed(symbol, window, ts) == [at |-> ts, symbol |-> symbol, window |-> window, value |-> 65000]

Recordings ==
    LET made == {Recorded(1000, answers, rate, prints) :
                   answers \in {<<Answer, Nothing, Answer>>, <<Answer, NULL>>, <<Nothing>>},
                   rate \in {NULL, 4},
                   prints \in {NULL, <<>>, <<Printed("btc/usd", 60, 1500), Printed("doge/usd", 60, 1600)>>}}
    IN {[recording EXCEPT !.rows = Append(@, DecideLate)] : recording \in made \ {NULL}}

MCDocuments == Short \cup Odd \cup Recordings \cup {Synthetic(0, SyntheticSteps, <<1, 2, 3>>, 290000)}

Intent(style, shares) == [style |-> style, shares |-> 100 * shares]
MCIntents == {Intent("TAKER", 20), Intent("MAKER", 20), Intent("TAKER", 2)}

=============================================================================
