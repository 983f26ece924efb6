---------------------------- MODULE MCEvaluation ----------------------------
\* The defaults of config.py, and listings that each take another way through
\* the gates: a base market of each category and what one field changes in it.
EXTENDS Evaluation

Text == [found |-> {"source", "uma"}, end |-> 900, slash |-> NULL, alias |-> NULL, strike |-> NULL,
         above |-> NULL, threshold |-> NULL, opening |-> NULL, number |-> NULL, league |-> NULL, word |-> NULL,
         home |-> NULL, away |-> NULL, period |-> NULL, score |-> NULL, live |-> NULL, ended |-> NULL]

Level(price, size) == [price |-> price, size |-> size]

Book == [bids |-> <<Level(480, 40), Level(470, 20)>>, asks |-> <<Level(490, 6), Level(500, 20), Level(540, 5)>>,
         tick |-> NULL, minSize |-> NULL, at |-> 0]

NoFees == [rate |-> NULL, minSize |-> NULL, tick |-> NULL]

Crypto == [id |-> "a", tags |-> {"crypto"}, category |-> NULL, token |-> "yes", outcome |-> "up",
           closed |-> FALSE, archived |-> FALSE, accepting |-> TRUE, orderBook |-> TRUE, liquidity |-> 20000,
           volume |-> 8000, volume24 |-> 6000, bid |-> 480, ask |-> 490, spread |-> NULL, last |-> 487,
           competitive |-> NULL, minSize |-> NULL, tick |-> 10, fees |-> [enabled |-> TRUE, rate |-> 7, at |-> 0],
           text |-> Text, book |-> NULL, at |-> 0, tradeable |-> FALSE,
           answers |-> [book |-> Book, fees |-> NoFees]]

Other   == [Crypto EXCEPT !.id = "b"]
Twap    == [Crypto EXCEPT !.text.found = {"source", "uma", "twap", "60s"}, !.text.slash = "btc/usd",
                          !.text.strike = 100000]
Weather == [Crypto EXCEPT !.tags = {"weather"}, !.text.number = 70,
              !.text.found = {"source", "uma", "city", "metric", "unit", "window", "above"}]
Sports  == [Crypto EXCEPT !.tags = {"nba"}, !.text.found = {"source", "uma", "sports_type"},
              !.text.league = "NBA", !.text.home = "home", !.text.away = "away"]
Esports == [Crypto EXCEPT !.tags = {"esports"}, !.text.found = {"source", "uma", "best_of"},
              !.text.league = "cs2", !.text.home = "home", !.text.away = "away"]

Variants ==
    { Crypto, Twap, Weather, Sports, Esports,
      [Crypto EXCEPT !.accepting = NULL], [Crypto EXCEPT !.tags = {"politics"}],
      [Crypto EXCEPT !.text.found = {}], [Crypto EXCEPT !.fees.enabled = NULL],
      [Crypto EXCEPT !.fees.enabled = NULL, !.answers.fees.rate = 2], [Crypto EXCEPT !.fees.rate = NULL],
      [Crypto EXCEPT !.answers.book = NULL], [Crypto EXCEPT !.answers.book.asks = <<>>],
      [Crypto EXCEPT !.answers.book = NULL, !.bid = NULL], [Crypto EXCEPT !.liquidity = 250, !.volume24 = 60, !.volume = 60000, !.answers.book = NULL, !.bid = 390],
      [Crypto EXCEPT !.answers.book.asks = <<Level(560, 30), Level(580, 2)>>],
      [Crypto EXCEPT !.answers.book.bids = <<Level(500, 30), Level(470, 0)>>],
      [Crypto EXCEPT !.answers.book.bids = <<Level(480, 2)>>, !.last = 480],
      [Crypto EXCEPT !.answers.book.bids = <<Level(480, 6)>>, !.answers.book.minSize = 12, !.text.end = 50000],
      [Twap EXCEPT !.text.found = @ \ {"60s"}], [Twap EXCEPT !.text.slash = "ton/usd"],
      [Twap EXCEPT !.text.strike = NULL], [Twap EXCEPT !.text.end = NULL],
      [Twap EXCEPT !.outcome = "down", !.text.strike = 101500],
      [Weather EXCEPT !.text.found = @ \ {"unit"}], [Weather EXCEPT !.text.found = @ \cup {"or_below"}],
      [Weather EXCEPT !.text.found = (@ \ {"city"}) \cup {"station"}],
      [Weather EXCEPT !.text.found = (@ \ {"above"}) \cup {"exact"}],
      [Sports EXCEPT !.text.league = "Soccer", !.text.score = <<2, 0>>, !.text.period = "2H"],
      [Sports EXCEPT !.text.away = NULL], [Sports EXCEPT !.text.league = "NFL"],
      [Sports EXCEPT !.text.score = <<80, 70>>, !.text.period = "OT"],
      [Sports EXCEPT !.text.score = <<50, 40>>, !.text.period = "HT", !.text.home = "third"],
      [Esports EXCEPT !.text.home = "away"], [Esports EXCEPT !.text.home = "third"],
      [Esports EXCEPT !.text.league = "lol"] }

\* Two markets of one scan, the second without a book; rows no scan returns; a
\* listing that is longer than max_markets.
MCRows ==
    { <<v>> : v \in Variants } \cup
    { <<Crypto, Other>>, <<[Other EXCEPT !.answers.book = NULL], Crypto>>,
      <<[Crypto EXCEPT !.closed = TRUE], [Crypto EXCEPT !.accepting = FALSE], [Crypto EXCEPT !.orderBook = FALSE],
        [Crypto EXCEPT !.liquidity = 100], [Crypto EXCEPT !.spread = 150],
        [Crypto EXCEPT !.answers.book.asks = <<Level(700, 5)>>], Other, Twap, Crypto>> }

Item == [label |-> NULL, source |-> "wire", event |-> "ruling", headline |-> "h1", market |-> "a",
         relevance |-> [a |-> 100, b |-> 50], after |-> 62000, shift |-> NULL, before |-> NULL, at |-> 0]

\* One event told by two items; a rumour, a comment, one from the future, one that
\* names no market and says no more than what the mid has done.
MCItems ==
    << [Item EXCEPT !.source = "blog", !.event = NULL], [Item EXCEPT !.at = 60, !.event = "future"],
       [Item EXCEPT !.label = "commentary", !.event = "comment"],
       [Item EXCEPT !.market = NULL, !.event = "moved", !.after = NULL, !.before = 38500, !.shift = 10000],
       [Item EXCEPT !.event = "empty", !.after = NULL], Item,
       [Item EXCEPT !.market = NULL, !.headline = "h2", !.after = NULL, !.shift = 20000],
       [Item EXCEPT !.market = "b", !.event = "other", !.relevance.b = 20] >>

BtcPrint == [key |-> <<"btc/usd", 60>>, value |-> 100600, payload |-> -3, at |-> 0, fixture |-> FALSE]
MCPrints == {BtcPrint, [BtcPrint EXCEPT !.payload = -20], [BtcPrint EXCEPT !.payload = NULL, !.fixture = TRUE]}

Game == [league |-> "NBA", home |-> "home", score |-> <<90, 80>>, period |-> "Q4", live |-> TRUE, ended |-> FALSE,
         status |-> NULL, at |-> 0]
MCStates == {Game, [Game EXCEPT !.ended = TRUE, !.status = "Final"], [Game EXCEPT !.score = NULL]}

MCForecasts ==
    [city    |-> [mean |-> 78, std |-> 5, ensemble |-> NULL, above |-> NULL, yes |-> NULL],
     default |-> [mean |-> 78, std |-> NULL, ensemble |-> 20, above |-> 70000, yes |-> NULL]]

MCMatches ==
    << [Game EXCEPT !.league = "cs2", !.score = <<2, 0>>, !.ended = TRUE],
       [Game EXCEPT !.league = "lol"] >>

MCMaxAge == [gamma |-> 30, clob_book |-> 30, clob_fees |-> 60, rtds |-> 10, sports_ws |-> 15]
MCWeights == [liquidity |-> 26, volume |-> 20, spread |-> 18, book_open |-> 12, competitive |-> 8,
              persistence |-> 10, urgency |-> 6]
MCTiers == [warm |-> 30000, hot |-> 55000, ultra |-> 75000]
MCAuthority == [wire |-> 75, blog |-> 10]
MCClasses == [wire |-> "wire", blog |-> "rumor"]
MCDisabled == [crypto |-> {"high_volatility"}, sports |-> {}]
MCEnabledRegimes == [crypto |-> {}, sports |-> {"late_game"}]
MCSteps == {31, 12, -5}
MCCalls == {[latency |-> 50, info |-> NULL], [latency |-> 50, info |-> 55500], [latency |-> -1, info |-> NULL]}
=============================================================================
