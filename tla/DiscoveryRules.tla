---------------------------- MODULE DiscoveryRules --------------------------
\* hotflow/discovery/scanner.py and filters.py: from a row of the listing, and
\* what the order book service answers about it, to the records one scan
\* returns.  A row is a record; a call that failed has answered NULL.
EXTENDS ResolutionRules

CONSTANTS
    MinLiquidity, MinVolume,  \* scanner.min_liquidity, min_volume_24h
    MaxListedSpread,          \* scanner.max_spread, in mills
    IncludeTags,              \* scanner.include_tags
    MaxMarkets                \* scanner.max_markets

\* The first group of words that one of the tags or the category contains; else
\* the category as it is written.
InferCategory(tags, category) ==
    LET said == tags \cup {category} IN
    CASE said \cap {"esports", "cs2", "lol"} # {} -> "esports"
      [] said \cap {"esports", "cs2", "lol"} = {} /\ said \cap {"sports", "nba", "soccer"} # {} -> "sports"
      [] said \cap {"esports", "cs2", "lol", "sports", "nba", "soccer"} = {} /\ "weather" \in said -> "weather"
      [] said \cap {"esports", "cs2", "lol", "sports", "nba", "soccer", "weather"} = {}
           /\ said \cap {"crypto", "btc"} # {} -> "crypto"
      [] OTHER -> IF category # NULL THEN category ELSE "other"

\* market_from_gamma: a spread that is not listed is that of the listed quotes.
Listed(row, now) ==
    LET quoted == IF row.bid = NULL \/ row.ask = NULL THEN NULL ELSE Greater(0, row.ask - row.bid)
    IN [row EXCEPT !.category = InferCategory(row.tags, row.category),
                   !.spread = FirstKnown(<<row.spread, quoted>>), !.fees.at = now, !.at = now,
                   !.tradeable = Tradeable(row.text)]

\* basic_filter_reason; a row without a book is judged by its listed spread.
FilterReason(market) ==
    CASE market.closed = TRUE \/ market.archived = TRUE -> "BROKEN_MARKET"
      [] market.closed # TRUE /\ market.archived # TRUE /\ market.accepting = FALSE -> "NOT_ACCEPTING_ORDERS"
      [] market.closed # TRUE /\ market.archived # TRUE /\ market.accepting # FALSE
           /\ market.orderBook = FALSE -> "UNSUPPORTED_STRUCTURE"
      [] OTHER ->
           IF market.liquidity # NULL /\ market.liquidity < MinLiquidity THEN "LOW_LIQUIDITY"
           ELSE IF market.volume24 # NULL /\ market.volume24 < MinVolume THEN "LOW_LIQUIDITY"
           ELSE IF EffectiveSpread(market) # NULL /\ EffectiveSpread(market) > MaxListedSpread
           THEN "SPREAD_TOO_LARGE" ELSE NULL

Eligible(market) ==
    FilterReason(market) = NULL /\ (IncludeTags = {} \/ market.tags \cap IncludeTags # {})

\* What the book says replaces what the listing said, field by field.
WithBook(market, answer, now) ==
    LET book == [answer EXCEPT !.at = now] IN
    IF answer = NULL \/ market.token = NULL THEN market
    ELSE [market EXCEPT
            !.book = book, !.bid = FirstKnown(<<BestBid(book), market.bid>>),
            !.ask = FirstKnown(<<BestAsk(book), market.ask>>),
            !.spread = FirstKnown(<<BookSpread(book), market.spread>>),
            !.minSize = FirstKnown(<<book.minSize, market.minSize>>),
            !.tick = FirstKnown(<<book.tick, market.tick>>)]

\* fee_from_clob_market and the merge of its rate; it enables fees only where
\* the listing did not say.
WithFees(market, answer) ==
    IF answer = NULL \/ market.token = NULL THEN market
    ELSE [market EXCEPT
            !.fees.rate = FirstKnown(<<answer.rate, market.fees.rate>>),
            !.fees.enabled = IF answer.rate = NULL \/ market.fees.enabled # NULL THEN market.fees.enabled
                             ELSE answer.rate > 0,
            !.minSize = FirstKnown(<<answer.minSize, market.minSize>>),
            !.tick = FirstKnown(<<answer.tick, market.tick>>)]

\* UniverseScanner.scan: rows in the order of the listing, and no more of them
\* once max_markets are kept; the spread is looked at again when the book has
\* replaced it.
Scanned(row, now) ==
    WithFees(WithBook(Listed(row, now), row.answers.book, now), row.answers.fees)

Admissible(row, now) ==
    LET market == Scanned(row, now) IN
    Eligible(Listed(row, now)) /\ (market.spread = NULL \/ market.spread <= MaxListedSpread)

Admit(markets, row, now) ==
    IF (markets # <<>> /\ Len(markets) >= MaxMarkets) \/ ~Admissible(row, now) THEN markets
    ELSE Append(markets, Scanned(row, now))

ScanRows(rows, now) ==
    LET markets[n \in 0..Len(rows)] ==
          IF n = 0 THEN <<>> ELSE Admit(markets[n - 1], rows[n], now)
    IN markets[Len(rows)]
=============================================================================
