----------------------------- MODULE BookRules ------------------------------
\* hotflow/features/microstructure.py: what is read off one book snapshot, the
\* spreads recorded before it and the events around it.  Prices are in mills
\* (0.001), sizes in shares, notionals in mills; a quotient is kept exact, as a
\* pair <<numerator, denominator>>.
EXTENDS PrefixSums, Sequences, FiniteSets, SequencesExt

CONSTANTS
    NULL,            \* Python's None
    DepthLevels,     \* microstructure.depth_levels
    DecayPct,        \* imbalance_decay
    GapMultiple,     \* gap_multiple
    ImpactNotional,  \* impact_notional, in mills
    SpreadTight,     \* spread_tight, in points (0.00001)
    SpreadWide,      \* spread_wide, in points
    RecentTightPct,  \* recent_tight_frac
    RecentWidePct,   \* recent_wide_frac
    MinHistory,      \* min_history
    IntensityWindow, \* intensity_window_s
    DefaultTick      \* 0.01

ASSUME BookAssumption ==
    /\ DepthLevels \in Nat \ {0} /\ DecayPct \in 0..100
    /\ GapMultiple \in Nat /\ DefaultTick \in Nat \ {0}

TwoSided(book) == book.bids # <<>> /\ book.asks # <<>>

BestBid(book) == IF book.bids = <<>> THEN NULL ELSE book.bids[1].price
BestAsk(book) == IF book.asks = <<>> THEN NULL ELSE book.asks[1].price

\* The spread of a crossed book is zero.
BookSpread(book) ==
    IF ~TwoSided(book) THEN NULL
    ELSE IF BestAsk(book) > BestBid(book) THEN BestAsk(book) - BestBid(book) ELSE 0

\* (bid + ask) / 2, in points
BookMid(book) == IF TwoSided(book) THEN (BestBid(book) + BestAsk(book)) * 50 ELSE NULL

\* The first of some values that is known.
FirstKnown(values) ==
    LET known == {i \in DOMAIN values : values[i] # NULL}
    IN IF known = {} THEN NULL ELSE values[CHOOSE i \in known : \A j \in known : i <= j]

Power(base, n) ==
    LET power[k \in 0..n] == IF k = 0 THEN 1 ELSE base * power[k - 1] IN power[n]

\* The size of the first levels of a side.
Depth(side, n) == SumUpTo([i \in DOMAIN side |-> side[i].size], Lesser(n, Len(side)))

\* Both sides of a quantity that is NULL, or 0 on an empty denominator.
Tilt(bids, asks) == IF bids + asks <= 0 THEN <<0, 1>> ELSE <<bids - asks, bids + asks>>

Microprice(book) ==
    IF ~TwoSided(book) THEN NULL
    ELSE LET b == book.bids[1]  a == book.asks[1] IN
         IF a.size + b.size <= 0 THEN <<BookMid(book), 100>>
         ELSE <<b.price * a.size + a.price * b.size, a.size + b.size>>

Imbalance(book) ==
    IF TwoSided(book) THEN Tilt(book.bids[1].size, book.asks[1].size) ELSE NULL

TopDepth(book, n) == <<Depth(book.bids, n), Depth(book.asks, n)>>

\* Level i weighs decay ^ i; the weights are scaled to integers.
WeightedImbalance(book) ==
    LET levels == Lesser(DepthLevels, Greater(Len(book.bids), Len(book.asks)))
        unit == IF DecayPct % 10 = 0 THEN 10 ELSE 100
        Weight(i) == Power((DecayPct * unit) \div 100, i - 1) * Power(unit, levels - i)
        Weighted(side) == LET n == Lesser(levels, Len(side)) IN
                          SumUpTo([i \in 1..n |-> Weight(i) * side[i].size], n)
    IN IF TwoSided(book) THEN Tilt(Weighted(book.bids), Weighted(book.asks)) ELSE NULL

\* The tick of the book, of the market, or the smallest gap between two levels.
Gaps(side) == {side[i].price - side[i + 1].price : i \in 1..(Len(side) - 1)}

InferredTick(book, marketTick) ==
    LET gaps == {Abs(g) : g \in (Gaps(book.bids) \cup Gaps(book.asks)) \ {0}}
        Given(tick) == tick # NULL /\ tick > 0
    IN CASE Given(book.tick) -> book.tick
         [] ~Given(book.tick) /\ Given(marketTick) -> marketTick
         [] OTHER -> IF gaps = {} THEN DefaultTick ELSE CHOOSE g \in gaps : \A h \in gaps : g <= h

\* Size per mill away from the mid, on a side of at least two levels that ends
\* beyond the mid; bids lie below it (direction 1), asks above (-1).
Slope(side, mid, direction) ==
    LET away == direction * (mid - side[Lesser(Len(side), DepthLevels)].price * 100)
    IN IF Len(side) < 2 \/ away <= 0 THEN NULL ELSE <<Depth(side, DepthLevels) * 100, away>>

BookSlope(book) ==
    IF TwoSided(book)
    THEN LET mid == BookMid(book) IN <<Slope(book.bids, mid, 1), Slope(book.asks, mid, -1)>>
    ELSE <<NULL, NULL>>

\* Far against near size of the first levels.
Convexity(side) ==
    LET take  == Lesser(Len(side), DepthLevels)
        near  == Depth(side, Greater(1, (take + 1) \div 2))
        far   == Depth(side, take) - near
    IN IF Len(side) < 2 \/ near + far <= 0 THEN NULL ELSE <<far - near, far + near>>

\* Gaps between neighbours, those of the wrong sign counted as zero.
LiquidityGaps(book, tick) ==
    LET wide == tick * GapMultiple
        Widths(side, sign) == [i \in 1..(Len(side) - 1) |->
                                  Greater(0, sign * (side[i].price - side[i + 1].price))]
        Holes(steps) == SelectSeq(steps, LAMBDA g : wide > 0 /\ g >= wide)
        Of(steps) == [max   |-> IF steps = <<>> THEN NULL ELSE FoldLeft(Greater, 0, steps),
                      count |-> Len(Holes(steps)),
                      first |-> IF Holes(steps) = <<>> THEN NULL ELSE Head(Holes(steps))]
    IN [bid |-> Of(Widths(book.bids, 1)), ask |-> Of(Widths(book.asks, -1)),
        threshold |-> IF wide > 0 THEN wide ELSE NULL]

-----------------------------------------------------------------------------
\* walk_vwap takes a notional from one side.  Only the level it ends in is taken
\* in part: whole shares before it, a fraction part / price of a share in it.
EmptyWalk == [cost |-> 0, left |-> 0, whole |-> 0, part |-> 0, price |-> 1]

\* mutant: a level is taken by its size, not by price times size
WalkLevelBySize(walk, level) ==
    IF walk.left = 0 \/ level.price <= 0 \/ level.size <= 0 THEN walk
    ELSE LET take == Lesser(walk.left, level.size) IN
         [walk EXCEPT !.cost = @ + take * level.price, !.left = @ - take, !.whole = @ + take]

WalkLevel(walk, level) ==
    IF walk.left = 0 \/ level.price <= 0 \/ level.size <= 0 THEN walk
    ELSE IF level.price * level.size <= walk.left
    THEN [walk EXCEPT !.cost = @ + level.price * level.size, !.left = @ - level.price * level.size,
                      !.whole = @ + level.size]
    ELSE [walk EXCEPT !.cost = @ + walk.left, !.left = 0, !.part = walk.left, !.price = level.price]

WalkBook(side, notional) ==
    LET walk[n \in 0..Len(side)] ==
          IF n = 0 THEN [EmptyWalk EXCEPT !.left = notional] ELSE WalkLevel(walk[n - 1], side[n])
    IN walk[Len(side)]

WalkVwap(side, notional) ==
    LET walk   == WalkBook(side, notional)
        shares == walk.whole * walk.price + walk.part
    IN IF notional <= 0 \/ shares = 0
       THEN [vwap |-> NULL, shares |-> <<0, 1>>, filled |-> 0, exhausted |-> TRUE]
       ELSE [vwap |-> <<walk.cost * walk.price, shares>>, shares |-> <<shares, walk.price>>,
             filled |-> walk.cost, exhausted |-> walk.left > 0]

\* The distance of a vwap from a price, never negative, as a quotient.
Above(vwap, price) == <<Greater(0, vwap[1] - price * vwap[2]), vwap[2]>>
Below(vwap, price) == <<Greater(0, price * vwap[2] - vwap[1]), vwap[2]>>

PriceImpact(book, notional) ==
    LET buy  == WalkVwap(book.asks, notional)
        sell == WalkVwap(book.bids, notional)
        twice == BestBid(book) + BestAsk(book)
        Half(q) == <<q[1], 2 * q[2]>>
    IN [buy  |-> IF TwoSided(book) /\ buy.vwap # NULL
                 THEN Half(Above(<<2 * buy.vwap[1], buy.vwap[2]>>, twice)) ELSE NULL,
        sell |-> IF TwoSided(book) /\ sell.vwap # NULL
                 THEN Half(Below(<<2 * sell.vwap[1], sell.vwap[2]>>, twice)) ELSE NULL,
        exhaustedBuy |-> buy.exhausted, exhaustedSell |-> sell.exhausted]

\* A label against the median of the recorded spreads, if there are enough of
\* them, else against the configured ones.
SpreadRegime(spread, history) ==
    LET known  == SelectSeq(history, LAMBDA s : s # NULL)
        sorted == SortSeq(known, <)
        middle == Len(known) \div 2
        twice  == IF Len(known) % 2 = 1 THEN 2 * sorted[middle + 1]
                  ELSE sorted[middle] + sorted[middle + 1]
    IN CASE spread = NULL -> "N/A"
         [] spread # NULL /\ Len(known) >= MinHistory ->
              IF twice > 0 /\ 200 * spread <= twice * RecentTightPct THEN "tight"
              ELSE IF twice > 0 /\ 200 * spread >= twice * RecentWidePct THEN "wide" ELSE "normal"
         [] OTHER ->
              IF spread * 100 <= SpreadTight THEN "tight"
              ELSE IF spread * 100 >= SpreadWide THEN "wide" ELSE "normal"

\* Rates of books and trades in the window before now, or before the last event.
Intensity(events, now) ==
    LET last   == FoldLeft(LAMBDA t, e : Greater(t, e.ts), 0, events)
        end    == IF now = NULL THEN last ELSE now
        inside == SelectSeq(events, LAMBDA e : end - IntensityWindow <= e.ts /\ e.ts <= end)
        Number(kind) == Len(SelectSeq(inside, LAMBDA e : e.kind = kind))
        Rate(n, least) == IF IntensityWindow > 0 /\ n >= least THEN <<n, IntensityWindow>> ELSE NULL
    IN IF events = <<>> THEN [quote |-> NULL, trade |-> NULL, quotes |-> 0, trades |-> 0]
       ELSE [quote  |-> Rate(Number("book"), 2), trade  |-> Rate(Number("trade"), 1),
             quotes |-> Number("book"), trades |-> Number("trade")]

\* A snapshot has no signed stream: what would need one is named, never guessed.
StreamOnly == {"order_flow_imbalance", "trade_imbalance", "cancel_imbalance", "book_replenishment"}

NotAvailable(intensity) ==
    StreamOnly \cup (IF intensity.quote = NULL THEN {"quote_intensity"} ELSE {})
               \cup (IF intensity.trade = NULL THEN {"trade_intensity"} ELSE {})

-----------------------------------------------------------------------------
\* The spread of the listing wins over that of the book.
EffectiveSpread(market) ==
    IF market.spread # NULL \/ market.book = NULL THEN market.spread ELSE BookSpread(market.book)

MarketMid(market) ==
    CASE market.book # NULL /\ TwoSided(market.book) -> BookMid(market.book)
      [] ~(market.book # NULL /\ TwoSided(market.book)) /\ market.bid # NULL /\ market.ask # NULL ->
           (market.bid + market.ask) * 50
      [] OTHER -> NULL

\* The features of a market: without a book, only its mid and spread.
Features(market, history, events, now) ==
    LET book == market.book
        intensity == Intensity(events, now)
        flat == [mid |-> MarketMid(market), spread |-> EffectiveSpread(market), depth |-> <<NULL, NULL>>,
                 microprice |-> NULL, imbalance |-> NULL, weighted |-> NULL, slope |-> <<NULL, NULL>>,
                 convexity |-> <<NULL, NULL>>, gaps |-> NULL, impact |-> NULL,
                 regime |-> SpreadRegime(EffectiveSpread(market), history),
                 intensity |-> intensity, missing |-> NotAvailable(intensity)]
    IN IF book = NULL THEN flat
       ELSE [flat EXCEPT
               !.depth = TopDepth(book, DepthLevels), !.microprice = Microprice(book),
               !.imbalance = Imbalance(book), !.weighted = WeightedImbalance(book),
               !.slope = BookSlope(book), !.convexity = <<Convexity(book.bids), Convexity(book.asks)>>,
               !.gaps = LiquidityGaps(book, InferredTick(book, market.tick)),
               !.impact = PriceImpact(book, ImpactNotional)]

\* What must hold of the features of a book, crossed or not: quotients within
\* their range, the microprice between the quotes.
WithinOne(q) == q = NULL \/ (q[2] > 0 /\ -q[2] <= q[1] /\ q[1] <= q[2])

FeaturesOK(market, features) ==
    /\ WithinOne(features.imbalance) /\ WithinOne(features.weighted)
    /\ \A i \in 1..2 : WithinOne(features.convexity[i])
    /\ features.microprice # NULL =>
         LET q == features.microprice  bid == BestBid(market.book)  ask == BestAsk(market.book)
         IN Lesser(bid, ask) * q[2] <= q[1] /\ q[1] <= Greater(bid, ask) * q[2]
=============================================================================
