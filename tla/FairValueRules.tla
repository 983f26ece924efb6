--------------------------- MODULE FairValueRules ---------------------------
\* hotflow/fairvalue and portfolio/sizing.py: the probability a source of
\* information gives, the edge over the book that is left after costs, and the
\* size that edge buys.  Prices are in mills, probabilities and edges in points
\* (0.00001), confidences in percent.
EXTENDS BookRules

CONSTANTS
    PriorBlendPct,      \* prior_blend, of all four engines
    LatencyHaircut, AdverseSelection, FillPenalty,  \* haircuts, in points
    DefaultConfidence,  \* default_confidence
    MinRequiredEdge,    \* min_required_edge, in points
    MakerFillPct,       \* maker_fill_probability
    MakerAdversePct,    \* maker_adverse_mult
    Bankroll,           \* paper_starting_cash, in dollars
    KellyPct,           \* kelly_fraction
    MaxKellyBp,         \* max_kelly, in 0.0001
    VarianceFloor,      \* variance_floor, in 0.000001
    BookPct,            \* book_frac
    MaxOrderMills       \* max_order_notional, in mills

ASSUME FairValueAssumption == DefaultConfidence \in 0..100

One == 100000
ClipProb(p) == Greater(1, Lesser(One - 1, p))

\* taker_fee_per_share: rate * p * (1 - p), to five digits; a schedule that was
\* not fetched, or an enabled one without a rate, is unknown.
FeesKnown(fees) == fees.enabled = FALSE \/ (fees.enabled = TRUE /\ fees.rate # NULL)

TakerFee(price, fees) ==
    IF fees.enabled = FALSE \/ price <= 0 \/ price >= 1000 THEN 0
    ELSE (fees.rate * price * (1000 - price) + 500) \div 1000

\* walk_slippage: how much worse than the touch the shares are filled on
\* average.  The book may hold fewer of them; the rest does not count.
TakeShares(walk, level, shares) ==
    LET take == Lesser(shares - walk.filled, level.size)
    IN [cost |-> walk.cost + take * level.price, filled |-> walk.filled + take]

WalkShares(side, shares) ==
    LET walk[n \in 0..Len(side)] ==
          IF n = 0 THEN [cost |-> 0, filled |-> 0] ELSE TakeShares(walk[n - 1], side[n], shares)
    IN walk[Len(side)]

Slippage(side, shares) ==
    LET walk == WalkShares(side, shares) IN
    IF shares <= 0 \/ side = <<>> THEN <<0, 1>>
    ELSE IF walk.filled = 0 THEN <<1000, 1>>
    ELSE Above(<<walk.cost, walk.filled>>, side[1].price)

-----------------------------------------------------------------------------
\* A blend of the information and the mid of the book, one of them without the
\* other.
FairProbability(market, info) ==
    LET mid == MarketMid(market) IN
    CASE info # NULL /\ mid # NULL -> ClipProb(((100 - PriorBlendPct) * info + PriorBlendPct * mid) \div 100)
      [] info # NULL /\ mid = NULL -> ClipProb(info)
      [] info = NULL /\ mid # NULL -> ClipProb(mid)
      [] OTHER -> NULL

NoEdge(reason) == [fair |-> 0, price |-> 0, raw |-> 0, net |-> 0, slippage |-> 0,
                   confidence |-> 0, skip |-> TRUE, reason |-> reason]

\* CryptoFairValue.evaluate for a purchase of so many shares.
Evaluate(market, shares, info, twap) ==
    LET bid  == IF market.book # NULL THEN BestBid(market.book) ELSE market.bid
        ask  == IF market.book # NULL THEN BestAsk(market.book) ELSE market.ask
        side == IF market.book # NULL THEN market.book.asks ELSE <<[price |-> ask, size |-> shares]>>
        fair == FairProbability(market, info)
        walk == Slippage(side, shares)
        slip == (100 * walk[1]) \div walk[2]
        net  == fair - 100 * ask - TakerFee(ask, market.fees) - Greater(0, 50 * (ask - bid)) - slip
                  - LatencyHaircut - AdverseSelection - FillPenalty
        sure == IF info = NULL THEN DefaultConfidence ELSE Lesser(85, DefaultConfidence + 20)
    IN CASE bid = NULL \/ ask = NULL -> NoEdge("NO_BOOK")
         [] bid # NULL /\ ask # NULL /\ fair = NULL -> NoEdge("NO_TRADE")
         [] bid # NULL /\ ask # NULL /\ fair # NULL /\ ~FeesKnown(market.fees) ->
              [NoEdge("UNKNOWN_FEES") EXCEPT !.fair = fair, !.price = ask, !.raw = fair - 100 * ask,
                                             !.confidence = DefaultConfidence]
         [] OTHER ->
              [fair |-> fair, price |-> ask, raw |-> fair - 100 * ask, net |-> net, slippage |-> slip,
               confidence |-> IF twap THEN Lesser(85, sure + 5) ELSE sure,
               skip |-> net <= MinRequiredEdge,
               reason |-> IF net <= MinRequiredEdge THEN "EDGE_TOO_SMALL" ELSE "OK"]

\* size_notional: a capped fraction of Kelly, of the book and of the limit.
SizeNotional(edge, liquidity) ==
    LET p        == edge.fair \div 100
        variance == Greater(VarianceFloor, p * (1000 - p))
        kelly    == (KellyPct * (10 * edge.net * edge.confidence)) \div variance
        bought   == (Bankroll * Greater(0, Lesser(MaxKellyBp, kelly))) \div 10
        fromBook == IF liquidity = NULL THEN bought ELSE Lesser(bought, Greater(0, liquidity * BookPct * 10))
    IN IF edge.net <= 0 \/ edge.confidence <= 0 THEN 0 ELSE Lesser(fromBook, MaxOrderMills)

\* choose_style: resting or crossing, by expected value.
ChooseStyle(edge) ==
    LET persist == Greater(0, edge.raw - (AdverseSelection * MakerAdversePct) \div 100)
    IN IF persist * MakerFillPct > 100 * edge.net THEN "MAKER" ELSE "TAKER"

-----------------------------------------------------------------------------
\* The normal distribution function, linear between its values at 0, 1, 2 and 3
\* deviations; z is in hundredths.
CdfKnots == <<50000, 84134, 97725, 99865, 100000>>

NormCdf(z) ==
    LET a == Abs(z)
        k == Lesser(4, a \div 100 + 1)
        upper == CdfKnots[k] + ((CdfKnots[k + 1] - CdfKnots[k]) * Lesser(100, a - 100 * (k - 1))) \div 100
    IN IF z < 0 THEN One - upper ELSE upper

Isqrt(n) == CHOOSE r \in 0..4000 : r * r <= n /\ (r + 1) * (r + 1) > n

\* digital_prob_above: which side of the strike the print will be on.  The log
\* return is taken as the relative distance; a year's volatility of 0.80 is a
\* variance of 203 (in 0.0000000001) a second.
ProbAbove(spot, strike, remaining) ==
    LET distance == ((spot - strike) * 200000) \div (spot + strike)
        drift    == (203 * remaining) \div 200000
    IN IF remaining <= 0 THEN (CASE spot > strike -> One [] spot < strike -> 0 [] OTHER -> One \div 2)
       ELSE ClipProb(NormCdf((100 * (distance - drift)) \div Isqrt(203 * remaining)))

TwapSnapshot(spec, print, remaining) ==
    LET above == ProbAbove(print.value, spec.strike, remaining)
    IN [above |-> above, below |-> ClipProb(One - above), remaining |-> remaining]

\* The first outcome decides which side of the strike is bought.
TwapInfo(market, snapshot) == IF market.outcome \in {"down", "no"} THEN snapshot.below ELSE snapshot.above

-----------------------------------------------------------------------------
\* One model per sport, from the documented statuses and periods.  The sign of
\* the margin decides an ended game.
EndedProbability(score) ==
    CASE score[1] = score[2] -> One \div 2 [] score[1] > score[2] -> 99000 [] OTHER -> 1000

Squash(margin, scale, gain) ==
    One \div 2 + (gain * margin) \div (scale + Abs(margin))

\* Ten times the quarters that are left.
QuartersLeft(period) ==
    CASE period \in {"1Q", "Q1"} -> 34 [] period \in {"2Q", "Q2"} -> 24 [] period = "HT" -> 20
      [] period \in {"3Q", "Q3"} -> 14 [] period \in {"4Q", "Q4"} -> 4 [] OTHER -> NULL

BasketballHomeWins(state) ==
    LET left == QuartersLeft(state.period)
        margin == 100 * (state.score[1] - state.score[2])
    IN IF state.score = NULL THEN NULL
       ELSE IF state.ended = TRUE \/ state.status \in {"Final", "F/OT", "Forfeit"} THEN EndedProbability(state.score)
       ELSE IF left = NULL THEN NULL
       ELSE Greater(2000, Lesser(98000, Squash(margin, Greater(800, Isqrt(448000 * left)), 45000)))

MinutesLeft(period) ==
    CASE period = "1H" -> 70 [] period = "2H" -> 20 [] period \in {"HT", "BREAK"} -> 45 [] OTHER -> NULL

SoccerHomeWins(state) ==
    LET left == MinutesLeft(state.period)
        margin == 100 * (state.score[1] - state.score[2]) + 15
    IN IF state.score = NULL THEN NULL
       ELSE IF state.ended = TRUE \/ state.status \in {"Final", "Awarded"} THEN EndedProbability(state.score)
       ELSE IF left = NULL THEN NULL
       ELSE Greater(5000, Lesser(95000, Squash(margin, Greater(55, Isqrt((12000 * left) \div 45)), 40000)))

SportsModel(league) ==
    CASE league \in {"NBA", "CBB"} -> "basketball" [] league = "Soccer" -> "soccer" [] OTHER -> NULL

HomeWins(league, state) ==
    IF SportsModel(league) = "basketball" THEN BasketballHomeWins(state) ELSE SoccerHomeWins(state)

\* The esports adapters read one thing: the plain score of an ended match.
EsportsHomeWins(state) ==
    IF state.ended = TRUE /\ state.score # NULL THEN EndedProbability(state.score) ELSE NULL

\* A labelled probability, or the forecast against the parsed threshold; an
\* exact bin has none.
WeatherAbove(spec, forecast) ==
    CASE spec.threshold = NULL -> NULL
      [] spec.threshold # NULL /\ forecast.above # NULL -> ClipProb(forecast.above)
      [] spec.threshold # NULL /\ forecast.above = NULL ->
           IF forecast.mean = NULL \/ forecast.std = NULL \/ forecast.std = 0 THEN NULL
           ELSE ClipProb(NormCdf((100 * (forecast.mean - spec.threshold)) \div forecast.std))

WeatherYes(spec, forecast) ==
    LET above == WeatherAbove(spec, forecast) IN
    IF forecast.yes # NULL THEN ClipProb(forecast.yes)
    ELSE IF above = NULL \/ spec.comparison = "exact_bin" THEN NULL
    ELSE IF spec.comparison \in {"at_or_below", "less_than"} THEN ClipProb(One - above) ELSE above
=============================================================================
