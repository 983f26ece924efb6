----------------------------- MODULE ScoreRules -----------------------------
\* hotflow/hotmarket, features/time_features.py and snapshot.py: how hot a
\* market is, what is kept of it, and the opportunity it makes.  A component of
\* the score is in 0..1000, the score in thousandths of a point of 100.
EXTENDS FairValueRules

CONSTANTS
    LiquidityRef, VolumeRef,  \* references of the two logarithmic scales
    FullSpread,               \* max_spread_for_full_score, in mills
    Weights,                  \* hot_market.weights, in percent
    Tiers,                    \* [warm, hot, ultra], in thousandths
    MinScore,                 \* min_score_to_trade, in thousandths
    ProbeShares               \* the 5 shares of an unknown minimum

Share(n) == Greater(0, Lesser(1000, n))

\* A logarithm that is linear between powers of ten, in thousandths.
Log10(n) ==
    LET digits == CHOOSE k \in 0..9 : 10 ^ k <= n /\ n < 10 ^ (k + 1)
    IN 1000 * digits + (1000 * (n - 10 ^ digits)) \div (9 * 10 ^ digits)

LogScale(value, ref) ==
    IF value = NULL THEN 0
    ELSE IF value <= 0 \/ ref <= 0 THEN 0
    ELSE Share((1000 * Log10(1 + value)) \div Log10(1 + ref))

SpreadScore(spread) ==
    IF spread = NULL \/ FullSpread <= 0 THEN 0 ELSE Share(1000 - (1000 * spread) \div FullSpread)

BookOpen(market) ==
    IF market.accepting = FALSE \/ market.orderBook = FALSE THEN 0
    ELSE IF market.accepting = TRUE /\ market.orderBook = TRUE THEN 1000
    ELSE IF market.accepting = TRUE \/ market.orderBook = TRUE THEN 600 ELSE 300

\* The share of a market's volume that the last day made.
Persistence(market) ==
    LET day == FirstKnown(<<market.volume24, 0>>)  all == FirstKnown(<<market.volume, 0>>)
    IN IF market.volume24 = NULL \/ all <= 0 THEN (IF day > 0 THEN 500 ELSE 0)
       ELSE Share((1000 * day) \div all)

Competitive(market) == IF market.competitive = NULL THEN 400 ELSE Share(market.competitive)

Week == 7 * 24 * 3600
TimeToResolution(market, now) == IF market.text.end = NULL THEN NULL ELSE market.text.end - now
Urgency(ttr) ==
    IF ttr = NULL THEN 0 ELSE IF ttr <= 0 THEN 0 ELSE Share(1000 - (1000 * ttr) \div Week)

Components(market, now) ==
    [liquidity   |-> LogScale(market.liquidity, LiquidityRef),
     volume      |-> LogScale(FirstKnown(<<market.volume24, market.volume>>), VolumeRef),
     spread      |-> SpreadScore(market.spread),
     book_open   |-> BookOpen(market), competitive |-> Competitive(market),
     persistence |-> Persistence(market), urgency |-> Urgency(TimeToResolution(market, now))]

TierFor(score) ==
    CASE score >= Tiers.ultra -> "ULTRA_HOT"
      [] Tiers.hot <= score /\ score < Tiers.ultra -> "HOT"
      [] Tiers.warm <= score /\ score < Tiers.hot -> "WARM"
      [] OTHER -> "COLD"

\* score_hot_market: the weights add up to 100.
HotScore(market, now) ==
    LET parts == Components(market, now)
        score == FoldLeft(LAMBDA sum, name : sum + Weights[name] * parts[name], 0,
                          <<"liquidity", "volume", "spread", "book_open", "competitive",
                            "persistence", "urgency">>)
    IN [score |-> score, tier |-> TierFor(score), parts |-> parts]

ResourcePlan ==
    [COLD |-> "metadata_only", WARM |-> "low_frequency", HOT |-> "full_orderbook",
     ULTRA_HOT |-> "highest_frequency"]

\* build_feature_snapshot, with what the caller adds to it.
Snapshot(market, hot, features) ==
    [market |-> market.id, liquidity |-> market.liquidity, volume |-> market.volume24,
     spread |-> EffectiveSpread(market), mid |-> MarketMid(market), score |-> hot.score,
     tier |-> hot.tier, plan |-> ResourcePlan[hot.tier], features |-> features]

-----------------------------------------------------------------------------
\* _intended_shares and the cap on them, in thousandths of a share: at least the
\* minimum of the market, however little was sized, at most the order limit.
IntendedShares(market, notional, price) ==
    LET book  == IF market.book = NULL THEN NULL ELSE market.book.minSize
        least == 1000 * FirstKnown(<<market.minSize, book, ProbeShares>>)
        sized == IF price <= 0 THEN least ELSE Greater(least, (1000 * notional) \div price)
    IN IF price <= 0 THEN sized ELSE Lesser(sized, (1000 * MaxOrderMills) \div price)

\* score_opportunity: the factors its product is made of.
Opportunity(market, hot, edge, shares) ==
    LET open == 250 + (750 * hot.parts.book_open) \div 1000
    IN [net |-> Greater(0, edge.net), confidence |-> edge.confidence,
        liquidity |-> Share(IF market.liquidity = NULL THEN 0 ELSE market.liquidity \div 10),
        persistence |-> hot.parts.persistence,
        execution |-> IF edge.slippage > 2000 THEN (7 * open) \div 10 ELSE open,
        shares |-> shares, notional |-> (shares * edge.price) \div 1000, style |-> ChooseStyle(edge)]

\* pnl_velocity, before it is divided by the deviation of the outcome.
PnlVelocity(edge, shares, halfLife) == (edge.net * shares) \div Greater(1, halfLife)

-----------------------------------------------------------------------------
\* analytics/signal_quality.py: the record of a decision names its reason, the
\* reasons found before it and, of a refused one, what the book adds to them.
Exhausted(features) ==
    IF features.impact = NULL THEN FALSE ELSE features.impact.exhaustedBuy \/ features.impact.exhaustedSell

SkipReasons(reason, more, features, accepted) ==
    {reason} \cup more \cup
    (IF accepted THEN {}
     ELSE (IF features.regime = "wide" THEN {"SPREAD_TOO_LARGE"} ELSE {})
          \cup (IF Exhausted(features) THEN {"IMPACT_EXHAUSTED"} ELSE {}))
=============================================================================
