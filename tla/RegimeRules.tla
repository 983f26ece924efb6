----------------------------- MODULE RegimeRules ----------------------------
\* hotflow/analytics/regimes.py: the labels of a market's state.  A detector
\* gives a sequence of labels with the primary one first, and <<>> ("N/A") when
\* what it needs is missing.  Spreads are in mills, imbalances and relevances
\* in percent, times in seconds.
EXTENDS BookRules

CONSTANTS
    NearResolution, HighSpread, LowSpread,
    VacuumLiquidity, VacuumSpread,
    ShockClasses, ShockRelevance,
    TrendPct, RevertPct, RevertMove,    \* the move in points
    NearWeather, ObservationPhase, UncertainPct, ConvergingPct,
    DisabledRegimes, EnabledRegimes     \* by category: strategies in the YAML

AtLeastPct(q, pct) == 100 * Abs(q[1]) >= pct * q[2]
AtMostPct(q, pct)  == 100 * Abs(q[1]) <= pct * q[2]

CryptoPriority == << "news_shock", "liquidity_vacuum", "near_resolution", "high_volatility",
                     "low_volatility", "trend", "mean_reversion", "normal" >>

\* The last trade on the heavy side of the book, or near the mid of a level one.
Leaning(market) ==
    LET book == market.book
        imb  == Imbalance(book)
        move == market.last - BookMid(book)
    IN IF book = NULL \/ market.last = NULL THEN {}
       ELSE IF imb = NULL THEN {}
       ELSE IF AtLeastPct(imb, TrendPct) /\ move * imb[1] > 0 THEN {"trend"}
       ELSE IF AtMostPct(imb, RevertPct) /\ Abs(move) <= RevertMove
       THEN {"mean_reversion"} ELSE {}

CryptoFired(market, ttr, news) ==
    LET spread == EffectiveSpread(market)
        shock  == IF news.apply /\ news.class \in ShockClasses /\ news.relevance >= ShockRelevance
                  THEN {"news_shock"} ELSE {}
        vacuum == IF market.liquidity # NULL /\ spread # NULL
                  THEN IF market.liquidity < VacuumLiquidity /\ spread >= VacuumSpread
                       THEN {"liquidity_vacuum"} ELSE {}
                  ELSE {}
        near   == IF ttr = NULL THEN {}
                  ELSE IF 0 < ttr /\ ttr < NearResolution THEN {"near_resolution"} ELSE {}
        band   == IF spread = NULL THEN {}
                  ELSE IF spread >= HighSpread THEN {"high_volatility"}
                  ELSE IF spread <= LowSpread THEN {"low_volatility"}
                  ELSE IF shock \cup vacuum = {} THEN {"normal"} ELSE {}
    IN shock \cup vacuum \cup near \cup band \cup Leaning(market)

DetectCrypto(market, ttr, news) ==
    LET fired == CryptoFired(market, ttr, news)
    IN SelectSeq(CryptoPriority, LAMBDA label : label \in fired)

\* Official fields only: an ended game, a scheduled one, then the period.
Early    == {"1Q", "Q1", "1H"}
Middle   == {"2Q", "Q2", "3Q", "Q3", "HT"}
Late     == {"4Q", "Q4", "2H"}
Overtime == {"OT", "OT1", "OT2", "F/OT", "FOT"}
Pre      == {"Scheduled", "Pregame", "NS"}

DetectSports(state) ==
    IF state = NULL THEN <<>>
    ELSE IF state.ended = TRUE \/ state.status \in {"Final", "F/OT", "Forfeit"}
    THEN IF state.period \in Overtime \/ state.status = "F/OT" THEN <<"overtime">> ELSE <<"late_game">>
    ELSE IF state.live = FALSE \/ state.status \in Pre THEN <<"pre_game">>
    ELSE IF state.period \in Overtime THEN <<"overtime">>
    ELSE IF state.period \in Early THEN <<"early_live", "live">>
    ELSE IF state.period \in Middle THEN <<"mid_game", "live">>
    ELSE IF state.period \in Late THEN <<"late_game", "live">>
    ELSE IF state.live = TRUE THEN <<"N/A", "live">> ELSE <<>>

\* The time to the resolution, then the dispersion of the forecast around its
\* center.
DetectWeather(ttr, forecast) ==
    LET center == forecast.mean
        width  == FirstKnown(<<forecast.std, forecast.ensemble>>)
        near   == IF ttr = NULL THEN <<>>
                  ELSE IF 0 < ttr /\ ttr < NearWeather THEN <<"near_resolution">>
                  ELSE IF 0 < ttr /\ ttr < ObservationPhase THEN <<"observation_phase">> ELSE <<>>
        spread == IF forecast = NULL THEN <<>>
                  ELSE IF center = NULL \/ center = 0 \/ width = NULL THEN <<>>
                  ELSE IF AtLeastPct(<<width, Abs(center)>>, UncertainPct) THEN <<"forecast_uncertainty_high">>
                  ELSE IF AtMostPct(<<width, Abs(center)>>, ConvergingPct) THEN <<"forecast_converging">> ELSE <<>>
    IN near \o spread

\* No other category has a detector.
DetectRegime(market, category, ttr, news, forecast, state) ==
    CASE category = "crypto"  -> DetectCrypto(market, ttr, news)
      [] category = "sports"  -> DetectSports(state)
      [] category = "weather" -> DetectWeather(ttr, forecast)
      [] OTHER -> <<>>

\* strategy_blocked: a disabled label, or none of the enabled ones.
StrategyBlocked(category, labels) ==
    category \in DOMAIN DisabledRegimes /\
    LET found == IF labels = <<>> THEN {"N/A"} ELSE ToSet(labels) IN
    \/ found \cap DisabledRegimes[category] # {}
    \/ EnabledRegimes[category] # {} /\ found \cap EnabledRegimes[category] = {}
=============================================================================
