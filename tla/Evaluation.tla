----------------------------- MODULE Evaluation -----------------------------
\* PaperPipeline._evaluate_market (pipeline.py): the gates a market goes through
\* before it becomes a candidate for an order, over the feeds, caches and news
\* that change between two evaluations.  What happens to a candidate is modelled
\* in PaperSession.
EXTENDS FeedRules, DiscoveryRules, NewsRules, RegimeRules, ScoreRules

CONSTANTS
    Rows,           \* listings a scan may return, in any one of these orders
    Items,          \* news items, in the order they were ingested
    Prints, States, \* TWAP prints and game states that may arrive
    Forecasts,      \* rows of the forecast table
    Matches,        \* rows of the esports source
    Calls,          \* latency_ms and p_info of a call
    Enabled,        \* categories that are traded
    Documented,     \* leagues a sports model exists for
    TwapEnabled,    \* fair_value.crypto.twap.enabled
    HistoryLength,  \* spreads kept of each market
    Steps,          \* by how much the clock moves
    MaxEvaluations, MaxMoves, MaxArrivals  \* bounds: moves of the clock, prints and states

\* What a scan reads of a row and of a book: prices and sizes are numbers, no price
\* is zero; a quote may be missing.
Levels == [price : Nat \ {0}, size : Nat]
Amounts == Nat \cup {NULL}

Ladders(book) == book.bids \in Seq(Levels) /\ book.asks \in Seq(Levels)

RowShape(row) ==
    /\ {"at", "book", "fees", "spread"} \subseteq DOMAIN row /\ "at" \in DOMAIN row.fees
    /\ row.book = NULL
    /\ {row.bid, row.ask, row.spread} \subseteq Amounts
    /\ \/ row.answers.book = NULL
       \/ {"at", "bids", "asks"} \subseteq DOMAIN row.answers.book /\ Ladders(row.answers.book)

\* A listed row has no book before it is fetched; None is neither a number, nor a
\* quotient of two, nor a reason; no limit on an age is as long as forever; the
\* feeds and the two critical ones that a market touches are those of FeedsConfig
\* (config.py:467-481).
ASSUME EvaluationAssumption ==
    /\ NULL \notin Int /\ NULL \notin Int \X Int /\ NULL \notin {"CLOCK_SKEW", "STALE_DATA"}
    /\ {"gamma", "clob_book", "clob_fees", "rtds", "sports_ws"} \subseteq Feeds
    /\ {"clob_book", "clob_fees"} \subseteq CriticalFeeds
    /\ \A feed \in Feeds : MaxAge[feed] < Forever
    /\ \A rows \in Rows : rows \in Seq(ToSet(rows))
    /\ \A rows \in Rows : \A i \in DOMAIN rows : RowShape(rows[i])
    /\ Items \in Seq(ToSet(Items))
    /\ \A i \in DOMAIN Items : Items[i].at \in Int /\ Items[i].label \in DOMAIN ClassWeight \cup {NULL}
    /\ \A print \in Prints : {"payload", "at"} \subseteq DOMAIN print /\ print.payload \in Int \cup {NULL}
    /\ \A state \in States : "at" \in DOMAIN state
    /\ Steps \subseteq Int /\ HistoryLength \in Nat \ {0}

VARIABLES
    now,      \* the wall clock
    universe, \* the markets of the last scan
    samples,  \* FeedClock
    history,  \* recorded spreads of each market
    prints, games, \* the caches: the print of each symbol, the last game state
    seen,     \* fingerprints of the news engine
    killed,   \* reasons of the kill switch
    decision, \* what the last evaluation returned
    saved,    \* the feature snapshot it stored, NULL for none
    applied,  \* fingerprints that have moved a probability
    evaluations, moves

evaluationVars ==
    <<now, universe, samples, history, prints, games, seen, killed, decision, saved, applied, evaluations, moves>>

MarketIds == {row.id : row \in UNION {ToSet(rows) : rows \in Rows}}

NoDecision == [reason |-> NULL, market |-> NULL, info |-> NULL, snap |-> NULL, state |-> NULL,
               print |-> NULL, news |-> NoImpact, labels |-> <<>>, edge |-> NoEdge("NONE"),
               codes |-> {}, opportunity |-> NULL]

-----------------------------------------------------------------------------
\* One decision under way: reason is NULL until a gate refuses.  given is the
\* p_info the next source may not replace, info what the fair value will use.
Then(d, Gate(_)) == IF d.reason = NULL THEN Gate(d) ELSE d
Refuse(d, reason) == [d EXCEPT !.reason = reason]

\* The clock of the feeds is touched with the market's own observations.  A
\* market without a book leaves the sample of another one.
FutureBook(market, t) == market.book # NULL /\ market.book.at - t > SkewTolerance

TouchedBook(market, touched) ==
    IF market.book = NULL THEN touched ELSE Touch(touched, "clob_book", market.book.at)
TouchedFees(market, touched) ==
    IF market.fees.enabled = NULL THEN touched ELSE Touch(touched, "clob_fees", market.fees.at)

Touched(market) == TouchedFees(market, TouchedBook(market, Touch(samples, "gamma", market.at)))

\* mutant: what is stale is decided before the market's own feeds are touched
StaleBeforeTouch(market, t) == CriticalStale(samples, t)

Stale(market, t) == CriticalStale(Touched(market), t)

AcceptsGate(d) ==
    CASE d.category \notin Enabled -> Refuse(d, "CATEGORY_DISABLED")
      [] d.category \in Enabled /\ d.market.accepting = FALSE -> Refuse(d, "NOT_ACCEPTING_ORDERS")
      [] d.category \in Enabled /\ d.market.accepting # FALSE /\ ~d.market.tradeable ->
           Refuse(d, "UNKNOWN_RESOLUTION")
      [] OTHER -> d

\* The three sources of information by category, each with its own refusals.
EsportsGate(d) ==
    LET spec  == EsportsSpec(d.market.text)
        state == LatestGame(Matches, spec)
    IN IF d.category # "esports" THEN d
       ELSE IF ~spec.complete THEN Refuse(d, FirstKnown(<<spec.skip, "ESPORTS_RULES_UNKNOWN">>))
       ELSE IF state = NULL THEN Refuse(d, "ESPORTS_STATE_MISSING")
       ELSE IF EsportsHomeWins(state) = NULL THEN Refuse(d, "UNSUPPORTED_STRUCTURE")
       ELSE LET p == FirstKnown(<<d.given, EsportsHomeWins(state)>>) IN [d EXCEPT !.given = p, !.info = p]

WeatherGate(d) ==
    LET spec     == WeatherSpec(d.market.text)
        forecast == LatestForecast(Forecasts, spec)
    IN IF d.category # "weather" THEN d
       ELSE IF ~spec.complete THEN Refuse(d, FirstKnown(<<spec.skip, "UNKNOWN_RESOLUTION">>))
       ELSE IF forecast = NULL THEN Refuse(d, "WEATHER_FORECAST_MISSING")
       ELSE IF WeatherYes(spec, forecast) = NULL THEN Refuse(d, "WEATHER_FORECAST_MISSING")
       ELSE [d EXCEPT !.forecast = forecast, !.info = FirstKnown(<<d.given, WeatherYes(spec, forecast)>>)]

SportsGate(d) ==
    LET spec   == SportsSpec(d.market.text)
        cached == LatestGame(games, spec)
        fresh  == GameStatus(cached, now)
        state  == IF fresh = "fresh" THEN cached ELSE GameFromMetadata(spec, now)
        moved  == IF cached = NULL THEN d.samples ELSE Touch(d.samples, "sports_ws", state.at)
    IN IF d.category # "sports" THEN d
       ELSE IF ~spec.complete THEN Refuse(d, FirstKnown(<<spec.skip, "UNKNOWN_RESOLUTION">>))
       ELSE IF spec.league \notin Documented THEN Refuse(d, "UNSUPPORTED_SPORT")
       ELSE IF fresh = "stale" THEN Refuse(d, "SPORTS_STATE_STALE")
       ELSE IF state = NULL THEN Refuse(d, "SPORTS_STATE_MISSING")
       ELSE IF HomeWins(spec.league, state) = NULL
       THEN Refuse([d EXCEPT !.samples = moved], "SPORTS_STATE_MISSING")
       ELSE [d EXCEPT !.samples = moved, !.state = state,
                      !.info = FirstKnown(<<d.given, HomeWins(spec.league, state)>>)]

\* A market that settles on a TWAP, of whatever category, needs its print.
TwapGate(d) ==
    LET spec   == TwapSpec(d.market.text)
        key    == <<spec.symbol, spec.window>>
        print  == IF key \in DOMAIN prints THEN prints[key] ELSE NULL
        status == ObservationStatus(print, now)
        left   == TimeToResolution(d.market, now)
        snap   == TwapSnapshot(spec, print, left)
    IN IF ~TwapEnabled \/ ~spec.twap THEN d
       ELSE IF ~spec.complete THEN Refuse(d, spec.skip)
       ELSE IF status = "missing" THEN Refuse(d, "TWAP_OBSERVATION_MISSING")
       ELSE IF status = "stale" THEN Refuse(d, "TWAP_OBSERVATION_STALE")
       ELSE IF left = NULL THEN Refuse(d, "UNKNOWN_RESOLUTION")
       ELSE [d EXCEPT !.samples = Touch(d.samples, "rtds", print.at), !.print = print, !.snap = snap,
                      !.info = FirstKnown(<<d.given, TwapInfo(d.market, snap)>>)]

\* News replaces the information; the state of the engine changes whatever the
\* later gates say.
NewsGate(d) ==
    LET heard == ImpactFor(Items, d.market, d.info, now, seen)
    IN [d EXCEPT !.news = heard.impact, !.seen = heard.seen,
                 !.info = FirstKnown(<<heard.impact.adjusted, d.info>>)]

\* The regime and the hot market score; a snapshot is stored before the gate.
HotGate(d) ==
    LET ttr    == IF d.snap = NULL THEN TimeToResolution(d.market, now) ELSE d.snap.remaining
        labels == DetectRegime(d.market, d.category, ttr, d.news, d.forecast, d.state)
        hot    == HotScore(d.market, now)
        valued == [d EXCEPT !.labels = labels, !.hot = hot, !.saved = Snapshot(d.market, hot, d.features)]
    IN IF hot.score < MinScore THEN Refuse(valued, "MARKET_NOT_HOT") ELSE valued

\* The edge is taken for the minimum order, and is as sure as the news it uses.
EdgeGate(d) ==
    LET edge == Evaluate(d.market, FirstKnown(<<d.market.minSize, ProbeShares>>), d.info, d.snap # NULL)
        sure == IF d.news.apply THEN [edge EXCEPT !.confidence = Lesser(edge.confidence, d.news.confidence)]
                ELSE edge
    IN IF edge.skip THEN Refuse([d EXCEPT !.edge = sure], edge.reason) ELSE [d EXCEPT !.edge = sure]

RegimeGate(d) ==
    LET shares == IntendedShares(d.market, SizeNotional(d.edge, d.market.liquidity), d.edge.price)
        sized  == [d EXCEPT !.opportunity = Opportunity(d.market, d.hot, d.edge, shares)]
    IN IF StrategyBlocked(d.category, d.labels) THEN Refuse(sized, "REGIME_DISABLED")
       ELSE Refuse(sized, "CANDIDATE")

Gates(d) ==
    Then(Then(Then(Then(Then(Then(Then(Then(Then(d, AcceptsGate), EsportsGate), WeatherGate), SportsGate),
        TwapGate), NewsGate), HotGate), EdgeGate), RegimeGate)

\* A skewed clock touches nothing; stale data are audited and trip the switch.
ClockGate(d, latency) ==
    IF latency < 0 \/ FutureBook(d.market, now) THEN Refuse(d, "CLOCK_SKEW")
    ELSE LET touched == [d EXCEPT !.samples = Touched(d.market)] IN
         IF Stale(d.market, now) # {} THEN Refuse(touched, "STALE_DATA") ELSE touched

Decide(market, latency, given) ==
    LET d == [market |-> market, category |-> InferCategory(market.tags, market.category),
              reason |-> NULL, given |-> given, info |-> given, samples |-> samples, seen |-> seen,
              features |-> Features(market, history[market.id], <<>>, now),
              state |-> NULL, forecast |-> NULL, print |-> NULL, snap |-> NULL, news |-> NoImpact,
              labels |-> <<>>, hot |-> NULL, saved |-> NULL, edge |-> NoEdge("NONE"), opportunity |-> NULL]
    IN Then(ClockGate(d, latency), Gates)

-----------------------------------------------------------------------------
\* mutant: the oldest spread is never dropped
RecordedForever(spreads, spread) == IF spread = NULL THEN spreads ELSE Append(spreads, spread)

\* The spread is recorded after the label was computed from the earlier ones.
Recorded(spreads, spread) ==
    IF spread = NULL THEN spreads
    ELSE LET all == Append(spreads, spread) IN
         SubSeq(all, Greater(1, Len(all) - HistoryLength + 1), Len(all))

EvaluateMarket(market, call) ==
    /\ evaluations < MaxEvaluations
    /\ \E d \in {Decide(market, call.latency, call.info)} :
         /\ samples' = d.samples
         /\ seen' = d.seen
         /\ history' = IF d.reason \in {"CLOCK_SKEW", "STALE_DATA"} THEN history
                       ELSE [history EXCEPT ![market.id] = Recorded(@, d.features.spread)]
         /\ killed' = killed \cup (IF d.reason = "STALE_DATA" THEN {"STALE_CRITICAL_DATA"} ELSE {})
         /\ saved' = d.saved
         /\ applied' = applied \cup (IF d.news.apply THEN {d.news.key} ELSE {})
         /\ decision' = [reason |-> d.reason, market |-> market, info |-> d.info, snap |-> d.snap,
                         state |-> d.state, print |-> d.print, news |-> d.news, labels |-> d.labels,
                         edge |-> d.edge, opportunity |-> d.opportunity,
                         codes |-> SkipReasons(d.reason, {}, d.features, d.reason = "CANDIDATE")]
         /\ evaluations' = evaluations + 1
         /\ UNCHANGED <<now, universe, prints, games, moves>>

-----------------------------------------------------------------------------
\* What happens between two evaluations: a scan, a print, a score, the clock,
\* which the host may also set back.
ScanUniverse(rows) ==
    /\ universe = <<>>  \* bound: one scan
    /\ universe' = ScanRows(rows, now)
    /\ UNCHANGED <<now, samples, history, prints, games, seen, killed, decision, saved, applied, evaluations, moves>>

NewPrint(print) ==
    /\ Cardinality(DOMAIN prints) + Len(games) < MaxArrivals
    /\ LET kept == [print EXCEPT !.at = now, !.payload = IF @ = NULL THEN NULL ELSE now + @]
       IN prints' = [key \in DOMAIN prints \cup {print.key} |-> IF key = print.key THEN kept ELSE prints[key]]
    /\ UNCHANGED <<now, universe, samples, history, games, seen, killed, decision, saved, applied, evaluations, moves>>

NewState(state) ==
    /\ Cardinality(DOMAIN prints) + Len(games) < MaxArrivals
    /\ games' = <<[state EXCEPT !.at = now]>>
    /\ UNCHANGED <<now, universe, samples, history, prints, seen, killed, decision, saved, applied, evaluations, moves>>

ClockMoves(step) ==
    /\ moves < MaxMoves
    /\ now' = now + step
    /\ moves' = moves + 1
    /\ UNCHANGED <<universe, samples, history, prints, games, seen, killed, decision, saved, applied, evaluations>>

Init ==
    /\ now = 0 /\ universe = <<>> /\ samples = NoSamples
    /\ history = [m \in MarketIds |-> <<>>]
    /\ prints = << >> /\ games = <<>> /\ seen = {} /\ killed = {}
    /\ decision = NoDecision /\ saved = NULL /\ applied = {} /\ evaluations = 0 /\ moves = 0

Next ==
    \/ \E rows \in Rows : ScanUniverse(rows)
    \/ \E i \in DOMAIN universe, call \in Calls : EvaluateMarket(universe[i], call)
    \/ \E print \in Prints : NewPrint(print)
    \/ \E state \in States : NewState(state)
    \/ \E step \in Steps : ClockMoves(step)

Spec == Init /\ [][Next]_evaluationVars

-----------------------------------------------------------------------------
\* Every variable holds what its comment says, and the features of the markets
\* of the universe are within their ranges: no imbalance beyond one, no
\* microprice outside the quotes (features/microstructure.py).
TypeOK ==
    /\ now \in Int /\ samples \in [Feeds -> Int \cup {NULL}]
    /\ killed \subseteq {"STALE_CRITICAL_DATA"}
    /\ \A m \in MarketIds : Len(history[m]) <= HistoryLength /\ ToSet(history[m]) \subseteq Nat
    /\ applied \subseteq seen
    /\ decision.edge.confidence \in 0..100
    /\ \A i \in DOMAIN universe :
         FeaturesOK(universe[i], Features(universe[i], history[universe[i].id], <<>>, now))

\* What a candidate was decided on was fresh when it was decided: its own book
\* and fees, whatever other markets were evaluated in between, the print and the
\* game state, and none of them from a future beyond the tolerance
\* (pipeline.py:394-437, 625-636, 697-735).
Fresh(at, feed) == now - at <= MaxAge[feed] /\ at - now <= SkewTolerance

DecidedOnFreshData ==
    [][decision' # decision /\ decision'.reason = "CANDIDATE" =>
         LET market == decision'.market IN
         /\ market.book # NULL => Fresh(market.book.at, "clob_book")
         /\ market.fees.enabled # NULL => Fresh(market.fees.at, "clob_fees")
         /\ decision'.print # NULL => ObservationAge(decision'.print, now) <= MaxAge["rtds"]
         /\ decision'.state # NULL => now - decision'.state.at <= MaxAge["sports_ws"]
         /\ decision'.snap # NULL => decision'.print # NULL]_evaluationVars

\* One event moves a probability once, for one market, however many items tell
\* it and however often its market is evaluated (news/engine.py:158-163).
NewsShiftsOnce ==
    [][evaluations' # evaluations /\ decision'.news.apply => decision'.news.key \notin applied]_evaluationVars

\* The two walks of the repository agree: the slippage of a number of shares is
\* the vwap of what they cost, as long as the book holds them
\* (fairvalue/fees.py:40-59, features/microstructure.py:216-267).
WalksAgree ==
    \A i \in DOMAIN universe :
        LET market == universe[i] IN
        market.book # NULL /\ market.book.asks # <<>> =>
        \A shares \in 1..Depth(market.book.asks, Len(market.book.asks)) :
            LET walk == WalkShares(market.book.asks, shares)
                vwap == WalkVwap(market.book.asks, walk.cost).vwap
            IN vwap # NULL /\ vwap[1] * shares = walk.cost * vwap[2]
=============================================================================
