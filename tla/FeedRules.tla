------------------------------ MODULE FeedRules -----------------------------
\* The ages of what a decision is based on: FeedClock with its one sample per
\* feed, the age of a TWAP print and of a game state, and the sources that
\* answer with the newest row.  Times are in seconds.
EXTENDS BookRules

CONSTANTS
    Feeds,          \* names the clock is touched with
    CriticalFeeds,  \* those whose spec says critical
    MaxAge,         \* max_data_age per feed
    SkewTolerance   \* skew_tolerance_ms

ASSUME FeedRulesAssumption ==
    CriticalFeeds \subseteq Feeds /\ MaxAge \in [Feeds -> Nat] /\ SkewTolerance \in Nat

Forever == 1000000  \* float("inf")

\* A feed keeps the observation of its last touch.
NoSamples == [f \in Feeds |-> NULL]
Touch(samples, feed, observed) == [samples EXCEPT ![feed] = observed]

\* An observation further in the future than the tolerance has no finite age.
FeedAge(samples, feed, now) ==
    CASE samples[feed] = NULL -> NULL
      [] samples[feed] # NULL /\ samples[feed] - now > SkewTolerance -> Forever
      [] OTHER -> Greater(0, now - samples[feed])

CriticalStale(samples, now) ==
    {f \in CriticalFeeds : samples[f] # NULL /\ FeedAge(samples, f, now) > MaxAge[f]}

\* A print that is no fixture is as old as its Chainlink timestamp says, and a
\* timestamp in the future is age zero.
ObservationAge(print, now) ==
    Greater(0, now - (IF ~print.fixture /\ print.payload # NULL THEN print.payload ELSE print.at))

ObservationStatus(print, now) ==
    IF print = NULL THEN "missing" ELSE IF ObservationAge(print, now) > MaxAge["rtds"] THEN "stale" ELSE "fresh"

GameStatus(state, now) ==
    IF state = NULL THEN "missing"
    ELSE IF Greater(0, now - state.at) > MaxAge["sports_ws"] THEN "stale" ELSE "fresh"

\* SportsGameCache.latest: the row inserted last that the teams and league of a
\* spec do not rule out; a field that is missing rules nothing out.
SameOrMissing(a, b) == a = NULL \/ b = NULL \/ a = b

LatestGame(rows, spec) ==
    LET fits == {i \in DOMAIN rows : SameOrMissing(spec.league, rows[i].league)
                                       /\ SameOrMissing(spec.home, rows[i].home)}
    IN IF fits = {} THEN NULL ELSE rows[CHOOSE i \in fits : \A j \in fits : j <= i]

\* Without a cached game, the fields of the market itself.
GameFromMetadata(spec, now) ==
    IF spec.score = NULL /\ spec.period = NULL /\ spec.live = NULL /\ spec.ended = NULL THEN NULL
    ELSE [league |-> spec.league, home |-> spec.home, score |-> spec.score, period |-> spec.period,
          live |-> spec.live, ended |-> spec.ended, status |-> NULL, at |-> now]

\* The forecast of the city, the station, the source, or the default one.
LatestForecast(rows, spec) ==
    LET keys == SelectSeq(<<spec.city, spec.station, spec.source, "default">>,
                          LAMBDA k : k # NULL /\ k \in DOMAIN rows)
    IN IF keys = <<>> THEN NULL ELSE rows[Head(keys)]
=============================================================================
