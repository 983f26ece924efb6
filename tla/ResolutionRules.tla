--------------------------- MODULE ResolutionRules --------------------------
\* hotflow/discovery/resolution.py: what a market says about how it resolves.
\* The regular expressions are abstracted to what they find in the joined text:
\* text.found holds the names of the patterns that match, text[name] a value.
EXTENDS BookRules

CONSTANTS
    Symbols,  \* RTDS_CHAINLINK_SYMBOLS
    Titles    \* ESPORTS_DOCUMENTED_TITLES

\* Fields are present one by one; the confidence is their share, in percent.
Present(fields) == Cardinality({i \in DOMAIN fields : fields[i]})
Confidence(fields) == (100 * Present(fields)) \div Len(fields)
Has(text, patterns) == text.found \cap patterns # {}

\* parse_resolution: a quarter of its four fields is enough, and one that dates
\* or decides the market.
Tradeable(text) ==
    LET fields == << Has(text, {"source"}), Has(text, {"uma"}), text.end # NULL, Has(text, {"resolved_by"}) >>
    IN Confidence(fields) >= 25 /\ (fields[1] \/ fields[3] \/ fields[2])

\* One window, not both; a symbol written with a slash is official or none, and
\* an alias is only read without one.
OfficialWindow(text) ==
    CASE text.found \cap {"30s", "60s"} = {"30s"} -> 30
      [] text.found \cap {"30s", "60s"} = {"60s"} -> 60
      [] OTHER -> NULL

OfficialSymbol(text) ==
    IF text.slash # NULL THEN (IF text.slash \in Symbols THEN text.slash ELSE NULL) ELSE text.alias

TwapSpec(text) ==
    LET window  == OfficialWindow(text)
        twap    == Has(text, {"twap"}) \/ window # NULL
        symbol  == OfficialSymbol(text)
        strike  == FirstKnown(<<text.strike, text.above, text.threshold, text.opening>>)
        skip    == CASE twap /\ window = NULL -> "TWAP_WINDOW_UNKNOWN"
                     [] twap /\ window # NULL /\ symbol = NULL -> "TWAP_SYMBOL_UNKNOWN"
                     [] twap /\ window # NULL /\ symbol # NULL /\ strike = NULL -> "TWAP_STRIKE_UNKNOWN"
                     [] OTHER -> NULL
    IN [twap |-> twap, window |-> window, symbol |-> symbol, strike |-> strike, skip |-> skip,
        complete |-> twap /\ skip = NULL]

\* The first of: "or below", "less than", a listed threshold, a numbered title
\* that says below or less, "above", "be N degrees".
WeatherThreshold(text) ==
    CASE Has(text, {"or_below"}) -> <<text.number, "at_or_below">>
      [] ~Has(text, {"or_below"}) /\ Has(text, {"less"}) -> <<text.number, "less_than">>
      [] ~Has(text, {"or_below", "less"}) /\ text.threshold # NULL ->
           <<text.threshold, IF Has(text, {"above"}) THEN "above" ELSE NULL>>
      [] ~Has(text, {"or_below", "less"}) /\ text.threshold = NULL ->
           IF Has(text, {"title_below"}) THEN <<text.number, "at_or_below">>
           ELSE IF Has(text, {"title_less"}) THEN <<text.number, "less_than">>
           ELSE IF Has(text, {"above"}) THEN <<text.number, "above">>
           ELSE IF Has(text, {"exact"}) THEN <<text.number, "exact_bin">> ELSE <<NULL, NULL>>

\* A source is named in a field, or in a sentence that does not say "another
\* credible" one.
NamedSource(text) ==
    IF Has(text, {"source"}) \/ (Has(text, {"source_sentence"}) /\ ~Has(text, {"any_credible"}))
    THEN "source" ELSE NULL

\* Of an exclusive pair the named one, NULL otherwise.
Found(text, name) == IF Has(text, {name}) THEN name ELSE NULL

WeatherSpec(text) ==
    LET place  == {"city", "station"}
        limit  == WeatherThreshold(text)
        fields == << NamedSource(text) # NULL, Has(text, place), Has(text, {"metric"}), Has(text, {"unit"}),
                     Has(text, {"window"}), Has(text, {"zone"}), Has(text, {"rounding"}), limit[1] # NULL >>
        complete == fields[1] /\ fields[2] /\ fields[3] /\ fields[4] /\ fields[5] /\ fields[8]
    IN [city |-> Found(text, "city"), station |-> Found(text, "station"), source |-> NamedSource(text),
        threshold |-> limit[1], comparison |-> limit[2], confidence |-> Confidence(fields),
        complete |-> complete /\ Confidence(fields) >= 50,
        skip |-> IF complete THEN NULL ELSE "WEATHER_RULES_UNKNOWN"]

\* A league that is named but not documented is none; only without one the free
\* text is searched.
SportsSpec(text) ==
    LET league == IF Has(text, {"league_field"}) THEN text.league ELSE FirstKnown(<<text.league, text.word>>)
        fields == << Has(text, {"source"}), league # NULL, text.home # NULL, text.away # NULL,
                     Has(text, {"sports_type", "game_start"}), text.period # NULL \/ text.score # NULL >>
        complete == fields[1] /\ fields[2] /\ fields[3] /\ fields[4]
    IN [league |-> league, home |-> text.home, away |-> text.away, period |-> text.period,
        score |-> text.score, live |-> text.live, ended |-> text.ended,
        confidence |-> Confidence(fields), complete |-> complete /\ Confidence(fields) >= 50,
        skip |-> IF complete THEN NULL ELSE "SPORTS_RULES_UNKNOWN"]

\* Two teams of one name are none; a title is read from the metadata, a tag, the
\* text or the slug, in this order.
EsportsSpec(text) ==
    LET teams  == text.home # NULL /\ text.away # NULL /\ text.home = text.away
        game   == FirstKnown(<<text.league, text.word>>)
        fields == << game # NULL, NamedSource(text) # NULL, text.home # NULL /\ ~teams, text.away # NULL /\ ~teams,
                     Has(text, {"best_of", "sports_type"}), Has(text, {"tournament"}) >>
        complete == game \in Titles /\ fields[2] /\ fields[3] /\ fields[4]
    IN [game |-> game, home |-> IF teams THEN NULL ELSE text.home, league |-> game,
        confidence |-> Confidence(fields), complete |-> complete /\ Confidence(fields) >= 50,
        skip |-> IF complete THEN NULL ELSE "ESPORTS_RULES_UNKNOWN"]
=============================================================================
