------------------------------ MODULE NewsRules -----------------------------
\* hotflow/news: what a labelled item says about a market.  Authorities,
\* relevances and confidences are in percent, shifts and probabilities in
\* points, times in seconds; the recency weight is taken by whole half-lives.
\* An item names the market it is about, or NULL, and the share of its terms
\* found in the text of each market.
EXTENDS BookRules

CONSTANTS
    Authority,          \* SOURCE_AUTHORITY, a function of the known sources
    ClassOfSource,      \* the sources classify knows
    MinAuthority, MinRelevance, MinConfidence,
    HalfLife,           \* recency_half_life_s
    AlreadyRepriced,    \* already_repriced_abs
    MaxShift            \* max_p_shift

FutureTolerance == 5

ClassWeight ==
    [official |-> 100, wire |-> 85, breaking |-> 70, commentary |-> 40, rumor |-> 25, unknown |-> 15]

ASSUME NewsAssumption ==
    /\ \A source \in DOMAIN Authority : Authority[source] \in Nat
    /\ \A source \in DOMAIN ClassOfSource : ClassOfSource[source] \in DOMAIN ClassWeight
    /\ MinConfidence \in Nat /\ HalfLife \in Nat

\* The label of an item wins over what its source is known for.
Classify(item) ==
    CASE item.label # NULL -> item.label
      [] item.label = NULL /\ item.source \in DOMAIN ClassOfSource -> ClassOfSource[item.source]
      [] OTHER -> "unknown"

\* An event key, or what the hash of headline and source stands for.
Fingerprint(item) == IF item.event # NULL THEN <<item.event>> ELSE <<item.headline, item.source>>

AuthorityOf(item) == IF item.source \in DOMAIN Authority THEN Authority[item.source] ELSE 0
Relevance(item, market) == item.relevance[market.id]

\* recency_weight: one over this
Halved(age) == IF HalfLife = 0 THEN 1 ELSE Power(2, Greater(0, age) \div HalfLife)

ConfidenceOf(item, now) ==
    (AuthorityOf(item) * ClassWeight[Classify(item)]) \div (100 * Halved(now - item.at))

\* candidates_for: items about this market, and unaddressed ones with a hit
Concerns(item, market) ==
    item.market = market.id \/ (item.market = NULL /\ Relevance(item, market) > 0)

\* The mid is where the item says it should go, or has moved as far from where
\* it was before the event.
Repriced(item, mid) ==
    mid # NULL /\
    \/ item.after # NULL /\ Abs(mid - item.after) <= AlreadyRepriced
    \/ /\ item.before # NULL /\ item.shift # NULL
       /\ (mid - item.before) * item.shift >= 0
       /\ \/ Abs(mid - item.before) >= Abs(item.shift) - AlreadyRepriced
          \/ Abs(mid - item.before - item.shift) <= AlreadyRepriced

-----------------------------------------------------------------------------
\* Why an item does not apply, in the order of evaluate_item, or OK.  The first
\* reasons are given before the fingerprint is looked up, but mark it as well.
Unvalidated(item, now) ==
    AuthorityOf(item) < MinAuthority \/ item.at - now > FutureTolerance

BaseOf(pBase, market) == IF pBase # NULL THEN pBase ELSE MarketMid(market)

Verdict(item, market, pBase, now, seen) ==
    IF Unvalidated(item, now) THEN "NEWS_UNVALIDATED"
    ELSE IF Fingerprint(item) \in seen THEN "NEWS_DUPLICATE"
    ELSE IF Relevance(item, market) < MinRelevance THEN "NEWS_IRRELEVANT_RESOLUTION"
    ELSE IF ConfidenceOf(item, now) < MinConfidence THEN "NEWS_LOW_CONFIDENCE"
    ELSE IF Repriced(item, MarketMid(market)) THEN "NEWS_ALREADY_REPRICED"
    ELSE IF item.after = NULL /\ (item.shift = NULL \/ BaseOf(pBase, market) = NULL)
    THEN "NEWS_UNVALIDATED" ELSE "OK"

Clipped(p) == Greater(1, Lesser(99999, p))

\* mutant: a fingerprint is only remembered when its item is refused
SeenWithoutApplied(item, market, pBase, now, seen) ==
    IF Verdict(item, market, pBase, now, seen) = "OK" THEN seen ELSE seen \cup {Fingerprint(item)}

SeenAfter(item, market, pBase, now, seen) == seen \cup {Fingerprint(item)}

\* evaluate_item: the impact, with the probability the item leads to.
Impact(item, market, pBase, now, seen) ==
    LET reason == Verdict(item, market, pBase, now, seen)
        capped == Greater(-MaxShift, Lesser(MaxShift, item.shift))
    IN [apply |-> reason = "OK", reason |-> reason, key |-> Fingerprint(item),
        class |-> Classify(item), relevance |-> Relevance(item, market),
        confidence |-> ConfidenceOf(item, now),
        adjusted |-> IF reason # "OK" THEN NULL
                     ELSE IF item.after # NULL THEN Clipped(item.after)
                     ELSE Clipped(BaseOf(pBase, market) + capped)]

NoImpact == [apply |-> FALSE, reason |-> NULL, key |-> NULL, class |-> "unknown", relevance |-> 0,
             confidence |-> 0, adjusted |-> NULL]

\* impact_for: the items in the order they came in, up to the first that applies.
Hear(heard, item, market, pBase, now) ==
    IF heard.impact.apply \/ ~Concerns(item, market) THEN heard
    ELSE [impact |-> Impact(item, market, pBase, now, heard.seen),
          seen   |-> SeenAfter(item, market, pBase, now, heard.seen)]

ImpactFor(items, market, pBase, now, seen) ==
    LET heard[n \in 0..Len(items)] ==
          IF n = 0 THEN [impact |-> NoImpact, seen |-> seen]
          ELSE Hear(heard[n - 1], items[n], market, pBase, now)
    IN heard[Len(items)]
=============================================================================
