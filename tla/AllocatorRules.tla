--------------------------- MODULE AllocatorRules ---------------------------
(***************************************************************************)
(* PortfolioAllocator of portfolio/allocator.py and the correlation rules  *)
(* of portfolio/correlation.py as operators.  The allocator keeps nothing  *)
(* between calls: a call reads the exposure book and the risk engine's     *)
(* exposures, and reserves room for its candidates one by one, best rank   *)
(* first.                                                                  *)
(*                                                                         *)
(* What extract_identity parses out of a market's text is a constant of    *)
(* the market; only its regime labels differ from call to call.  Money is  *)
(* integer, scales and fractions are percent.  An unset max_exposure is a  *)
(* cap of MaxCorrelatedExposure, given as such.  portfolio.enabled is on.  *)
(***************************************************************************)
EXTENDS RiskLimits, PrefixSums, SequencesExt

CONSTANTS Identity,         \* [underlying, window, tags, place] of each market
          Rules,            \* the enabled switches of PortfolioRulesConfig
          GenericTags, TagOverlapMin,
          Groups,           \* CorrelationGroupConfig records
          Regimes,          \* sequence of [id, scale]: percent by group id
          MinAllocatePct    \* min_allocate_fraction in percent

None == "none"

ASSUME AllocatorAssumption ==
  /\ DOMAIN Identity = Markets
  /\ TagOverlapMin \in Nat
  /\ MinAllocatePct \in 0..100
  /\ \A g \in Groups : g.cap \in Nat /\ g.maxMarkets \in Nat
  /\ \A g, h \in Groups : g.id = h.id => g = h
  /\ Regimes \in Seq(Range(Regimes))
  /\ \A i \in DOMAIN Regimes, g \in Groups : Regimes[i].scale[g.id] \in Int

-----------------------------------------------------------------------------
(* Correlation *)

\* _field_for_key: the city, game or match of a market is its place
InstanceOf(m, key) ==
  CASE key = "underlying" -> Identity[m].underlying
    [] key = "place"      -> Identity[m].place
    [] OTHER              -> None

\* group_buckets: an empty condition does not exclude, a missing field does
Joins(m, g) ==
  /\ g.category \in {None, Category[m]}
  /\ g.windows = {} \/ Identity[m].window \in g.windows
  /\ g.underlyings = {} \/ Identity[m].underlying \in g.underlyings
  /\ g.tagsAny = {} \/ Identity[m].tags \cap g.tagsAny # {}
  /\ g.key = None \/ InstanceOf(m, g.key) # None

SameBucket(m, n, g) ==
  /\ Joins(m, g) /\ Joins(n, g)
  /\ InstanceOf(m, g.key) = InstanceOf(n, g.key)

SpecificTags(m) == Identity[m].tags \ (GenericTags \cup {Identity[m].window})

SameField(a, b) == a # None /\ a = b

\* correlation_hits, as a yes or no
Correlated(m, n) ==
  /\ m # n
  /\ \/ /\ "same_underlying" \in Rules
        /\ SameField(Identity[m].underlying, Identity[n].underlying)
     \/ /\ "same_category_window" \in Rules
        /\ Category[m] = Category[n]
        /\ SameField(Identity[m].window, Identity[n].window)
     \/ /\ "tag_overlap" \in Rules
        /\ LET shared == SpecificTags(m) \cap SpecificTags(n)
           IN  shared # {} /\ Cardinality(shared) >= TagOverlapMin
     \/ /\ "yaml_groups" \in Rules
        /\ \E g \in Groups : SameBucket(m, n, g)

-----------------------------------------------------------------------------
(* Rooms.  An exposure book maps each market to its notional and the regime *)
(* labels it was last recorded with; a market without notional is not in it. *)

NotOpen == [notional |-> 0, labels |-> {}]

OpenMarkets(book) == {n \in Markets : book[n].notional > 0}

NotionalOf(book, S) == MapThenSumSet(LAMBDA n : book[n].notional, S)

\* The other open markets of m's bucket of g.  What m itself already holds is
\* not among them.
Members(book, m, g) == {n \in OpenMarkets(book) \ {m} : SameBucket(m, n, g)}

\* _group_cap: every regime that labels the candidate or a member scales the cap
ScaledCap(g, labels) ==
  LET cap[i \in 0..Len(Regimes)] ==
        IF i = 0 THEN g.cap
        ELSE IF Regimes[i].id \in labels THEN (cap[i - 1] * Regimes[i].scale[g.id]) \div 100
        ELSE cap[i - 1]
  IN  cap[Len(Regimes)]

LabelsOf(book, S) == UNION {book[n].labels : n \in S}

\* mutant: only the candidate's own labels scale the cap
GroupRoomOwnLabels(book, c, g) ==
  LET members == Members(book, c.market, g)
  IN  IF Cardinality(members) >= g.maxMarkets THEN 0
      ELSE Greater(0, ScaledCap(g, c.labels) - NotionalOf(book, members))

\* mutant: one market too many may join a group
GroupRoomOneMore(book, c, g) ==
  LET members == Members(book, c.market, g)
  IN  IF Cardinality(members) > g.maxMarkets THEN 0
      ELSE Greater(0, ScaledCap(g, c.labels \cup LabelsOf(book, members))
                        - NotionalOf(book, members))

GroupRoom(book, c, g) ==
  LET members == Members(book, c.market, g)
  IN  IF Cardinality(members) >= g.maxMarkets THEN 0
      ELSE Greater(0, ScaledCap(g, c.labels \cup LabelsOf(book, members))
                        - NotionalOf(book, members))

\* mutant: correlated exposure is not looked at
CorrelatedRoomUnlimited(book, c) == c.intended

CorrelatedRoom(book, c) ==
  LET used == NotionalOf(book, {n \in OpenMarkets(book) : Correlated(c.market, n)})
  IN  IF used = 0 THEN c.intended ELSE Greater(0, MaxCorrelatedExposure - used)

\* Exposures as a call sees them: the book with what the call reserved so far,
\* and the running category, total and concurrent-market exposures.
Concentrated(x, m) == m \notin x.concurrent /\ Cardinality(x.concurrent) >= MaxConcurrentMarkets

Room(x, c) ==
  IF Concentrated(x, c.market) THEN 0
  ELSE Min({c.intended, MaxOrderNotional,
            Greater(0, MaxCategoryExposure - x.category[Category[c.market]]),
            Greater(0, MaxTotalExposure - x.total),
            CorrelatedRoom(x.book, c)}
           \cup {GroupRoom(x.book, c, g) : g \in {h \in Groups : Joins(c.market, h)}})

\* mutant: any room is worth an order
PlaceAnyRoom(x, c) == Room(x, c)

\* _place: the notional allocated to candidate c; none is a SKIP, less than
\* intended a DOWNSIZE
Place(x, c) ==
  LET room == Room(x, c)
  IN  IF room * 100 < c.intended * MinAllocatePct THEN 0 ELSE room

-----------------------------------------------------------------------------
(* allocate *)

\* mutant: the total is not carried from candidate to candidate
ReserveWithoutTotal(x, c, notional) ==
  IF notional = 0 THEN x
  ELSE [x EXCEPT !.book[c.market] = [notional |-> @.notional + notional,
                                     labels |-> @.labels \cup c.labels],
                 !.category[Category[c.market]] = @ + notional,
                 !.concurrent = @ \cup {c.market}]

Reserve(x, c, notional) ==
  IF notional = 0 THEN x
  ELSE [x EXCEPT !.book[c.market] = [notional |-> @.notional + notional,
                                     labels |-> @.labels \cup c.labels],
                 !.category[Category[c.market]] = @ + notional,
                 !.total = @ + notional,
                 !.concurrent = @ \cup {c.market}]

\* concurrent_markets, or the book's markets when that set is empty
Exposures(book, category, total, concurrent) ==
  [book |-> book, category |-> category, total |-> total,
   concurrent |-> IF concurrent = {} THEN OpenMarkets(book) ELSE concurrent]

\* The allocations of a whole call, in rank order.
AllocateAll(x, ranked) ==
  LET seen[i \in 0..Len(ranked)] ==
        IF i = 0 THEN x
        ELSE Reserve(seen[i - 1], ranked[i], Place(seen[i - 1], ranked[i]))
  IN  [i \in DOMAIN ranked |-> Place(seen[i - 1], ranked[i])]

=============================================================================
