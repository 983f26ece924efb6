------------------------------ MODULE Allocator ------------------------------
(***************************************************************************)
(* One call of PortfolioAllocator.allocate, candidate by candidate.  The   *)
(* call starts from exposures earlier cycles left behind: markets still    *)
(* held, with the regime labels of the day they were bought, a total that  *)
(* marks have moved away from what was paid.  The rank is a number made of *)
(* scores, so the next candidate is any market not yet considered.         *)
(***************************************************************************)
EXTENDS AllocatorRules

CONSTANTS HeldNotionals,   \* notionals an open market may have been bought for
          TotalShifts,     \* what marks may have added to the total
          IntendedNotionals    \* intended notionals of candidates

ASSUME CallAssumption ==
  /\ HeldNotionals \subseteq Nat \ {0}
  /\ TotalShifts \subseteq Int
  /\ IntendedNotionals \subseteq Nat \ {0}

VARIABLES given,    \* the exposures the call was made with
          seen,     \* the same with what the call has reserved
          placed    \* by_id: what each market considered so far was allocated

allocateVars == <<given, seen, placed>>

Labels == {Regimes[i].id : i \in DOMAIN Regimes}

Open == [notional : HeldNotionals, labels : SUBSET Labels]

Spent(book) ==
  [k \in Categories |-> NotionalOf(book, {m \in Markets : Category[m] = k})]

\* What a session hands over: the book and the category exposures grew by the same
\* fills, every open market is concurrent (and some that never filled), and the
\* total is the marked value of what is held.
AllocateInit ==
  /\ \E book \in [Markets -> Open \cup {NotOpen}], shift \in TotalShifts,
        unfilled \in SUBSET Markets :
       /\ \A k \in Categories : Spent(book)[k] <= MaxCategoryExposure
       /\ Cardinality(OpenMarkets(book) \cup unfilled) <= MaxConcurrentMarkets
       /\ given = Exposures(book, Spent(book),
                            Greater(0, NotionalOf(book, Markets) + shift),
                            OpenMarkets(book) \cup unfilled)
  /\ seen = given
  /\ placed = <<>>

\* one turn of the loop in allocate
Consider(c) ==
  LET notional == Place(seen, c)
  IN  /\ c.market \notin DOMAIN placed
      /\ seen' = Reserve(seen, c, notional)
      /\ placed' = [m \in DOMAIN placed \cup {c.market} |->
                      IF m = c.market THEN [intended |-> c.intended, notional |-> notional]
                      ELSE placed[m]]
      /\ UNCHANGED given

Candidates == [market : Markets, intended : IntendedNotionals, labels : SUBSET Labels]

AllocateNext == \E c \in Candidates : Consider(c)

AllocateSpec == AllocateInit /\ [][AllocateNext]_allocateVars

-----------------------------------------------------------------------------
(* Properties *)

BookType == [Markets -> [notional : Nat, labels : SUBSET Labels]]

ExposureType ==
  [book : BookType, category : [Categories -> Nat], total : Nat, concurrent : SUBSET Markets]

\* Exposures are well formed, and no candidate gets more than it asked for, nor
\* less than the fraction of it that is worth an order.
AllocateTypeOK ==
  /\ given \in ExposureType
  /\ seen \in ExposureType
  /\ DOMAIN placed \subseteq Markets
  /\ \A m \in DOMAIN placed :
       /\ placed[m] \in [intended : IntendedNotionals, notional : Nat]
       /\ placed[m].notional <= placed[m].intended
       /\ placed[m].notional > 0 => placed[m].notional * 100 >= placed[m].intended * MinAllocatePct

Taken == {m \in DOMAIN placed : placed[m].notional > 0}

\* what the call handed out to the markets of S
HandedOut(S) == MapThenSumSet(LAMBDA m : placed[m].notional, S \cap DOMAIN placed)

\* The rooms are shared, not offered to each candidate anew: all allocations of a call
\* together fit in the category, total and concurrent-market rooms the call found.
RoomsShared ==
  /\ \A k \in Categories :
       LET mine == {m \in Markets : Category[m] = k}
       IN  HandedOut(mine) > 0 => given.category[k] + HandedOut(mine) <= MaxCategoryExposure
  /\ HandedOut(Markets) > 0 => given.total + HandedOut(Markets) <= MaxTotalExposure
  /\ Cardinality(given.concurrent \cup Taken) <= MaxConcurrentMarkets

\* the open markets of m's bucket of g
BucketOf(book, m, g) == {n \in OpenMarkets(book) : SameBucket(m, n, g)}

\* Named groups, counted over a whole call: unless the call added to a market that was
\* already open (which is not counted against itself), a bucket ends with no more
\* exposure and no more markets than its cap allows, or than it already had.
GroupsFit ==
  \A g \in Groups, m \in Markets :
    LET before == BucketOf(given.book, m, g)
        after  == BucketOf(seen.book, m, g)
    IN  Taken \cap before = {} =>
          /\ NotionalOf(seen.book, after) <= Greater(g.cap, NotionalOf(given.book, before))
          /\ Cardinality(after) <= Greater(g.maxMarkets, Cardinality(before))

\* "same underlying": markets on one underlying, bought in one call or in several, are
\* one bet.  Unless an open one is added to, their sum stays within the correlated cap
\* (an order alone on its underlying is only bound by the order limit).
UnderlyingsFit ==
  \A u \in {Identity[m].underlying : m \in Markets} \ {None} :
    LET before == {n \in OpenMarkets(given.book) : Identity[n].underlying = u}
        after  == {n \in OpenMarkets(seen.book) : Identity[n].underlying = u}
    IN  (Taken \cap before = {} /\ "same_underlying" \in Rules) =>
          NotionalOf(seen.book, after)
            <= Max({MaxCorrelatedExposure, MaxOrderNotional, NotionalOf(given.book, before)})

\* A regime label of any member tightens the whole bucket: whenever a market joins a
\* bucket, the exposure of the bucket fits the cap scaled by the labels of all its
\* members, those labelled when they were bought and those labelled now.
RegimesTighten ==
  [][\A g \in Groups, m \in Markets :
       (seen.book[m].notional = 0 /\ seen'.book[m].notional > 0 /\ Joins(m, g)) =>
         LET bucket == BucketOf(seen'.book, m, g)
         IN  NotionalOf(seen'.book, bucket) <= ScaledCap(g, LabelsOf(seen'.book, bucket))]_allocateVars

=============================================================================
