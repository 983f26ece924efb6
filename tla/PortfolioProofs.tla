-------------------------- MODULE PortfolioProofs --------------------------
(***************************************************************************)
(* The two halves of what a cycle spends.  Allocator, for any number of    *)
(* markets, groups, regimes and candidates: a call shares its rooms among  *)
(* its candidates, and groups, underlyings and regimes bound what it hands *)
(* out.  PaperSession, for every number of markets, tokens and orders,     *)
(* every price, size and limit, and calls of any number: its books agree   *)
(* with each other and stay within their limits, and a tripped switch or a *)
(* reached loss stops every order.                                         *)
(***************************************************************************)
EXTENDS Allocator, PaperSession, RulesProofs

-----------------------------------------------------------------------------
(* PART I: an allocate call.  What a call handed out *)

WellPlaced(p) == DOMAIN p \subseteq Markets /\ \A m \in DOMAIN p : p[m].notional \in Nat

HandedBy(p, S) == MapThenSumSet(LAMBDA m : p[m].notional, S \cap DOMAIN p)

\* What each market got; nothing before it was considered.
Handed(p) == [m \in Markets |-> IF m \in DOMAIN p THEN p[m].notional ELSE 0]

LEMMA HandedNat ==
  ASSUME NEW p, WellPlaced(p)
  PROVE  \A m \in Markets : Handed(p)[m] \in Nat
  BY DEF WellPlaced, Handed

LEMMA HandedIsSum ==
  ASSUME NEW p, WellPlaced(p), NEW S \in SUBSET Markets
  PROVE  HandedBy(p, S) = SetSum(Handed(p), S)
<1> DEFINE D == S \cap DOMAIN p
           R == S \ DOMAIN p
           f == [m \in D |-> p[m].notional]
           h == Handed(p)
<1>1. HandedBy(p, S) = SetSum(f, D)
  BY ZenonT(60) DEF HandedBy, SetSum, MapThenSumSet, MapThenFoldSet
<1>2. IsFiniteSet(D) /\ IsFiniteSet(R) /\ D \cap R = {}
  BY FiniteMarkets
<1>3. IntOn(f, D) /\ \A m \in D : f[m] = h[m]
  BY DEF IntOn, WellPlaced, Handed
<1>4. \A m \in R : h[m] = 0
  BY DEF Handed
<1>5. IntOn(h, D \cup R)
  BY HandedNat DEF IntOn
<1>6. SetSum(h, D \cup R) = SetSum(h, S)
  <2>1. D \cup R = S
    OBVIOUS
  <2>2. QED
    BY <2>1, Zenon
<1> HIDE DEF f, D, R, h
<1>7. SetSum(f, D) = SetSum(h, D)
  BY <1>2, <1>3, SetSumSame
<1>8. SetSum(h, R) = 0
  BY <1>2, <1>4, SetSumZero
<1>9. SetSum(h, D \cup R) = SetSum(h, D) + SetSum(h, R)
  BY <1>2, <1>5, SetSumUnion
<1>10. SetSum(f, D) \in Int
  BY <1>2, <1>3, SetSumInt
<1>11. QED
  BY <1>1, <1>6, <1>7, <1>8, <1>9, <1>10 DEF h

LEMMA HandedByNat ==
  ASSUME NEW p, WellPlaced(p), NEW S \in SUBSET Markets
  PROVE  HandedBy(p, S) \in Nat
<1>1. SetSum(Handed(p), S) \in Nat
  BY HandedNat, FiniteMarkets, SetSumNat
<1>2. QED
  BY <1>1, HandedIsSum

\* Considering one more market adds what it got to every set it is in.
LEMMA HandedMore ==
  ASSUME NEW p, WellPlaced(p), NEW m \in Markets \ DOMAIN p, NEW r, r.notional \in Nat,
         NEW q, q = [n \in DOMAIN p \cup {m} |-> IF n = m THEN r ELSE p[n]]
  PROVE  /\ WellPlaced(q)
         /\ DOMAIN q = DOMAIN p \cup {m}
         /\ q[m] = r
         /\ \A n \in DOMAIN p : q[n] = p[n]
         /\ \A S \in SUBSET Markets :
              HandedBy(q, S) = HandedBy(p, S) + (IF m \in S THEN r.notional ELSE 0)
<1>1. DOMAIN q = DOMAIN p \cup {m} /\ q[m] = r /\ \A n \in DOMAIN p : q[n] = p[n]
  OBVIOUS
<1>2. WellPlaced(q)
  BY <1>1 DEF WellPlaced
<1>3. ASSUME NEW S \in SUBSET Markets
      PROVE  HandedBy(q, S) = HandedBy(p, S) + (IF m \in S THEN r.notional ELSE 0)
  <2> DEFINE f == Handed(p)
             g == Handed(q)
  <2>1. IntOn(f, S) /\ IntOn(g, S)
    BY <1>2, HandedNat DEF IntOn
  <2>2. \A n \in S \ {m} : g[n] = f[n]
    BY <1>1 DEF Handed
  <2>3. m \in S => f[m] = 0 /\ g[m] = r.notional
    BY <1>1 DEF Handed
  <2>4. HandedBy(q, S) = SetSum(g, S) /\ HandedBy(p, S) = SetSum(f, S)
    BY <1>2, HandedIsSum
  <2>5. IsFiniteSet(S) /\ HandedBy(p, S) \in Nat
    BY FiniteMarkets, HandedByNat
  <2> HIDE DEF f, g
  <2>6. CASE m \in S
    <3>1. SetSum(g, S) = SetSum(f, S) + (g[m] - f[m])
      <4>1. g[m] \in Int
        BY <2>3, <2>6
      <4>2. QED
        BY <2>1, <2>2, <2>5, <2>6, <4>1, SetSumPoint
    <3>2. QED
      BY <2>3, <2>4, <2>5, <2>6, <3>1
  <2>7. CASE m \notin S
    <3>1. \A n \in S : f[n] = g[n]
      BY <2>2, <2>7
    <3>2. SetSum(f, S) = SetSum(g, S)
      BY <2>1, <2>5, <3>1, SetSumSame
    <3>3. QED
      BY <2>4, <2>5, <2>7, <3>2
  <2>8. QED
    BY <2>6, <2>7
<1>4. QED
  BY <1>1, <1>2, <1>3

-----------------------------------------------------------------------------
(* The inductive invariant: what the call's exposures are made of *)

Mine(k) == {m \in Markets : Category[m] = k}

\* The running exposures are the given ones and what was handed out since.
Reserved ==
  /\ \A m \in Markets \ DOMAIN placed : seen.book[m] = given.book[m]
  /\ seen.concurrent = given.concurrent \cup Taken
  /\ \A k \in Categories : seen.category[k] = given.category[k] + HandedOut(Mine(k))
  /\ seen.total = given.total + HandedOut(Markets)

\* A market without notional is not in the book, so it has no labels there.
Labelled(book) == \A m \in Markets : book[m].notional = 0 => book[m].labels = {}

AllocateIInv == AllocateTypeOK /\ Reserved /\ RoomsShared /\ Labelled(seen.book)

\* The parts of AllocateTypeOK in the terms of the lemmas.
LEMMA TypeMeaning ==
  ASSUME AllocateTypeOK
  PROVE  /\ given \in ExposureSet(Labels) /\ seen \in ExposureSet(Labels)
         /\ SoundExposures(given) /\ SoundExposures(seen)
         /\ WellPlaced(placed)
<1>1. given \in ExposureSet(Labels) /\ seen \in ExposureSet(Labels)
  BY DEF AllocateTypeOK, ExposureType, BookType, ExposureSet
<1>2. WellPlaced(placed)
  BY DEF AllocateTypeOK, WellPlaced
<1>3. QED
  BY <1>1, <1>2, ExposureSetSound

LEMMA CandidateMeaning ==
  ASSUME NEW c \in Candidates
  PROVE  /\ SoundCandidate(c) /\ c.intended \in IntendedNotionals /\ c.intended \in Nat
         /\ c.market \in Markets /\ c.labels \in SUBSET Labels
         /\ Category[c.market] \in Categories
  BY CallAssumption DEF Candidates, SoundCandidate, Categories

\* Taken and HandedOut after a candidate got k.
LEMMA ConsiderPlaces ==
  ASSUME AllocateTypeOK, NEW c \in Candidates, Consider(c), NEW k, k = Place(seen, c)
  PROVE  /\ k \in Nat /\ k <= c.intended
         /\ k > 0 => k * 100 >= c.intended * MinAllocatePct /\ k = Room(seen, c)
         /\ c.market \in Markets \ DOMAIN placed
         /\ given' = given
         /\ seen' = Reserve(seen, c, k)
         /\ WellPlaced(placed')
         /\ DOMAIN placed' = DOMAIN placed \cup {c.market}
         /\ placed'[c.market] = [intended |-> c.intended, notional |-> k]
         /\ \A n \in DOMAIN placed : placed'[n] = placed[n]
         /\ Taken' = IF k > 0 THEN Taken \cup {c.market} ELSE Taken
         /\ \A S \in SUBSET Markets :
              /\ HandedOut(S) \in Nat
              /\ HandedOut(S)' = HandedOut(S) + (IF c.market \in S THEN k ELSE 0)
<1>1. /\ k \in Nat /\ k <= c.intended
      /\ k > 0 => k * 100 >= c.intended * MinAllocatePct /\ k = Room(seen, c)
  BY TypeMeaning, CandidateMeaning, PlaceIs
<1> DEFINE r == [intended |-> c.intended, notional |-> k]
<1>2. /\ c.market \in Markets \ DOMAIN placed
      /\ given' = given
      /\ seen' = Reserve(seen, c, k)
      /\ placed' = [n \in DOMAIN placed \cup {c.market} |-> IF n = c.market THEN r ELSE placed[n]]
  BY CandidateMeaning DEF Consider
<1>3. r.notional = k
  OBVIOUS
<1> HIDE DEF r
<1>4. /\ WellPlaced(placed')
      /\ DOMAIN placed' = DOMAIN placed \cup {c.market}
      /\ placed'[c.market] = r
      /\ \A n \in DOMAIN placed : placed'[n] = placed[n]
      /\ \A S \in SUBSET Markets :
           HandedBy(placed', S) = HandedBy(placed, S) + (IF c.market \in S THEN r.notional ELSE 0)
  <2>1. WellPlaced(placed)
    BY TypeMeaning
  <2>2. \A q : q = [n \in DOMAIN placed \cup {c.market} |-> IF n = c.market THEN r ELSE placed[n]] =>
          /\ WellPlaced(q)
          /\ DOMAIN q = DOMAIN placed \cup {c.market}
          /\ q[c.market] = r
          /\ \A n \in DOMAIN placed : q[n] = placed[n]
          /\ \A S \in SUBSET Markets :
               HandedBy(q, S) = HandedBy(placed, S) + (IF c.market \in S THEN r.notional ELSE 0)
    BY <1>1, <1>2, <1>3, <2>1, HandedMore
  <2>3. QED
    BY <1>2, <2>2
<1>5. Taken' = IF k > 0 THEN Taken \cup {c.market} ELSE Taken
  <2>1. Taken' = {m \in DOMAIN placed' : placed'[m].notional > 0}
    BY DEF Taken
  <2>2. QED
    BY <2>1, <1>2, <1>3, <1>4 DEF Taken
<1>6. ASSUME NEW S \in SUBSET Markets
      PROVE  /\ HandedOut(S) \in Nat
             /\ HandedOut(S)' = HandedOut(S) + (IF c.market \in S THEN k ELSE 0)
  <2>1. HandedOut(S) = HandedBy(placed, S)
    BY DEF HandedOut, HandedBy
  <2>2. HandedOut(S)' = HandedBy(placed', S)
    BY DEF HandedOut, HandedBy, MapThenSumSet, MapThenFoldSet
  <2>3. QED
    BY <2>1, <2>2, <1>3, <1>4, TypeMeaning, HandedByNat
<1>7. QED
  BY <1>1, <1>2, <1>4, <1>5, <1>6 DEF r

\* seen after a candidate got k.
LEMMA ConsiderReserves ==
  ASSUME AllocateTypeOK, NEW c \in Candidates, Consider(c), NEW k, k = Place(seen, c)
  PROVE  /\ k = 0 => seen' = seen
         /\ k > 0 =>
              /\ seen'.book[c.market].notional = seen.book[c.market].notional + k
              /\ seen'.book[c.market].labels = seen.book[c.market].labels \cup c.labels
              /\ \A n \in Markets \ {c.market} : seen'.book[n] = seen.book[n]
              /\ seen'.category[Category[c.market]] = seen.category[Category[c.market]] + k
              /\ \A g \in Categories \ {Category[c.market]} : seen'.category[g] = seen.category[g]
              /\ seen'.total = seen.total + k
              /\ seen'.concurrent = seen.concurrent \cup {c.market}
         /\ seen' \in ExposureSet(Labels)
<1>1. k \in Nat /\ seen' = Reserve(seen, c, k)
  BY ConsiderPlaces
<1>2. seen \in ExposureSet(Labels)
  BY TypeMeaning
<1>3. CASE k = 0
  <2>1. seen' = seen
    BY <1>1, <1>3, ReserveNothing
  <2>2. QED
    BY <1>2, <1>3, <2>1
<1>4. CASE k > 0
  <2>1. k \in Nat \ {0} /\ k # 0
    BY <1>1, <1>4
  <2>2. c.market \in Markets /\ c.labels \in SUBSET Labels
    BY CandidateMeaning
  <2>3. QED
    BY <1>1, <1>2, <2>1, <2>2, ReserveIs
<1>5. QED
  BY <1>1, <1>3, <1>4

LEMMA ConsiderType ==
  ASSUME AllocateTypeOK, NEW c \in Candidates, Consider(c)
  PROVE  AllocateTypeOK'
<1> DEFINE k == Place(seen, c)
<1>1. /\ k \in Nat /\ k <= c.intended
      /\ k > 0 => k * 100 >= c.intended * MinAllocatePct
      /\ c.market \in Markets
      /\ given' = given
      /\ DOMAIN placed' = DOMAIN placed \cup {c.market}
      /\ placed'[c.market] = [intended |-> c.intended, notional |-> k]
      /\ \A n \in DOMAIN placed : placed'[n] = placed[n]
  BY ConsiderPlaces
<1>2. seen' \in ExposureSet(Labels)
  BY ConsiderReserves
<1>3. given' \in ExposureType /\ seen' \in ExposureType
  BY <1>1, <1>2 DEF AllocateTypeOK, ExposureSet, ExposureType, BookType
<1>4. c.intended \in IntendedNotionals
  BY CandidateMeaning
<1> HIDE DEF k
<1>5. ASSUME NEW m \in DOMAIN placed'
      PROVE  /\ placed'[m] \in [intended : IntendedNotionals, notional : Nat]
             /\ placed'[m].notional <= placed'[m].intended
             /\ placed'[m].notional > 0 =>
                  placed'[m].notional * 100 >= placed'[m].intended * MinAllocatePct
  <2>1. CASE m = c.market
    <3>1. placed'[m].notional = k /\ placed'[m].intended = c.intended
      BY <1>1, <2>1
    <3>2. placed'[m] \in [intended : IntendedNotionals, notional : Nat]
      BY <1>1, <1>4, <2>1
    <3>3. QED
      BY <1>1, <3>1, <3>2
  <2>2. CASE m \in DOMAIN placed
    <3>1. placed'[m] = placed[m]
      BY <1>1, <2>2
    <3>2. QED
      BY <2>2, <3>1, Zenon DEF AllocateTypeOK
  <2>3. QED
    BY <1>1, <2>1, <2>2
<1>6. DOMAIN placed' \subseteq Markets
  BY <1>1 DEF AllocateTypeOK
<1>7. QED
  BY <1>3, <1>5, <1>6 DEF AllocateTypeOK

LEMMA ConsiderReserved ==
  ASSUME AllocateTypeOK, Reserved, NEW c \in Candidates, Consider(c)
  PROVE  Reserved'
<1> DEFINE k == Place(seen, c)
           m == c.market
<1>1. /\ k \in Nat
      /\ m \in Markets \ DOMAIN placed
      /\ given' = given
      /\ DOMAIN placed' = DOMAIN placed \cup {m}
      /\ Taken' = IF k > 0 THEN Taken \cup {m} ELSE Taken
      /\ \A S \in SUBSET Markets :
           HandedOut(S) \in Nat /\ HandedOut(S)' = HandedOut(S) + (IF m \in S THEN k ELSE 0)
  BY ConsiderPlaces
<1>2. /\ k = 0 => seen' = seen
      /\ k > 0 =>
           /\ \A n \in Markets \ {m} : seen'.book[n] = seen.book[n]
           /\ seen'.category[Category[m]] = seen.category[Category[m]] + k
           /\ \A g \in Categories \ {Category[m]} : seen'.category[g] = seen.category[g]
           /\ seen'.total = seen.total + k
           /\ seen'.concurrent = seen.concurrent \cup {m}
  BY ConsiderReserves
<1>3. /\ \A g \in Categories : given.category[g] \in Nat
      /\ given.total \in Nat
  BY TypeMeaning DEF SoundExposures
<1> HIDE DEF k, m
<1>4. \A n \in Markets \ DOMAIN placed' : seen'.book[n] = given'.book[n]
  <2>1. ASSUME NEW n \in Markets \ DOMAIN placed' PROVE seen'.book[n] = seen.book[n]
    BY <1>1, <1>2
  <2>2. QED
    BY <1>1, <2>1 DEF Reserved
<1>5. seen'.concurrent = given'.concurrent \cup Taken'
  BY <1>1, <1>2 DEF Reserved
<1>6. ASSUME NEW g \in Categories
      PROVE  seen'.category[g] = given'.category[g] + HandedOut(Mine(g))'
  <2>1. Mine(g) \in SUBSET Markets /\ (m \in Mine(g) <=> g = Category[m])
    BY <1>1 DEF Mine
  <2>2. HandedOut(Mine(g)) \in Nat /\ HandedOut(Mine(g))' = HandedOut(Mine(g)) + (IF m \in Mine(g) THEN k ELSE 0)
    <3>1. Mine(g)' = Mine(g)
      BY DEF Mine
    <3>2. QED
      BY <1>1, <2>1, <3>1
  <2>3. seen.category[g] = given.category[g] + HandedOut(Mine(g))
    BY DEF Reserved
  <2>4. seen'.category[g] = seen.category[g] + (IF g = Category[m] THEN k ELSE 0)
    BY <1>1, <1>2, <1>3, <2>2, <2>3
  <2>5. QED
    BY <1>1, <1>3, <2>1, <2>2, <2>3, <2>4
<1>7. seen'.total = given'.total + HandedOut(Markets)'
  <2>1. HandedOut(Markets) \in Nat /\ HandedOut(Markets)' = HandedOut(Markets) + k
    BY <1>1
  <2>2. seen.total = given.total + HandedOut(Markets)
    BY DEF Reserved
  <2>3. seen'.total = seen.total + k
    BY <1>1, <1>2, <1>3, <2>1, <2>2
  <2>4. QED
    BY <1>1, <1>3, <2>1, <2>2, <2>3
<1>8. QED
  BY <1>4, <1>5, <1>6, <1>7 DEF Reserved

LEMMA ConsiderRooms ==
  ASSUME AllocateIInv, NEW c \in Candidates, Consider(c)
  PROVE  RoomsShared'
<1> DEFINE k == Place(seen, c)
           m == c.market
<1>0. AllocateTypeOK /\ Reserved /\ RoomsShared
  BY DEF AllocateIInv
<1>1. /\ k \in Nat
      /\ k > 0 => k = Room(seen, c)
      /\ m \in Markets \ DOMAIN placed
      /\ given' = given
      /\ Taken' = IF k > 0 THEN Taken \cup {m} ELSE Taken
      /\ \A S \in SUBSET Markets :
           HandedOut(S) \in Nat /\ HandedOut(S)' = HandedOut(S) + (IF m \in S THEN k ELSE 0)
  BY <1>0, ConsiderPlaces
<1>2. k > 0 => /\ ~Concentrated(seen, m)
               /\ seen.category[Category[m]] + k <= MaxCategoryExposure
               /\ seen.total + k <= MaxTotalExposure
  <2>1. SoundExposures(seen) /\ SoundCandidate(c)
    BY <1>0, TypeMeaning, CandidateMeaning
  <2>2. Room(seen, c) > 0 => /\ ~Concentrated(seen, m)
                             /\ seen.category[Category[m]] + Room(seen, c) <= MaxCategoryExposure
                             /\ seen.total + Room(seen, c) <= MaxTotalExposure
    BY <2>1, RoomIs
  <2>3. QED
    BY <1>1, <2>2
<1>3. /\ \A g \in Categories : given.category[g] \in Nat
      /\ given.total \in Nat
      /\ MaxCategoryExposure \in Nat /\ MaxTotalExposure \in Nat /\ MaxConcurrentMarkets \in Nat
  BY <1>0, TypeMeaning, LimitsAssumption DEF SoundExposures
<1> HIDE DEF k, m
<1>4. ASSUME NEW g \in Categories, HandedOut(Mine(g))' > 0
      PROVE  given'.category[g] + HandedOut(Mine(g))' <= MaxCategoryExposure
  <2>1. Mine(g) \in SUBSET Markets /\ (m \in Mine(g) <=> g = Category[m])
    BY <1>1 DEF Mine
  <2>2. HandedOut(Mine(g)) \in Nat /\ HandedOut(Mine(g))' = HandedOut(Mine(g)) + (IF m \in Mine(g) THEN k ELSE 0)
    <3>1. Mine(g)' = Mine(g)
      BY DEF Mine
    <3>2. QED
      BY <1>1, <2>1, <3>1
  <2>3. seen.category[g] = given.category[g] + HandedOut(Mine(g))
    BY <1>0 DEF Reserved
  <2>4. HandedOut(Mine(g)) > 0 => given.category[g] + HandedOut(Mine(g)) <= MaxCategoryExposure
    BY <1>0 DEF RoomsShared, Mine
  <2>5. QED
    BY <1>1, <1>2, <1>3, <1>4, <2>1, <2>2, <2>3, <2>4
<1>5. ASSUME HandedOut(Markets)' > 0
      PROVE  given'.total + HandedOut(Markets)' <= MaxTotalExposure
  <2>1. HandedOut(Markets) \in Nat /\ HandedOut(Markets)' = HandedOut(Markets) + k
    BY <1>1
  <2>2. seen.total = given.total + HandedOut(Markets)
    BY <1>0 DEF Reserved
  <2>3. HandedOut(Markets) > 0 => given.total + HandedOut(Markets) <= MaxTotalExposure
    BY <1>0 DEF RoomsShared
  <2>4. QED
    BY <1>1, <1>2, <1>3, <1>5, <2>1, <2>2, <2>3
<1>6. Cardinality(given'.concurrent \cup Taken') <= MaxConcurrentMarkets
  <2> DEFINE C == given.concurrent \cup Taken
  <2>1. C \in SUBSET Markets
    BY <1>0 DEF AllocateTypeOK, ExposureType, Taken
  <2>2. IsFiniteSet(C) /\ Cardinality(C) \in Nat /\ Cardinality(C) <= MaxConcurrentMarkets
    BY <1>0, <2>1, FiniteMarkets, FS_CardinalityType DEF RoomsShared
  <2>3. seen.concurrent = C
    BY <1>0 DEF Reserved
  <2>4. CASE k > 0
    <3>1. given'.concurrent \cup Taken' = C \cup {m}
      BY <1>1, <2>4
    <3>2. Cardinality(given'.concurrent \cup Taken') = Cardinality(C \cup {m})
      BY <3>1, Zenon
    <3>3. m \in C \/ Cardinality(C) < MaxConcurrentMarkets
      <4>1. m \in seen.concurrent \/ ~(Cardinality(seen.concurrent) >= MaxConcurrentMarkets)
        BY <1>2, <2>4 DEF Concentrated
      <4> HIDE DEF C
      <4>2. QED
        BY <1>3, <2>2, <2>3, <4>1
    <3> HIDE DEF C
    <3>4. Cardinality(C \cup {m}) = IF m \in C THEN Cardinality(C) ELSE Cardinality(C) + 1
      BY <2>2, FS_AddElement
    <3>5. QED
      BY <1>3, <2>2, <3>2, <3>3, <3>4
  <2>5. CASE ~(k > 0)
    <3>1. given'.concurrent \cup Taken' = C
      BY <1>1, <2>5
    <3>2. Cardinality(given'.concurrent \cup Taken') = Cardinality(C)
      BY <3>1, Zenon
    <3>3. QED
      BY <2>2, <3>2
  <2>6. QED
    BY <2>4, <2>5
<1>7. \A g \in Categories : Mine(g)' = Mine(g)
  BY DEF Mine
<1>8. RoomsShared' = (/\ \A g \in Categories :
                           HandedOut(Mine(g))' > 0 =>
                             given'.category[g] + HandedOut(Mine(g))' <= MaxCategoryExposure
                      /\ HandedOut(Markets)' > 0 =>
                           given'.total + HandedOut(Markets)' <= MaxTotalExposure
                      /\ Cardinality(given'.concurrent \cup Taken') <= MaxConcurrentMarkets)
  BY DEF RoomsShared, Mine
<1>9. QED
  BY <1>4, <1>5, <1>6, <1>8

LEMMA ConsiderLabelled ==
  ASSUME AllocateIInv, NEW c \in Candidates, Consider(c)
  PROVE  Labelled(seen.book)'
<1> DEFINE k == Place(seen, c)
           m == c.market
<1>0. AllocateTypeOK /\ Labelled(seen.book)
  BY DEF AllocateIInv
<1>1. k \in Nat /\ m \in Markets
  BY <1>0, ConsiderPlaces
<1>2. /\ k = 0 => seen' = seen
      /\ k > 0 => /\ seen'.book[m].notional = seen.book[m].notional + k
                  /\ \A n \in Markets \ {m} : seen'.book[n] = seen.book[n]
  BY <1>0, ConsiderReserves
<1>3. seen.book[m].notional \in Nat
  BY <1>0, <1>1, TypeMeaning DEF SoundExposures, NatBook
<1> HIDE DEF k, m
<1>4. ASSUME NEW n \in Markets, seen'.book[n].notional = 0
      PROVE  seen'.book[n] = seen.book[n]
  BY <1>1, <1>2, <1>3, <1>4
<1>5. QED
  BY <1>0, <1>4 DEF Labelled

LEMMA AllocateInitIInv == AllocateInit => AllocateIInv
<1> SUFFICES ASSUME AllocateInit PROVE AllocateIInv
  OBVIOUS
<1>1. PICK book \in [Markets -> Open \cup {NotOpen}], shift \in TotalShifts,
           unfilled \in SUBSET Markets :
        /\ Cardinality(OpenMarkets(book) \cup unfilled) <= MaxConcurrentMarkets
        /\ given = Exposures(book, Spent(book),
                             Greater(0, NotionalOf(book, Markets) + shift),
                             OpenMarkets(book) \cup unfilled)
  BY Zenon DEF AllocateInit
<1>2. seen = given /\ placed = <<>>
  BY DEF AllocateInit
<1>3. book \in [Markets -> [notional : Nat, labels : SUBSET Labels]]
  <2>1. Open \cup {NotOpen} \subseteq [notional : Nat, labels : SUBSET Labels]
    <3>1. NotOpen \in [notional : Nat, labels : SUBSET Labels]
      BY DEF NotOpen
    <3>2. Open \subseteq [notional : Nat, labels : SUBSET Labels]
      BY CallAssumption DEF Open
    <3>3. QED
      BY <3>1, <3>2
  <2>2. QED
    BY <2>1
<1>4. NatBook(book)
  BY <1>3 DEF NatBook
<1>5. Labelled(book)
  BY CallAssumption DEF Labelled, Open, NotOpen
<1>6. Spent(book) \in [Categories -> Nat]
  <2>1. \A k \in Categories : NotionalOf(book, {m \in Markets : Category[m] = k}) \in Nat
    BY <1>4, NotionalNat
  <2>2. QED
    BY <2>1 DEF Spent
<1> DEFINE total == Greater(0, NotionalOf(book, Markets) + shift)
           concurrent == OpenMarkets(book) \cup unfilled
<1>7. total \in Nat
  <2> DEFINE held == NotionalOf(book, Markets)
  <2>1. held \in Nat
    BY <1>4, NotionalNat
  <2> HIDE DEF held
  <2>2. held + shift \in Int
    BY <2>1, CallAssumption
  <2>3. QED
    BY <2>2, GreaterThanZero DEF held
<1>8. concurrent \in SUBSET Markets /\ OpenMarkets(book) \in SUBSET Markets
  BY DEF OpenMarkets
<1> HIDE DEF total, concurrent
<1>9. /\ given.book = book /\ given.category = Spent(book) /\ given.total = total
      /\ given.concurrent = concurrent
      /\ given = [book |-> given.book, category |-> given.category, total |-> given.total,
                  concurrent |-> given.concurrent]
  <2>1. given = [book |-> book, category |-> Spent(book), total |-> total,
                 concurrent |-> IF concurrent = {} THEN OpenMarkets(book) ELSE concurrent]
    BY <1>1 DEF Exposures, total, concurrent
  <2>2. concurrent = {} => OpenMarkets(book) = concurrent
    BY DEF concurrent
  <2>3. QED
    BY <2>1, <2>2
<1>10. given \in ExposureType
  BY <1>3, <1>6, <1>7, <1>8, <1>9 DEF ExposureType, BookType
<1>11. DOMAIN placed = {} /\ Taken = {}
  BY <1>2 DEF Taken
<1>12. AllocateTypeOK
  BY <1>2, <1>10, <1>11 DEF AllocateTypeOK
<1>13. ASSUME NEW S \in SUBSET Markets PROVE HandedOut(S) = 0
  <2>1. HandedOut(S) = HandedBy(placed, S)
    BY DEF HandedOut, HandedBy
  <2>2. WellPlaced(placed) /\ \A m \in S : Handed(placed)[m] = 0
    BY <1>11 DEF WellPlaced, Handed
  <2>3. SetSum(Handed(placed), S) = 0
    BY <2>2, FiniteMarkets, SetSumZero
  <2>4. QED
    BY <2>1, <2>2, <2>3, HandedIsSum
<1>14. \A k \in Categories : Mine(k) \in SUBSET Markets
  BY DEF Mine
<1>15. Reserved
  <2>1. \A k \in Categories : given.category[k] \in Nat
    BY <1>6, <1>9
  <2>2. \A k \in Categories : HandedOut(Mine(k)) = 0
    BY <1>13, <1>14
  <2>3. HandedOut(Markets) = 0 /\ given.total \in Nat
    BY <1>7, <1>9, <1>13
  <2>4. QED
    BY <1>2, <1>11, <2>1, <2>2, <2>3 DEF Reserved
<1>16. RoomsShared
  <2>1. Cardinality(given.concurrent \cup Taken) <= MaxConcurrentMarkets
    <3>1. given.concurrent \cup Taken = concurrent
      BY <1>9, <1>11
    <3>2. Cardinality(given.concurrent \cup Taken) = Cardinality(concurrent)
      BY <3>1, Zenon
    <3>3. QED
      BY <1>1, <3>2 DEF concurrent
  <2>2. \A k \in Categories : ~(HandedOut({m \in Markets : Category[m] = k}) > 0)
    BY <1>13, <1>14 DEF Mine
  <2>3. ~(HandedOut(Markets) > 0)
    BY <1>13
  <2>4. QED
    BY <2>1, <2>2, <2>3 DEF RoomsShared
<1>17. Labelled(seen.book)
  BY <1>2, <1>5, <1>9
<1>18. QED
  BY <1>12, <1>15, <1>16, <1>17 DEF AllocateIInv

LEMMA AllocateNextIInv == AllocateIInv /\ [AllocateNext]_allocateVars => AllocateIInv'
<1> SUFFICES ASSUME AllocateIInv, [AllocateNext]_allocateVars PROVE AllocateIInv'
  OBVIOUS
<1>1. CASE UNCHANGED allocateVars
  <2>1. given' = given /\ seen' = seen /\ placed' = placed
    BY <1>1 DEF allocateVars
  <2>2. \A S : HandedOut(S)' = HandedOut(S)
    BY <2>1 DEF HandedOut, MapThenSumSet, MapThenFoldSet
  <2>3. Taken' = Taken
    BY <2>1 DEF Taken
  <2>4. AllocateTypeOK'
    BY <2>1 DEF AllocateIInv, AllocateTypeOK, ExposureType, BookType
  <2>5. Reserved'
    BY <2>1, <2>2, <2>3 DEF AllocateIInv, Reserved, Mine
  <2>6. RoomsShared'
    BY <2>1, <2>2, <2>3 DEF AllocateIInv, RoomsShared
  <2>7. Labelled(seen.book)'
    BY <2>1 DEF AllocateIInv, Labelled
  <2>8. QED
    BY <2>4, <2>5, <2>6, <2>7 DEF AllocateIInv
<1>2. ASSUME NEW c \in Candidates, Consider(c) PROVE AllocateIInv'
  <2>1. AllocateTypeOK /\ Reserved
    BY DEF AllocateIInv
  <2>2. AllocateTypeOK'
    BY <1>2, <2>1, ConsiderType
  <2>3. Reserved'
    BY <1>2, <2>1, ConsiderReserved
  <2>4. QED
    BY <1>2, <2>2, <2>3, ConsiderRooms, ConsiderLabelled DEF AllocateIInv
<1>3. QED
  BY <1>1, <1>2 DEF AllocateNext

LEMMA Invariance == AllocateSpec => []AllocateIInv
<1>1. AllocateInit => AllocateIInv
  BY AllocateInitIInv
<1>2. AllocateIInv /\ [AllocateNext]_allocateVars => AllocateIInv'
  BY AllocateNextIInv
<1>3. QED
  BY <1>1, <1>2, PTL DEF AllocateSpec

-----------------------------------------------------------------------------
(* The theorems *)

\* Type correctness: exposures are always well formed, and a candidate gets at most
\* what it asked for and never less than min_allocate_fraction of it.
THEOREM AllocateTypeCorrect == AllocateSpec => []AllocateTypeOK
<1>1. AllocateIInv => AllocateTypeOK
  BY DEF AllocateIInv
<1>2. QED
  BY <1>1, Invariance, PTL

\* However many candidates a call has and whatever they ask for, their allocations
\* together stay within the rooms the call found.
THEOREM RoomsSharedCorrect == AllocateSpec => []RoomsShared
<1>1. AllocateIInv => RoomsShared
  BY DEF AllocateIInv
<1>2. QED
  BY <1>1, Invariance, PTL

-----------------------------------------------------------------------------
(* Groups *)

\* A market that joins a bucket: what the bucket holds afterwards, and with which labels.
LEMMA JoinBucket ==
  ASSUME AllocateIInv, NEW c \in Candidates, Consider(c), Place(seen, c) > 0,
         seen.book[c.market].notional = 0, NEW g \in Groups, Joins(c.market, g)
  PROVE  LET bucket == BucketOf(seen'.book, c.market, g)
         IN  /\ NotionalOf(seen'.book, bucket) <= ScaledCap(g, LabelsOf(seen'.book, bucket))
             /\ Cardinality(bucket) <= g.maxMarkets
<1> DEFINE k == Place(seen, c)
           m == c.market
           members == Members(seen.book, m, g)
           bucket == BucketOf(seen'.book, m, g)
<1>0. AllocateTypeOK /\ Labelled(seen.book)
  BY DEF AllocateIInv
<1>1. k \in Nat /\ k > 0 /\ k = Room(seen, c) /\ m \in Markets
  BY <1>0, ConsiderPlaces
<1>2. /\ seen'.book[m].notional = seen.book[m].notional + k
      /\ seen'.book[m].labels = seen.book[m].labels \cup c.labels
      /\ \A n \in Markets \ {m} : seen'.book[n] = seen.book[n]
      /\ seen' \in ExposureSet(Labels)
  BY <1>0, ConsiderReserves
<1>3. SoundExposures(seen) /\ SoundCandidate(c)
  BY <1>0, TypeMeaning, CandidateMeaning
<1>4. NatBook(seen.book) /\ NatBook(seen'.book)
  BY <1>2, <1>3, ExposureSetSound DEF SoundExposures
<1>5. k <= GroupRoom(seen.book, c, g)
  BY <1>1, <1>3, RoomIs
<1>6. /\ GroupRoom(seen.book, c, g) \in Nat
      /\ GroupRoom(seen.book, c, g) > 0 =>
           /\ Cardinality(members) < g.maxMarkets
           /\ GroupRoom(seen.book, c, g)
                = ScaledCap(g, c.labels \cup LabelsOf(seen.book, members)) - NotionalOf(seen.book, members)
  BY <1>4, GroupRoomIs
<1>7. seen'.book[m].notional = k /\ seen'.book[m].labels = c.labels
  BY <1>0, <1>1, <1>2 DEF Labelled
<1>8. members \in SUBSET Markets /\ m \notin members
  BY DEF Members, OpenMarkets
<1>9. bucket = members \cup {m}
  <2>1. \A n \in Markets : n \in OpenMarkets(seen'.book) <=> n = m \/ n \in OpenMarkets(seen.book)
    BY <1>1, <1>2, <1>7 DEF OpenMarkets
  <2>2. SameBucket(m, m, g)
    BY DEF SameBucket
  <2>3. OpenMarkets(seen'.book) \subseteq Markets /\ OpenMarkets(seen.book) \subseteq Markets
    BY DEF OpenMarkets
  <2>4. m \in OpenMarkets(seen'.book)
    BY <1>1, <2>1
  <2> HIDE DEF m
  <2>5. QED
    BY <2>1, <2>2, <2>3, <2>4 DEF BucketOf, Members
<1> HIDE DEF k, m, members, bucket
<1>10. NotionalOf(seen'.book, bucket) = NotionalOf(seen.book, members) + k
  <2>1. NotionalOf(seen'.book, members \cup {m}) = NotionalOf(seen'.book, members) + seen'.book[m].notional
    BY <1>1, <1>4, <1>8, NotionalAdd
  <2>2. NotionalOf(seen'.book, members) = NotionalOf(seen.book, members)
    <3>1. \A n \in members : seen'.book[n].notional = seen.book[n].notional
      BY <1>2, <1>8
    <3>2. QED
      BY <1>4, <1>8, <3>1, NotionalSame
  <2>3. NotionalOf(seen'.book, bucket) = NotionalOf(seen'.book, members \cup {m})
    BY <1>9, Zenon
  <2>4. QED
    BY <1>7, <2>1, <2>2, <2>3
<1>11. Cardinality(bucket) = Cardinality(members) + 1 /\ Cardinality(members) \in Nat
  <2>1. IsFiniteSet(members)
    BY <1>8, FiniteMarkets
  <2>2. Cardinality(members \cup {m}) = Cardinality(members) + 1
    BY <1>8, <2>1, FS_AddElement
  <2>3. Cardinality(bucket) = Cardinality(members \cup {m})
    BY <1>9, Zenon
  <2>4. QED
    BY <2>1, <2>2, <2>3, FS_CardinalityType
<1>12. ScaledCap(g, LabelsOf(seen'.book, bucket))
         = ScaledCap(g, c.labels \cup LabelsOf(seen.book, members))
  <2>1. \A n \in members : seen'.book[n].labels = seen.book[n].labels
    BY <1>2, <1>8
  <2>2. LabelsOf(seen'.book, members \cup {m}) = c.labels \cup LabelsOf(seen.book, members)
    BY <1>7, <2>1 DEF LabelsOf
  <2>3. LabelsOf(seen'.book, bucket) = LabelsOf(seen'.book, members \cup {m})
    BY <1>9, Zenon
  <2>4. LabelsOf(seen'.book, bucket) = c.labels \cup LabelsOf(seen.book, members)
    BY <2>2, <2>3, Zenon
  <2>5. QED
    BY <2>4, Zenon
<1> DEFINE cap == ScaledCap(g, c.labels \cup LabelsOf(seen.book, members))
           used == NotionalOf(seen.book, members)
           room == GroupRoom(seen.book, c, g)
<1>13. cap \in Int /\ used \in Nat
  BY <1>4, <1>8, ScaledCapRange, NotionalNat
<1>14. k \in Nat /\ k > 0 /\ k <= room /\ room \in Nat
       /\ (room > 0 => Cardinality(members) < g.maxMarkets /\ room = cap - used)
  BY <1>1, <1>5, <1>6
<1> HIDE DEF cap, used, room
<1>15. used + k <= cap /\ Cardinality(members) < g.maxMarkets
  BY <1>13, <1>14
<1>16. Cardinality(bucket) <= g.maxMarkets
  <2>1. g.maxMarkets \in Nat
    BY AllocatorAssumption
  <2>2. QED
    BY <1>11, <1>15, <2>1
<1>17. NotionalOf(seen'.book, bucket) <= ScaledCap(g, LabelsOf(seen'.book, bucket))
  BY <1>10, <1>12, <1>15 DEF cap, used
<1>18. QED
  BY <1>16, <1>17 DEF bucket, m

\* Markets of one bucket have the same bucket.
LEMMA SameBucketSame ==
  ASSUME NEW m, NEW n, NEW g, SameBucket(m, n, g), NEW book
  PROVE  /\ Joins(n, g)
         /\ BucketOf(book, m, g) = BucketOf(book, n, g)
  BY DEF SameBucket, BucketOf

\* A step that adds no market to a bucket leaves it, and the notionals in it, alone.
LEMMA OtherBucket ==
  ASSUME AllocateIInv, NEW c \in Candidates, Consider(c), NEW m \in Markets, NEW g \in Groups,
         Place(seen, c) = 0 \/ ~SameBucket(m, c.market, g)
  PROVE  /\ NotionalOf(seen'.book, BucketOf(seen'.book, m, g))
              = NotionalOf(seen.book, BucketOf(seen.book, m, g))
         /\ Cardinality(BucketOf(seen'.book, m, g)) = Cardinality(BucketOf(seen.book, m, g))
<1> DEFINE k == Place(seen, c)
           bucket == BucketOf(seen.book, m, g)
<1>0. AllocateTypeOK
  BY DEF AllocateIInv
<1>1. k \in Nat /\ c.market \in Markets
  BY <1>0, ConsiderPlaces
<1>2. /\ k = 0 => seen' = seen
      /\ k > 0 => \A n \in Markets \ {c.market} : seen'.book[n] = seen.book[n]
      /\ seen' \in ExposureSet(Labels)
  BY <1>0, ConsiderReserves
<1>3. \A n \in Markets : SameBucket(m, n, g) => seen'.book[n] = seen.book[n]
  BY <1>1, <1>2
<1>4. BucketOf(seen'.book, m, g) = bucket
  BY <1>3 DEF BucketOf, OpenMarkets
<1>5. bucket \in SUBSET Markets /\ \A n \in bucket : seen'.book[n].notional = seen.book[n].notional
  BY <1>3 DEF BucketOf, OpenMarkets
<1>6. NatBook(seen.book) /\ NatBook(seen'.book)
  BY <1>0, <1>2, TypeMeaning, ExposureSetSound DEF SoundExposures
<1> HIDE DEF bucket
<1>7. NotionalOf(seen'.book, bucket) = NotionalOf(seen.book, bucket)
  BY <1>5, <1>6, NotionalSame
<1>8. QED
  BY <1>4, <1>7, Zenon DEF bucket

LEMMA ConsiderGroups ==
  ASSUME ScalesTighten, AllocateIInv, GroupsFit, NEW c \in Candidates, Consider(c)
  PROVE  GroupsFit'
<1>0. AllocateTypeOK /\ Reserved
  BY DEF AllocateIInv
<1> DEFINE k == Place(seen, c)
<1>1. /\ k \in Nat /\ given' = given /\ c.market \in Markets \ DOMAIN placed
      /\ Taken' = IF k > 0 THEN Taken \cup {c.market} ELSE Taken
  BY <1>0, ConsiderPlaces
<1>2. SUFFICES ASSUME NEW g \in Groups, NEW m \in Markets,
                      Taken' \cap BucketOf(given.book, m, g) = {}
               PROVE  LET before == BucketOf(given.book, m, g)
                          after  == BucketOf(seen'.book, m, g)
                      IN  /\ NotionalOf(seen'.book, after)
                               <= Greater(g.cap, NotionalOf(given.book, before))
                          /\ Cardinality(after) <= Greater(g.maxMarkets, Cardinality(before))
  BY <1>1 DEF GroupsFit
<1> DEFINE before == BucketOf(given.book, m, g)
           after  == BucketOf(seen'.book, m, g)
<1>3. /\ NotionalOf(given.book, before) \in Nat /\ Cardinality(before) \in Nat
      /\ NotionalOf(seen'.book, after) \in Nat /\ Cardinality(after) \in Nat
  <2>1. before \in SUBSET Markets /\ after \in SUBSET Markets
    BY DEF BucketOf, OpenMarkets
  <2>2. NatBook(given.book) /\ NatBook(seen'.book)
    BY <1>0, TypeMeaning, ConsiderReserves, ExposureSetSound DEF SoundExposures
  <2>3. QED
    BY <2>1, <2>2, NotionalNat, FiniteMarkets, FS_CardinalityType
<1>4. g.cap \in Nat /\ g.maxMarkets \in Nat
  BY AllocatorAssumption
<1>5. CASE k = 0 \/ ~SameBucket(m, c.market, g)
  <2>1. Taken \cap before = {}
    BY <1>1, <1>2
  <2>2. /\ NotionalOf(seen.book, BucketOf(seen.book, m, g)) <= Greater(g.cap, NotionalOf(given.book, before))
        /\ Cardinality(BucketOf(seen.book, m, g)) <= Greater(g.maxMarkets, Cardinality(before))
    BY <2>1 DEF GroupsFit
  <2>3. /\ NotionalOf(seen'.book, after) = NotionalOf(seen.book, BucketOf(seen.book, m, g))
        /\ Cardinality(after) = Cardinality(BucketOf(seen.book, m, g))
    BY <1>5, OtherBucket
  <2>4. QED
    BY <2>2, <2>3
<1>6. CASE k > 0 /\ SameBucket(m, c.market, g)
  <2>1. c.market \notin before
    BY <1>1, <1>2, <1>6
  <2>2. c.market \notin OpenMarkets(given.book)
    BY <1>6, <2>1 DEF BucketOf
  <2>3. seen.book[c.market] = given.book[c.market]
    BY <1>0, <1>1 DEF Reserved
  <2>4. seen.book[c.market].notional \in Nat
    BY <1>0, <1>1, TypeMeaning DEF SoundExposures, NatBook
  <2>5. seen.book[c.market].notional = 0
    BY <1>1, <2>2, <2>3, <2>4 DEF OpenMarkets
  <2>6. Joins(c.market, g) /\ BucketOf(seen'.book, c.market, g) = after
    BY <1>6, SameBucketSame
  <2>7. /\ NotionalOf(seen'.book, BucketOf(seen'.book, c.market, g))
             <= ScaledCap(g, LabelsOf(seen'.book, BucketOf(seen'.book, c.market, g)))
        /\ Cardinality(BucketOf(seen'.book, c.market, g)) <= g.maxMarkets
    BY <1>6, <2>5, <2>6, JoinBucket
  <2>8. NotionalOf(seen'.book, after) <= ScaledCap(g, LabelsOf(seen'.book, after))
        /\ Cardinality(after) <= g.maxMarkets
    BY <2>6, <2>7, Zenon
  <2>9. ScaledCap(g, LabelsOf(seen'.book, after)) \in 0..g.cap
    BY ScaledCapRange
  <2> DEFINE n0 == NotionalOf(given.book, before)
             n1 == NotionalOf(seen'.book, after)
  <2> HIDE DEF before, after, n0, n1
  <2>10. n1 <= Greater(g.cap, n0) /\ Cardinality(after) <= Greater(g.maxMarkets, Cardinality(before))
    BY <1>3, <1>4, <2>8, <2>9 DEF Greater, n0, n1
  <2>11. QED
    BY <2>10 DEF before, after, n0, n1
<1>7. QED
  BY <1>1, <1>5, <1>6

LEMMA InitGroups == AllocateInit => GroupsFit
<1> SUFFICES ASSUME AllocateInit, NEW g \in Groups, NEW m \in Markets
             PROVE  LET b == BucketOf(given.book, m, g)
                    IN  /\ NotionalOf(given.book, b) <= Greater(g.cap, NotionalOf(given.book, b))
                        /\ Cardinality(b) <= Greater(g.maxMarkets, Cardinality(b))
  BY DEF AllocateInit, GroupsFit
<1> DEFINE b == BucketOf(given.book, m, g)
<1>1. NatBook(given.book)
  BY AllocateInitIInv, TypeMeaning DEF AllocateIInv, SoundExposures
<1>2. b \in SUBSET Markets
  BY DEF BucketOf, OpenMarkets
<1> HIDE DEF b
<1>3. NotionalOf(given.book, b) \in Nat /\ Cardinality(b) \in Nat
  BY <1>1, <1>2, NotionalNat, FiniteMarkets, FS_CardinalityType
<1>4. g.cap \in Nat /\ g.maxMarkets \in Nat
  BY AllocatorAssumption
<1>5. QED
  BY <1>3, <1>4 DEF Greater, b

\* Unless the call added to a market that was open, every bucket of every group ends
\* within the group's cap and number of markets, or as it was.  A regime may
\* not loosen caps: the code applies whatever percentage it is given.
THEOREM GroupsCorrect == ASSUME ScalesTighten PROVE AllocateSpec => []GroupsFit
<1>1. AllocateInit => AllocateIInv /\ GroupsFit
  BY AllocateInitIInv, InitGroups
<1>2. (AllocateIInv /\ GroupsFit) /\ [AllocateNext]_allocateVars => (AllocateIInv /\ GroupsFit)'
  <2> SUFFICES ASSUME AllocateIInv, GroupsFit, [AllocateNext]_allocateVars PROVE AllocateIInv' /\ GroupsFit'
    OBVIOUS
  <2>1. AllocateIInv'
    BY AllocateNextIInv
  <2>2. ASSUME UNCHANGED allocateVars PROVE GroupsFit'
    BY <2>2 DEF allocateVars, GroupsFit, Taken
  <2>3. ASSUME NEW c \in Candidates, Consider(c) PROVE GroupsFit'
    BY <2>3, ConsiderGroups
  <2>4. QED
    BY <2>1, <2>2, <2>3 DEF AllocateNext
<1>3. QED
  BY <1>1, <1>2, PTL DEF AllocateSpec

\* Whenever a market joins a bucket, the bucket fits the cap scaled by the regime labels
\* of all its members, those it was bought with and those of today.
THEOREM RegimesCorrect == AllocateSpec => RegimesTighten
<1> DEFINE Tight == \A g \in Groups, m \in Markets :
       (seen.book[m].notional = 0 /\ seen'.book[m].notional > 0 /\ Joins(m, g)) =>
         LET bucket == BucketOf(seen'.book, m, g)
         IN  NotionalOf(seen'.book, bucket) <= ScaledCap(g, LabelsOf(seen'.book, bucket))
<1>1. AllocateIInv /\ [AllocateNext]_allocateVars => [Tight]_allocateVars
  <2> SUFFICES ASSUME AllocateIInv, NEW c \in Candidates, Consider(c), NEW g \in Groups, NEW m \in Markets,
                      seen.book[m].notional = 0, seen'.book[m].notional > 0, Joins(m, g)
               PROVE  NotionalOf(seen'.book, BucketOf(seen'.book, m, g))
                        <= ScaledCap(g, LabelsOf(seen'.book, BucketOf(seen'.book, m, g)))
    BY DEF AllocateNext
  <2>1. AllocateTypeOK
    BY DEF AllocateIInv
  <2>2. Place(seen, c) \in Nat
    BY <2>1, ConsiderPlaces
  <2>3. Place(seen, c) > 0 /\ m = c.market
    BY <2>1, <2>2, ConsiderReserves
  <2>4. QED
    BY <2>3, JoinBucket
<1>2. QED
  BY <1>1, Invariance, PTL DEF AllocateSpec, RegimesTighten

-----------------------------------------------------------------------------
(* Underlyings *)

LEMMA MaxOfThree ==
  ASSUME NEW a \in Nat, NEW b \in Nat, NEW d \in Nat
  PROVE  LET x == Max({a, b, d}) IN x \in Nat /\ a <= x /\ b <= x /\ d <= x
<1>1. \E x \in {a, b, d} : \A y \in {a, b, d} : x >= y
  OBVIOUS
<1>2. Max({a, b, d}) \in {a, b, d} /\ \A y \in {a, b, d} : Max({a, b, d}) >= y
  BY <1>1 DEF Max
<1> DEFINE x == Max({a, b, d})
<1> HIDE DEF x
<1>3. x \in {a, b, d} /\ x >= a /\ x >= b /\ x >= d
  BY <1>2 DEF x
<1>4. x \in Nat /\ a <= x /\ b <= x /\ d <= x
  BY <1>3
<1>5. QED
  BY <1>4 DEF x

\* The open markets on an underlying.
OnUnderlying(book, u) == {n \in OpenMarkets(book) : Identity[n].underlying = u}

LEMMA OnUnderlyingSound ==
  ASSUME NEW book, NatBook(book), NEW u
  PROVE  OnUnderlying(book, u) \in SUBSET Markets /\ NotionalOf(book, OnUnderlying(book, u)) \in Nat
<1>1. OnUnderlying(book, u) \in SUBSET Markets
  BY DEF OnUnderlying, OpenMarkets
<1>2. QED
  BY <1>1, NotionalNat

\* A market bought on an underlying that holds others is bound by the correlated cap;
\* alone, by the order limit.
LEMMA JoinUnderlying ==
  ASSUME AllocateIInv, NEW c \in Candidates, Consider(c), Place(seen, c) > 0,
         seen.book[c.market].notional = 0, "same_underlying" \in Rules,
         NEW u, u # None, Identity[c.market].underlying = u
  PROVE  \/ NotionalOf(seen'.book, OnUnderlying(seen'.book, u)) <= MaxCorrelatedExposure
         \/ NotionalOf(seen'.book, OnUnderlying(seen'.book, u)) <= MaxOrderNotional
<1> DEFINE k == Place(seen, c)
           m == c.market
           rest == OnUnderlying(seen.book, u)
           after == OnUnderlying(seen'.book, u)
           correlated == {n \in OpenMarkets(seen.book) : Correlated(m, n)}
<1>0. AllocateTypeOK
  BY DEF AllocateIInv
<1>1. k \in Nat /\ k > 0 /\ k = Room(seen, c) /\ m \in Markets
  BY <1>0, ConsiderPlaces
<1>2. /\ seen'.book[m].notional = seen.book[m].notional + k
      /\ \A n \in Markets \ {m} : seen'.book[n] = seen.book[n]
      /\ seen' \in ExposureSet(Labels)
  BY <1>0, ConsiderReserves
<1>3. SoundExposures(seen) /\ SoundCandidate(c)
  BY <1>0, TypeMeaning, CandidateMeaning
<1>4. NatBook(seen.book) /\ NatBook(seen'.book)
  BY <1>2, <1>3, ExposureSetSound DEF SoundExposures
<1>5. k <= CorrelatedRoom(seen.book, c) /\ k <= MaxOrderNotional
  BY <1>1, <1>3, RoomIs
<1>6. /\ CorrelatedRoom(seen.book, c) \in Nat
      /\ NotionalOf(seen.book, correlated) \in Nat
      /\ CorrelatedRoom(seen.book, c) > 0 /\ NotionalOf(seen.book, correlated) > 0 =>
           CorrelatedRoom(seen.book, c) + NotionalOf(seen.book, correlated) = MaxCorrelatedExposure
  BY <1>3, <1>4, CorrelatedRoomIs
<1>7. rest \in SUBSET Markets /\ m \notin rest /\ correlated \in SUBSET Markets
  BY DEF OnUnderlying, OpenMarkets
<1>8. rest \in SUBSET correlated
  <2>1. ASSUME NEW n \in rest PROVE n \in correlated
    <3>1. n \in OpenMarkets(seen.book) /\ Identity[n].underlying = u /\ n # m
      BY <1>7 DEF OnUnderlying
    <3>2. Correlated(m, n)
      BY <3>1 DEF Correlated, SameField
    <3>3. QED
      BY <3>1, <3>2
  <2>2. QED
    BY <2>1
<1>9. after = rest \cup {m}
  <2>1. seen'.book[m].notional = k
    BY <1>1, <1>2
  <2>2. \A n \in Markets : n \in OpenMarkets(seen'.book) <=> n = m \/ n \in OpenMarkets(seen.book)
    BY <1>1, <1>2, <2>1 DEF OpenMarkets
  <2>3. OpenMarkets(seen'.book) \subseteq Markets /\ OpenMarkets(seen.book) \subseteq Markets
    BY DEF OpenMarkets
  <2>4. m \in OpenMarkets(seen'.book)
    BY <1>1, <2>2
  <2> HIDE DEF m
  <2>5. Identity[m].underlying = u
    BY DEF m
  <2>6. QED
    BY <2>2, <2>3, <2>4, <2>5 DEF OnUnderlying
<1> HIDE DEF k, m, rest, after, correlated
<1>10. NotionalOf(seen'.book, after) = NotionalOf(seen.book, rest) + k
  <2>1. NotionalOf(seen'.book, rest \cup {m}) = NotionalOf(seen'.book, rest) + seen'.book[m].notional
    BY <1>1, <1>4, <1>7, NotionalAdd
  <2>2. NotionalOf(seen'.book, rest) = NotionalOf(seen.book, rest)
    <3>1. \A n \in rest : seen'.book[n].notional = seen.book[n].notional
      BY <1>2, <1>7
    <3>2. QED
      BY <1>4, <1>7, <3>1, NotionalSame
  <2>3. NotionalOf(seen'.book, after) = NotionalOf(seen'.book, rest \cup {m})
    BY <1>9, Zenon
  <2>4. seen'.book[m].notional = k
    BY <1>1, <1>2 DEF m
  <2>5. QED
    BY <2>1, <2>2, <2>3, <2>4
<1>11. NotionalOf(seen.book, rest) <= NotionalOf(seen.book, correlated)
       /\ NotionalOf(seen.book, rest) \in Nat
  BY <1>4, <1>7, <1>8, NotionalSubset, NotionalNat
<1> DEFINE sum == NotionalOf(seen'.book, after)
           held == NotionalOf(seen.book, rest)
           used == NotionalOf(seen.book, correlated)
           room == CorrelatedRoom(seen.book, c)
<1>12. /\ sum = held + k /\ held <= used /\ held \in Nat /\ used \in Nat /\ room \in Nat
       /\ k \in Nat /\ k > 0 /\ k <= room /\ k <= MaxOrderNotional
       /\ (room > 0 /\ used > 0 => room + used = MaxCorrelatedExposure)
  BY <1>1, <1>5, <1>6, <1>10, <1>11
<1>13. MaxCorrelatedExposure \in Nat /\ MaxOrderNotional \in Nat
  BY LimitsAssumption
<1> HIDE DEF sum, held, used, room
<1>14. sum <= MaxCorrelatedExposure \/ sum <= MaxOrderNotional
  BY <1>12, <1>13
<1>15. QED
  BY <1>14 DEF sum, after

LEMMA ConsiderUnderlyings ==
  ASSUME AllocateIInv, UnderlyingsFit, NEW c \in Candidates, Consider(c)
  PROVE  UnderlyingsFit'
<1>0. AllocateTypeOK /\ Reserved
  BY DEF AllocateIInv
<1> DEFINE k == Place(seen, c)
<1>1. /\ k \in Nat /\ given' = given /\ c.market \in Markets \ DOMAIN placed
      /\ Taken' = IF k > 0 THEN Taken \cup {c.market} ELSE Taken
  BY <1>0, ConsiderPlaces
<1>2. SUFFICES ASSUME NEW u \in {Identity[m].underlying : m \in Markets} \ {None},
                      Taken' \cap OnUnderlying(given.book, u) = {}, "same_underlying" \in Rules
               PROVE  NotionalOf(seen'.book, OnUnderlying(seen'.book, u))
                        <= Max({MaxCorrelatedExposure, MaxOrderNotional,
                                NotionalOf(given.book, OnUnderlying(given.book, u))})
  BY <1>1 DEF UnderlyingsFit, OnUnderlying
<1>3. NatBook(given.book) /\ NatBook(seen.book) /\ NatBook(seen'.book)
  BY <1>0, TypeMeaning, ConsiderReserves, ExposureSetSound DEF SoundExposures
<1> DEFINE before == NotionalOf(given.book, OnUnderlying(given.book, u))
           limit == Max({MaxCorrelatedExposure, MaxOrderNotional, before})
<1>4. /\ before \in Nat
      /\ NotionalOf(seen.book, OnUnderlying(seen.book, u)) \in Nat
      /\ NotionalOf(seen'.book, OnUnderlying(seen'.book, u)) \in Nat
  BY <1>3, OnUnderlyingSound
<1>5. limit \in Nat /\ MaxCorrelatedExposure <= limit /\ MaxOrderNotional <= limit
  <2>1. MaxCorrelatedExposure \in Nat /\ MaxOrderNotional \in Nat
    BY LimitsAssumption
  <2> HIDE DEF before
  <2>2. QED
    BY <1>4, <2>1, MaxOfThree
<1>6. /\ k = 0 => seen' = seen
      /\ k > 0 => \A n \in Markets \ {c.market} : seen'.book[n] = seen.book[n]
  BY <1>0, ConsiderReserves
<1>7. CASE k = 0 \/ Identity[c.market].underlying # u
  <2>1. \A n \in Markets : Identity[n].underlying = u => seen'.book[n] = seen.book[n]
    BY <1>1, <1>6, <1>7
  <2>2. OnUnderlying(seen'.book, u) = OnUnderlying(seen.book, u)
    BY <2>1 DEF OnUnderlying, OpenMarkets
  <2>3. \A n \in OnUnderlying(seen.book, u) : seen'.book[n].notional = seen.book[n].notional
    BY <2>1 DEF OnUnderlying, OpenMarkets
  <2>4. NotionalOf(seen'.book, OnUnderlying(seen.book, u)) = NotionalOf(seen.book, OnUnderlying(seen.book, u))
    BY <1>3, <2>3, OnUnderlyingSound, NotionalSame
  <2>5. NotionalOf(seen'.book, OnUnderlying(seen'.book, u)) = NotionalOf(seen.book, OnUnderlying(seen.book, u))
    BY <2>2, <2>4, Zenon
  <2>6. Taken \cap OnUnderlying(given.book, u) = {}
    BY <1>1, <1>2
  <2>7. NotionalOf(seen.book, OnUnderlying(seen.book, u)) <= limit
    BY <1>2, <2>6 DEF UnderlyingsFit, OnUnderlying
  <2>8. QED
    BY <2>5, <2>7
<1>8. CASE k > 0 /\ Identity[c.market].underlying = u
  <2>1. c.market \notin OpenMarkets(given.book)
    BY <1>1, <1>2, <1>8 DEF OnUnderlying
  <2>2. seen.book[c.market] = given.book[c.market]
    BY <1>0, <1>1 DEF Reserved
  <2>3. seen.book[c.market].notional = 0
    BY <1>1, <1>3, <2>1, <2>2 DEF OpenMarkets, NatBook
  <2>4. u # None
    OBVIOUS
  <2>5. \/ NotionalOf(seen'.book, OnUnderlying(seen'.book, u)) <= MaxCorrelatedExposure
        \/ NotionalOf(seen'.book, OnUnderlying(seen'.book, u)) <= MaxOrderNotional
    BY <1>2, <1>8, <2>3, <2>4, JoinUnderlying
  <2> DEFINE sum == NotionalOf(seen'.book, OnUnderlying(seen'.book, u))
  <2>6. MaxCorrelatedExposure \in Nat /\ MaxOrderNotional \in Nat /\ sum \in Nat
    BY <1>4, LimitsAssumption
  <2> HIDE DEF sum, limit
  <2>7. sum <= limit
    BY <1>5, <2>5, <2>6 DEF sum
  <2>8. QED
    BY <2>7 DEF sum, limit
<1>9. QED
  BY <1>1, <1>7, <1>8

LEMMA InitUnderlyings == AllocateInit => UnderlyingsFit
<1> SUFFICES ASSUME AllocateInit, NEW u
             PROVE  LET b == OnUnderlying(given.book, u)
                    IN  NotionalOf(given.book, b)
                          <= Max({MaxCorrelatedExposure, MaxOrderNotional, NotionalOf(given.book, b)})
  BY DEF AllocateInit, UnderlyingsFit, OnUnderlying
<1>1. NatBook(given.book)
  BY AllocateInitIInv, TypeMeaning DEF AllocateIInv, SoundExposures
<1>2. NotionalOf(given.book, OnUnderlying(given.book, u)) \in Nat
  BY <1>1, OnUnderlyingSound
<1>3. MaxCorrelatedExposure \in Nat /\ MaxOrderNotional \in Nat
  BY LimitsAssumption
<1>4. QED
  BY <1>2, <1>3, MaxOfThree

\* Markets on one underlying, bought in one call or in several, stay together within the
\* correlated cap, the order limit, or what they were.
THEOREM UnderlyingsCorrect == AllocateSpec => []UnderlyingsFit
<1>1. AllocateInit => AllocateIInv /\ UnderlyingsFit
  BY AllocateInitIInv, InitUnderlyings
<1>2. (AllocateIInv /\ UnderlyingsFit) /\ [AllocateNext]_allocateVars => (AllocateIInv /\ UnderlyingsFit)'
  <2> SUFFICES ASSUME AllocateIInv, UnderlyingsFit, [AllocateNext]_allocateVars PROVE AllocateIInv' /\ UnderlyingsFit'
    OBVIOUS
  <2>1. AllocateIInv'
    BY AllocateNextIInv
  <2>2. ASSUME UNCHANGED allocateVars PROVE UnderlyingsFit'
    BY <2>2 DEF allocateVars, UnderlyingsFit, Taken
  <2>3. ASSUME NEW c \in Candidates, Consider(c) PROVE UnderlyingsFit'
    BY <2>3, ConsiderUnderlyings
  <2>4. QED
    BY <2>1, <2>2, <2>3 DEF AllocateNext
<1>3. QED
  BY <1>1, <1>2, PTL DEF AllocateSpec

-----------------------------------------------------------------------------
(* PART II: the session                                                    *)

-----------------------------------------------------------------------------
(* The ledger of a session *)

\* The session never sells what it does not hold, and keeps no practice lots.
SessionLedger(l) ==
  /\ SoundLedger(l)
  /\ \A t \in Tokens : l.pos[t].qty >= 0
  /\ l.pos[PracticeToken].qty = 0

\* What a token is held at in lots and cost.
SameHolding(l, m, t) == m.pos[t].qty = l.pos[t].qty /\ m.pos[t].cost = l.pos[t].cost

LEMMA PositionType ==
  ASSUME NEW l, SoundLedger(l)
  PROVE  /\ l \in LedgerType /\ l.pos \in [Tokens -> Positions] /\ l.realized \in Int /\ l.peak \in Nat
         /\ \A t \in Tokens : /\ l.pos[t] \in Positions /\ l.pos[t].qty \in Int
                              /\ l.pos[t].cost \in Nat /\ l.pos[t].mark \in Nat \cup {NoMark}
  BY DEF SoundLedger, LedgerType, Positions

\* A purchase on top of nothing or of a purchase realizes nothing.
LEMMA BuyRealizes ==
  ASSUME NEW l, SoundLedger(l), NEW t \in Tokens, l.pos[t].qty >= 0, NEW k \in Nat,
         NEW price \in Nat, NEW fee \in Nat,
         NEW m, m = ApplyFill(l, t, "BUY", k, price, fee)
  PROVE  m.realized = l.realized
<1> DEFINE p == l.pos[t]
<1>1. p.qty \in Int /\ p.qty >= 0 /\ l.realized \in Int
  BY PositionType
<1>2. Signed("BUY", k) = k /\ "BUY" \in Sides
  BY DEF Signed, Sides
<1>3. /\ m.realized = l.realized + Realized(p, k, price, fee)
      /\ m.pos = [l.pos EXCEPT ![t] = FilledPosition(p, k, price)]
  BY <1>2, FillEffect
<1> HIDE DEF p
<1>4. Adds(p, k)
  <2>1. p.qty * k >= 0
    BY <1>1
  <2>2. QED
    BY <2>1 DEF Adds
<1>5. Realized(p, k, price, fee) = 0
  BY <1>4 DEF Realized
<1>6. QED
  BY <1>1, <1>3, <1>5

\* A position with k more lots, bought at price.
WithLots(p, k, price) == [qty |-> p.qty + k, cost |-> p.cost + k * price, mark |-> price]

\* A purchase adds its lots and what they cost to one token; nothing is realized.
LEMMA BuyIs ==
  ASSUME NEW l, SoundLedger(l), NEW t \in Tokens, l.pos[t].qty >= 0, NEW k \in Nat,
         NEW price \in Nat, NEW fee \in Nat,
         NEW m, m = ApplyFill(l, t, "BUY", k, price, fee)
  PROVE  /\ SoundLedger(m)
         /\ m.realized = l.realized
         /\ m.pos = [l.pos EXCEPT ![t] = WithLots(l.pos[t], k, price)]
<1> DEFINE p == l.pos[t]
           n == FilledPosition(p, k, price)
<1>1. p.qty \in Int /\ p.cost \in Nat /\ p.qty >= 0
  BY PositionType
<1>2. Signed("BUY", k) = k /\ "BUY" \in Sides
  BY DEF Signed, Sides
<1>3. /\ m.realized = l.realized + Realized(p, k, price, fee)
      /\ m.pos = [l.pos EXCEPT ![t] = n]
  BY <1>2, FillEffect
<1>4. SoundLedger(m)
  BY <1>2, FillBalances
<1>5. m.realized = l.realized
  BY BuyRealizes
<1> HIDE DEF p
<1>6. Adds(p, k)
  <2>1. p.qty * k >= 0
    BY <1>1
  <2>2. QED
    BY <2>1 DEF Adds
<1>7. n = WithLots(p, k, price)
  <2>1. Abs(k) = k
    BY AbsType
  <2>2. QED
    BY <1>6, <2>1 DEF FilledPosition, WithLots
<1>8. QED
  BY <1>3, <1>4, <1>5, <1>7 DEF p

\* A mark moves no lot and no cost, and touches no other token.
LEMMA MarkKeepsLots ==
  ASSUME NEW l, SoundLedger(l), NEW t \in Tokens, NEW price \in Nat,
         NEW m, m = ApplyMark(l, t, price)
  PROVE  /\ SameHolding(l, m, t)
         /\ \A u \in Tokens : SameHolding(l, m, u) /\ (u # t => m.pos[u] = l.pos[u])
<1> DEFINE n == [qty |-> l.pos[t].qty, cost |-> l.pos[t].cost, mark |-> price]
<1>1. m.pos = [l.pos EXCEPT ![t] = n]
  BY MarkEffect
<1>2. n.qty = l.pos[t].qty /\ n.cost = l.pos[t].cost
  OBVIOUS
<1>3. l.pos \in [Tokens -> Positions]
  BY PositionType
<1> HIDE DEF n
<1>4. QED
  BY <1>1, <1>2, <1>3 DEF SameHolding

\* The ledgers a round trip passes through between purchase and sale.
MovedFunction(p, l, path, n) ==
  p = [i \in 0..n |-> IF i = 0 THEN l ELSE ApplyMark(p[i - 1], PracticeToken, path[i])]

LEMMA MovedExists ==
  ASSUME NEW l, NEW path, NEW n \in Nat
  PROVE  \E p : MovedFunction(p, l, path, n)
<1> DEFINE Bad == {m \in 0..n : ~ \E p : MovedFunction(p, l, path, m)}
<1>1. SUFFICES ASSUME Bad # {} PROVE FALSE
  OBVIOUS
<1>2. PICK m \in Bad : \A k \in Bad : m <= k
  <2>1. Bad \in SUBSET Nat
    OBVIOUS
  <2>2. QED
    BY <1>1, <2>1, LeastNat
<1>3. m # 0
  <2>1. MovedFunction([i \in 0..0 |-> l], l, path, 0)
    BY DEF MovedFunction
  <2>2. QED
    BY <2>1
<1>4. m - 1 \in 0..n /\ m - 1 \notin Bad
  BY <1>2, <1>3
<1>5. PICK q : MovedFunction(q, l, path, m - 1)
  BY <1>4
<1> DEFINE r == [i \in 0..m |-> IF i = m THEN ApplyMark(q[m - 1], PracticeToken, path[m]) ELSE q[i]]
<1>6. ASSUME NEW i \in 0..m
      PROVE  r[i] = IF i = 0 THEN l ELSE ApplyMark(r[i - 1], PracticeToken, path[i])
  <2>1. CASE i = m
    <3>1. m - 1 \in 0..m /\ m - 1 # m
      BY <1>3
    <3>2. r[m - 1] = q[m - 1]
      BY <3>1
    <3>3. QED
      BY <2>1, <3>2, <1>3
  <2>2. CASE i # m
    <3>1. i \in 0..(m - 1)
      BY <2>2
    <3>2. q[i] = IF i = 0 THEN l ELSE ApplyMark(q[i - 1], PracticeToken, path[i])
      BY <1>5, <3>1, Zenon DEF MovedFunction
    <3>3. i # 0 => r[i - 1] = q[i - 1]
      BY <3>1
    <3>4. QED
      BY <2>2, <3>2, <3>3
  <2>3. QED
    BY <2>1, <2>2
<1>7. MovedFunction(r, l, path, m)
  BY <1>6, Zenon DEF MovedFunction
<1>8. QED
  BY <1>2, <1>7

\* The marks between purchase and sale keep the lots.
LEMMA MovedKeeps ==
  ASSUME NEW l, SoundLedger(l), NEW path \in Seq(Nat), NEW p, MovedFunction(p, l, path, Len(path)),
         NEW i \in 0..Len(path)
  PROVE  /\ SoundLedger(p[i])
         /\ \A u \in Tokens : SameHolding(l, p[i], u)
         /\ \A u \in Tokens : u # PracticeToken => p[i].pos[u] = l.pos[u]
<1>0. Len(path) \in Nat /\ PracticeToken \in Tokens
  BY SessionAssumption
<1> DEFINE Good(j) == /\ SoundLedger(p[j])
                      /\ \A u \in Tokens : SameHolding(l, p[j], u)
                      /\ \A u \in Tokens : u # PracticeToken => p[j].pos[u] = l.pos[u]
           Bad == {j \in 0..Len(path) : ~Good(j)}
<1>1. SUFFICES ASSUME Bad # {} PROVE FALSE
  OBVIOUS
<1>2. PICK j \in Bad : \A k \in Bad : j <= k
  <2>1. Bad \in SUBSET Nat
    BY <1>0
  <2>2. QED
    BY <1>1, <2>1, LeastNat
<1>3. p[j] = IF j = 0 THEN l ELSE ApplyMark(p[j - 1], PracticeToken, path[j])
  BY Zenon DEF MovedFunction
<1>4. j # 0
  BY <1>2, <1>3 DEF SameHolding
<1>5. j - 1 \in 0..Len(path) /\ j - 1 \notin Bad /\ path[j] \in Nat
  BY <1>0, <1>2, <1>4
<1>6. Good(j - 1)
  BY <1>5
<1> DEFINE k == p[j - 1]
           n == p[j]
           price == path[j]
<1>7. n = ApplyMark(k, PracticeToken, price) /\ SoundLedger(k) /\ price \in Nat
  BY <1>3, <1>4, <1>5, <1>6
<1> HIDE DEF k, n, price
<1>8. SoundLedger(n)
  BY <1>0, <1>7, MarkBalances
<1>10. /\ \A u \in Tokens : SameHolding(k, n, u)
       /\ \A u \in Tokens : u # PracticeToken => n.pos[u] = k.pos[u]
  BY <1>0, <1>7, MarkKeepsLots
<1>11. Good(j)
  BY <1>6, <1>8, <1>10 DEF SameHolding, k, n
<1>12. QED
  BY <1>2, <1>11

\* A round trip leaves no lot behind and touches no other token.
LEMMA RoundTripIs ==
  ASSUME SessionLedger(ledger), NEW size \in LotSizes, NEW open \in Prices, NEW path \in Seq(Nat),
         NEW close \in MarkPrices, NEW m, m = RoundTrip(size, open, path, close)
  PROVE  SessionLedger(m) /\ \A t \in Tokens \ {PracticeToken} : m.pos[t] = ledger.pos[t]
<1> DEFINE T == PracticeToken
           bought == ApplyFill(ledger, T, "BUY", size, open, 0)
           moved == CHOOSE p : p = [i \in 0..Len(path) |->
                      IF i = 0 THEN bought ELSE ApplyMark(p[i - 1], T, path[i])]
           last == moved[Len(path)]
           sold == ApplyFill(last, T, "SELL", size, close, 0)
<1>1. /\ size \in Nat /\ open \in Nat /\ close \in Nat /\ T \in Tokens /\ Len(path) \in Nat
      /\ 0 \in Nat /\ "SELL" \in Sides
  BY SessionAssumption DEF Sides
<1>2. /\ SoundLedger(bought) /\ bought.pos[T].qty = size
      /\ \A u \in Tokens : u # T => bought.pos[u] = ledger.pos[u]
  <2>1. SoundLedger(ledger) /\ ledger.pos[T].qty = 0
    BY DEF SessionLedger
  <2>2. ledger.pos[T].qty >= 0 /\ bought = ApplyFill(ledger, T, "BUY", size, open, 0)
    BY <2>1
  <2>3. ledger.pos \in [Tokens -> Positions] /\ ledger.pos[T].cost \in Nat
    BY <1>1, <2>1, PositionType
  <2> HIDE DEF T, bought, moved, last, sold
  <2>4. /\ SoundLedger(ledger) /\ T \in Tokens /\ ledger.pos[T].qty >= 0
        /\ size \in Nat /\ open \in Nat /\ 0 \in Nat
    BY <1>1, <2>1, <2>2
  <2>5. SoundLedger(bought) /\ bought.pos = [ledger.pos EXCEPT ![T] = WithLots(ledger.pos[T], size, open)]
    BY <2>2, <2>4, BuyIs
  <2>6. WithLots(ledger.pos[T], size, open).qty = ledger.pos[T].qty + size
    BY DEF WithLots
  <2>7. QED
    BY <1>1, <2>1, <2>3, <2>5, <2>6
<1>3. m = [sold EXCEPT !.pos[T] = EmptyPosition]
  BY DEF RoundTrip
<1>4. MovedFunction(moved, bought, path, Len(path))
  <2>1. \E p : MovedFunction(p, bought, path, Len(path))
    BY <1>1, MovedExists
  <2>2. QED
    BY <2>1, Zenon DEF MovedFunction
<1> HIDE DEF moved, bought
<1>5. /\ SoundLedger(last) /\ last.pos[T].qty = size
      /\ \A u \in Tokens : u # T => last.pos[u] = ledger.pos[u]
  <2>1. Len(path) \in 0..Len(path)
    BY <1>1
  <2>2. /\ SoundLedger(last)
        /\ \A u \in Tokens : SameHolding(bought, last, u)
        /\ \A u \in Tokens : u # T => last.pos[u] = bought.pos[u]
    BY <1>2, <1>4, <2>1, MovedKeeps
  <2>3. QED
    BY <1>1, <1>2, <2>2 DEF SameHolding
<1> HIDE DEF last
<1>6. /\ SoundLedger(sold)
      /\ sold.pos = [last.pos EXCEPT ![T] = FilledPosition(last.pos[T], Signed("SELL", size), close)]
  <2>1. sold = ApplyFill(last, T, "SELL", size, close, 0)
    OBVIOUS
  <2> HIDE DEF sold, T
  <2>2. sold.pos = [last.pos EXCEPT ![T] = FilledPosition(last.pos[T], Signed("SELL", size), close)]
    BY <1>1, <1>5, <2>1, FillEffect
  <2>3. SoundLedger(sold)
    BY <1>1, <1>5, <2>1, FillBalances
  <2>4. QED
    BY <2>2, <2>3
<1> HIDE DEF sold, T
<1>7. /\ \A u \in Tokens : u # T => sold.pos[u] = ledger.pos[u]
      /\ sold \in LedgerType
  BY <1>1, <1>5, <1>6, PositionType
<1>8. /\ m \in LedgerType /\ m.pos[T] = EmptyPosition
      /\ \A u \in Tokens : u # T => m.pos[u] = ledger.pos[u]
  <2>1. EmptyPosition \in Positions
    BY DEF EmptyPosition, Positions, NoMark
  <2>2. QED
    BY <1>1, <1>3, <1>7, <2>1 DEF LedgerType
<1>9. EmptyPosition.qty = 0 /\ EmptyPosition.cost = 0
  BY DEF EmptyPosition
<1>10. ASSUME NEW t \in Tokens
       PROVE  /\ m.pos[t].qty = 0 => m.pos[t].cost = 0
              /\ m.pos[t].qty # 0 => m.pos[t].mark # NoMark
              /\ m.pos[t].qty >= 0
  <2>1. CASE t = T
    BY <2>1, <1>8, <1>9
  <2>2. CASE t # T
    <3>1. m.pos[t] = ledger.pos[t]
      BY <2>2, <1>8
    <3>2. QED
      BY <3>1 DEF SessionLedger, SoundLedger
  <2>3. QED
    BY <2>1, <2>2
<1>11. SoundLedger(m)
  BY <1>8, <1>10 DEF SoundLedger
<1>12. QED
  BY <1>8, <1>9, <1>10, <1>11 DEF SessionLedger, T

\* A flatten that is not refused leaves no lot.
LEMMA FlattenedIs ==
  ASSUME SessionLedger(ledger), marks \in [Tokens -> Nat \cup {NoMark}], NEW flat \in Flattened
  PROVE  SessionLedger(flat) /\ OpenTokens(flat) = {}
<1>1. PICK order \in SetToSeqs(OpenTokens(ledger)) :
        flat = FlattenRun(ledger, order, marks)[Len(order)]
  BY DEF Flattened
<1>2. \A t \in OpenTokens(ledger) : marks[t] \in Nat
  <2>1. \A t \in OpenTokens(ledger) : marks[t] # NoMark
    BY DEF Flattened
  <2>2. QED
    BY <2>1 DEF OpenTokens
<1>3. SoundLedger(flat) /\ \A t \in Tokens : flat.pos[t].qty = 0
  BY <1>1, <1>2, FlattenClears DEF SessionLedger
<1>4. PracticeToken \in Tokens
  BY SessionAssumption
<1>5. QED
  BY <1>3, <1>4 DEF SessionLedger, OpenTokens

-----------------------------------------------------------------------------
(* The books of the risk engine *)

\* What the ledger says of each token is a natural number, and so is their sum.
LEMMA ExposureNat ==
  ASSUME NEW l, SoundLedger(l)
  PROVE  LET byToken == [t \in Tokens |-> IF l.pos[t].qty = 0 THEN 0 ELSE Exposure(l.pos[t])]
         IN  byToken \in [Tokens -> Nat] /\ SumUpTo(byToken, NumTokens) \in Nat
<1> DEFINE byToken == [t \in Tokens |-> IF l.pos[t].qty = 0 THEN 0 ELSE Exposure(l.pos[t])]
<1>1. ASSUME NEW t \in Tokens PROVE byToken[t] \in Nat
  <2> DEFINE p == l.pos[t]
  <2>1. p.qty \in Int /\ p.cost \in Nat /\ p.mark \in Nat \cup {NoMark}
    BY PositionType
  <2>2. p.mark > 0 => p.mark \in Nat
    BY <2>1 DEF NoMark
  <2>3. Exposure(p) = IF p.mark > 0 THEN Abs(p.qty) * p.mark ELSE p.cost
    BY DEF Exposure
  <2>4. byToken[t] = IF p.qty = 0 THEN 0 ELSE Exposure(p)
    OBVIOUS
  <2> HIDE DEF p, byToken
  <2>5. Abs(p.qty) \in Nat
    BY <2>1, AbsType
  <2>6. p.mark > 0 => Abs(p.qty) * p.mark \in Nat
    BY <2>2, <2>5
  <2>7. QED
    BY <2>1, <2>3, <2>4, <2>6
<1>2. byToken \in [Tokens -> Nat]
  BY <1>1
<1> HIDE DEF byToken
<1>3. NumTokens \in Nat /\ \A t \in 1..NumTokens : byToken[t] \in Nat
  BY <1>1, LedgerAssumption DEF Tokens
<1>4. SumUpTo(byToken, NumTokens) \in Nat
  BY <1>3, SumNat
<1>5. QED
  BY <1>2, <1>4 DEF byToken

\* sync_from_ledger copies the realized P&L and leaves what orders and fills have counted.
LEMMA SyncIs ==
  ASSUME NEW r \in RiskType, NEW l, SoundLedger(l), NEW s, s = SyncFromLedger(r, l)
  PROVE  /\ s \in RiskType
         /\ s.daily = l.realized
         /\ s.category = r.category
         /\ s.openOrders = r.openOrders
         /\ s.concurrent = r.concurrent
<1> DEFINE byToken == [t \in Tokens |-> IF l.pos[t].qty = 0 THEN 0 ELSE Exposure(l.pos[t])]
           held == SumUpTo(byToken, NumTokens)
           copied == [r EXCEPT !.equity = Equity(l), !.peak = l.peak,
                               !.session = Equity(l) - StartingCash, !.daily = l.realized]
           none == [m \in Markets |-> 0]
<1>1. byToken \in [Tokens -> Nat] /\ held \in Nat
  BY ExposureNat
<1>2. /\ Equity(l) \in Int /\ l.peak \in Nat /\ l.realized \in Int /\ StartingCash \in Nat
      /\ Equity(l) - StartingCash \in Int
  BY CommitSound, PositionType, LedgerAssumption
<1>3. s = IF OpenTokens(l) = {} THEN copied
          ELSE [copied EXCEPT !.byToken = byToken, !.byMarket = none, !.total = held]
  BY DEF SyncFromLedger
<1>4. none \in [Markets -> Nat]
  OBVIOUS
<1> HIDE DEF byToken, held, none
<1> DEFINE gain == Equity(l) - StartingCash
<1> HIDE DEF gain
<1>5. /\ copied \in RiskType /\ copied.daily = l.realized /\ copied.category = r.category
      /\ copied.openOrders = r.openOrders /\ copied.concurrent = r.concurrent
  <2>1. copied = [r EXCEPT !.equity = Equity(l), !.peak = l.peak, !.session = gain,
                           !.daily = l.realized]
    BY DEF gain
  <2>2. gain \in Int
    BY <1>2 DEF gain
  <2> HIDE DEF copied
  <2>3. QED
    BY <1>2, <2>1, <2>2 DEF RiskType
<1> HIDE DEF copied
<1>6. CASE OpenTokens(l) = {}
  BY <1>3, <1>5, <1>6
<1>7. CASE OpenTokens(l) # {}
  <2>1. s = [copied EXCEPT !.byToken = byToken, !.byMarket = none, !.total = held]
    BY <1>3, <1>7
  <2>2. QED
    BY <1>1, <1>4, <1>5, <2>1 DEF RiskType
<1>8. QED
  BY <1>6, <1>7

\* note_fill adds the notional to the market's category and counts the market.
LEMMA NoteFillIs ==
  ASSUME NEW r \in RiskType, NEW m \in Markets, NEW k \in Nat, NEW pnl \in Int,
         NEW s, s = NoteFill(r, m, k, pnl)
  PROVE  /\ s \in RiskType
         /\ s.category = [r.category EXCEPT ![Category[m]] = r.category[Category[m]] + k]
         /\ s.openOrders = r.openOrders
         /\ s.concurrent = r.concurrent \cup {m}
<1> DEFINE g == Category[m]
           byMarket == [r.byMarket EXCEPT ![m] = r.byMarket[m] + k]
           category == [r.category EXCEPT ![g] = r.category[g] + k]
           peak == Greater(r.peak, r.equity + pnl)
<1>1. /\ r.byMarket \in [Markets -> Nat] /\ r.category \in [Categories -> Nat] /\ r.total \in Nat
      /\ r.session \in Int /\ r.daily \in Int /\ r.equity \in Int /\ r.peak \in Nat
      /\ r.concurrent \in SUBSET Markets
  BY DEF RiskType
<1>2. g \in Categories
  BY DEF Categories
<1>3. byMarket \in [Markets -> Nat] /\ category \in [Categories -> Nat]
  <2> HIDE DEF g
  <2>1. r.byMarket[m] + k \in Nat /\ r.category[g] + k \in Nat
    BY <1>1, <1>2
  <2>2. QED
    BY <1>1, <1>2, <2>1
<1>4. peak \in Nat
  <2>1. peak = IF r.peak < r.equity + pnl THEN r.equity + pnl ELSE r.peak
    BY DEF Greater
  <2> HIDE DEF peak
  <2>2. QED
    BY <1>1, <2>1
<1>5. s = [r EXCEPT !.rejects = 0, !.byMarket = byMarket, !.category = category,
                    !.total = r.total + k, !.session = r.session + pnl, !.daily = r.daily + pnl,
                    !.equity = r.equity + pnl, !.peak = peak,
                    !.concurrent = r.concurrent \cup {m},
                    !.lastNotional = k, !.lastWasLoss = pnl < 0]
  BY DEF NoteFill, RiskType
<1>6. /\ r.total + k \in Nat /\ r.session + pnl \in Int /\ r.daily + pnl \in Int
      /\ r.equity + pnl \in Int /\ (pnl < 0) \in BOOLEAN
  BY <1>1
<1>7. r.concurrent \cup {m} \in SUBSET Markets
  BY <1>1
<1> DEFINE total == r.total + k
           session == r.session + pnl
           daily == r.daily + pnl
           equity == r.equity + pnl
           concurrent == r.concurrent \cup {m}
           loss == pnl < 0
<1>8. s = [r EXCEPT !.rejects = 0, !.byMarket = byMarket, !.category = category,
                    !.total = total, !.session = session, !.daily = daily,
                    !.equity = equity, !.peak = peak, !.concurrent = concurrent,
                    !.lastNotional = k, !.lastWasLoss = loss]
  BY <1>5
<1>9. /\ total \in Nat /\ session \in Int /\ daily \in Int /\ equity \in Int
      /\ concurrent \in SUBSET Markets /\ loss \in BOOLEAN
  BY <1>6, <1>7
<1> HIDE DEF byMarket, category, peak, total, session, daily, equity, concurrent, loss
<1>10. r.byToken \in [Tokens -> Nat] /\ r.openOrders \in Nat
  BY DEF RiskType
<1>11. s = [byMarket |-> byMarket, byToken |-> r.byToken, category |-> category,
            total |-> total, daily |-> daily, session |-> session, peak |-> peak,
            equity |-> equity, openOrders |-> r.openOrders, concurrent |-> concurrent,
            rejects |-> 0, lastNotional |-> k, lastWasLoss |-> loss]
  <2>1. r = [byMarket |-> r.byMarket, byToken |-> r.byToken, category |-> r.category,
             total |-> r.total, daily |-> r.daily, session |-> r.session, peak |-> r.peak,
             equity |-> r.equity, openOrders |-> r.openOrders, concurrent |-> r.concurrent,
             rejects |-> r.rejects, lastNotional |-> r.lastNotional,
             lastWasLoss |-> r.lastWasLoss]
    BY DEF RiskType
  <2>2. QED
    BY <1>8, <2>1, ZenonT(60)
<1>12. s \in RiskType /\ s.category = category /\ s.openOrders = r.openOrders
       /\ s.concurrent = concurrent
  BY <1>3, <1>4, <1>9, <1>10, <1>11 DEF RiskType
<1>13. QED
  BY <1>12 DEF category, concurrent, g

\* What enforce_session_limits looks at.
SameResult(r, s) ==
  s.daily = r.daily /\ s.session = r.session /\ s.peak = r.peak /\ s.equity = r.equity

\* The reset between recipes empties the books of a flat session, and keeps its result.
LEMMA ResetIs ==
  ASSUME NEW r \in RiskType, NEW l, OpenTokens(l) = {}, NEW s, s = ResetFlatRisk(r, l)
  PROVE  /\ s \in RiskType
         /\ SameResult(r, s)
         /\ \A g \in Categories : s.category[g] = 0
         /\ s.openOrders = 0
         /\ s.concurrent = {}
<1>1. s = [r EXCEPT !.byMarket = [m \in Markets |-> 0], !.byToken = [t \in Tokens |-> 0],
                    !.category = [g \in Categories |-> 0], !.total = 0,
                    !.concurrent = {}, !.openOrders = 0, !.rejects = 0]
  BY DEF ResetFlatRisk
<1> DEFINE byMarket == [m \in Markets |-> 0]
           byToken == [t \in Tokens |-> 0]
           category == [g \in Categories |-> 0]
<1>2. /\ byMarket \in [Markets -> Nat] /\ byToken \in [Tokens -> Nat]
      /\ category \in [Categories -> Nat] /\ \A g \in Categories : category[g] = 0
  OBVIOUS
<1>3. s = [r EXCEPT !.byMarket = byMarket, !.byToken = byToken, !.category = category, !.total = 0,
                    !.concurrent = {}, !.openOrders = 0, !.rejects = 0]
  BY <1>1
<1> HIDE DEF byMarket, byToken, category
<1>4. s = [byMarket |-> byMarket, byToken |-> byToken, category |-> category, total |-> 0,
           daily |-> r.daily, session |-> r.session, peak |-> r.peak, equity |-> r.equity,
           openOrders |-> 0, concurrent |-> {}, rejects |-> 0,
           lastNotional |-> r.lastNotional, lastWasLoss |-> r.lastWasLoss]
  BY <1>3 DEF RiskType
<1>5. /\ r.daily \in Int /\ r.session \in Int /\ r.peak \in Nat /\ r.equity \in Int
      /\ r.lastNotional \in Nat /\ r.lastWasLoss \in BOOLEAN
  BY DEF RiskType
<1>6. s \in RiskType
  BY <1>2, <1>4, <1>5 DEF RiskType
<1>7. QED
  BY <1>2, <1>4, <1>6 DEF SameResult

LEMMA EmptyRiskIs ==
  /\ EmptyRisk \in RiskType /\ EmptyRisk.openOrders = 0 /\ EmptyRisk.concurrent = {}
  /\ \A g \in Categories : EmptyRisk.category[g] = 0
  BY DEF EmptyRisk, RiskType

-----------------------------------------------------------------------------
(* The order table *)

SessionOrders(os, left) ==
  /\ os \in [Cids -> SessionOrder]
  /\ left \subseteq {c \in Cids : os[c].status # "NONE"}
  /\ \A c \in Cids : os[c].status = "NONE" => os[c] = Absent

\* The same order but for its status.
SameTerms(o, n) ==
  /\ n.token = o.token /\ n.filled = o.filled /\ n.price = o.price
  /\ n.status = "NONE" <=> o.status = "NONE"

LEMMA OrderFields ==
  ASSUME NEW o \in SessionOrder
  PROVE  /\ o.status \in {"NONE", "ACKNOWLEDGED", "PARTIAL", "FILLED", "CANCELLED"}
         /\ o.token \in Tokens /\ o.price \in Nat /\ o.size \in Nat /\ o.filled \in Nat
         /\ o.filled * o.price \in Nat
  BY DEF SessionOrder

LEMMA FiniteCids ==
  ASSUME NEW S \in SUBSET Cids
  PROVE  IsFiniteSet(S)
<1>1. IsFiniteSet(Cids)
  <2>1. MaxOrders \in Int
    BY SessionAssumption
  <2>2. QED
    BY <2>1, FS_Interval DEF Cids
<1>2. QED
  BY <1>1, FS_Subset

\* cancel_open leaves no working order, and changes nothing but statuses.
LEMMA SweptIs ==
  ASSUME NEW left, SessionOrders(orders, left)
  PROVE  /\ SessionOrders(Swept, left)
         /\ Working(Swept) = {}
         /\ \A c \in Cids : SameTerms(orders[c], Swept[c])
<1> DEFINE after == Swept
<1>1. ASSUME NEW c \in Cids
      PROVE  /\ after[c] \in SessionOrder /\ SameTerms(orders[c], after[c])
             /\ after[c].status \notin {"SUBMITTED", "ACKNOWLEDGED", "PARTIAL"}
             /\ after[c].status = "NONE" => after[c] = orders[c]
  <2> DEFINE o == orders[c]
             n == after[c]
  <2>1. n = IF o.status \in Sweepable THEN Cancelled(o, TRUE) ELSE o
    BY DEF Swept
  <2>2. o \in SessionOrder
    BY DEF SessionOrders
  <2> HIDE DEF o, n
  <2>3. Cancelled(o, TRUE) = [o EXCEPT !.status = "CANCELLED"]
    BY DEF Cancelled
  <2>4. CASE o.status \in Sweepable
    <3>1. n = [o EXCEPT !.status = "CANCELLED"]
      BY <2>1, <2>3, <2>4
    <3>2. o.status # "NONE"
      BY <2>4 DEF Sweepable
    <3>3. n \in SessionOrder /\ n.status = "CANCELLED" /\ SameTerms(o, n)
      BY <2>2, <3>1, <3>2 DEF SessionOrder, SameTerms
    <3>4. QED
      BY <3>3 DEF o, n
  <2>5. CASE o.status \notin Sweepable
    <3>1. n = o
      BY <2>1, <2>5
    <3>2. n.status \notin {"SUBMITTED", "ACKNOWLEDGED", "PARTIAL"}
      BY <2>5, <3>1 DEF Sweepable
    <3>3. QED
      BY <2>2, <3>1, <3>2 DEF o, n, SameTerms
  <2>6. QED
    BY <2>4, <2>5
<1>2. after = [c \in Cids |-> after[c]]
  BY DEF Swept
<1> HIDE DEF after
<1>3. after \in [Cids -> SessionOrder]
  BY <1>1, <1>2
<1>4. Working(after) = {}
  BY <1>1 DEF Working
<1>5. SessionOrders(after, left)
  BY <1>1, <1>3 DEF SessionOrders, SameTerms
<1>6. QED
  BY <1>1, <1>4, <1>5 DEF after

\* What the table says was bought in a category, and what the ledger still holds.
BoughtIn(os, left, g) ==
  SumUpTo([c \in Cids |-> IF c \notin left /\ Category[os[c].token] = g
                          THEN os[c].filled * os[c].price ELSE 0], MaxOrders)

HeldIn(l, g) ==
  SumUpTo([t \in Tokens |-> IF t \in Markets /\ Category[t] = g THEN l.pos[t].cost ELSE 0], NumTokens)

\* Statuses do not count.
LEMMA BoughtSame ==
  ASSUME NEW os, NEW ns, NEW left, NEW g, \A c \in Cids : SameTerms(os[c], ns[c])
  PROVE  BoughtIn(ns, left, g) = BoughtIn(os, left, g)
<1> DEFINE f == [c \in Cids |-> IF c \notin left /\ Category[os[c].token] = g
                                THEN os[c].filled * os[c].price ELSE 0]
           h == [c \in Cids |-> IF c \notin left /\ Category[ns[c].token] = g
                                THEN ns[c].filled * ns[c].price ELSE 0]
<1>1. f = h
  BY DEF SameTerms
<1>2. BoughtIn(os, left, g) = SumUpTo(f, MaxOrders) /\ BoughtIn(ns, left, g) = SumUpTo(h, MaxOrders)
  BY DEF BoughtIn
<1> HIDE DEF f, h
<1>3. QED
  BY <1>1, <1>2

\* What a trade makes of the order table.
TableAfter(os, c, n) == [os EXCEPT ![c] = n]

\* A new order counts with what was filled of it.
LEMMA BoughtMore ==
  ASSUME NEW os, NEW left, SessionOrders(os, left), NEW c \in Cids, os[c].status = "NONE",
         NEW n \in SessionOrder, NEW ns, ns = TableAfter(os, c, n), NEW g
  PROVE  /\ BoughtIn(os, left, g) \in Int
         /\ BoughtIn(ns, left, g)
              = BoughtIn(os, left, g) + (IF Category[n.token] = g THEN n.filled * n.price ELSE 0)
<1> DEFINE f == [d \in Cids |-> IF d \notin left /\ Category[os[d].token] = g
                                THEN os[d].filled * os[d].price ELSE 0]
           h == [d \in Cids |-> IF d \notin left /\ Category[ns[d].token] = g
                                THEN ns[d].filled * ns[d].price ELSE 0]
<1>1. /\ os \in [Cids -> SessionOrder] /\ c \notin left /\ os[c] = Absent
      /\ ns \in [Cids -> SessionOrder] /\ ns[c] = n
      /\ \A d \in Cids : d # c => ns[d] = os[d]
  BY DEF SessionOrders, TableAfter
<1>2. Summable(f, MaxOrders) /\ Summable(h, MaxOrders) /\ MaxOrders \in Nat
  <2>1. \A d \in Cids : os[d].filled * os[d].price \in Nat
    BY <1>1, OrderFields
  <2>2. \A d \in Cids : ns[d].filled * ns[d].price \in Nat
    BY <1>1, OrderFields
  <2>3. QED
    BY <2>1, <2>2, SessionAssumption DEF Summable, Cids
<1>3. \A d \in 1..MaxOrders : d # c => f[d] = h[d]
  BY <1>1 DEF Cids
<1>4. f[c] = 0
  <2>1. os[c].filled = 0 /\ os[c].price = 0
    BY <1>1 DEF Absent
  <2>2. QED
    BY <2>1
<1>5. h[c] = IF Category[n.token] = g THEN n.filled * n.price ELSE 0
  BY <1>1
<1>6. c \in 1..MaxOrders
  BY DEF Cids
<1>7. BoughtIn(os, left, g) = SumUpTo(f, MaxOrders) /\ BoughtIn(ns, left, g) = SumUpTo(h, MaxOrders)
  BY DEF BoughtIn
<1> HIDE DEF f, h
<1>8. SumUpTo(h, MaxOrders) = SumUpTo(f, MaxOrders) + h[c] - f[c]
  BY <1>2, <1>3, <1>6, SumPoint
<1>9. SumUpTo(f, MaxOrders) \in Int /\ h[c] \in Int
  BY <1>2, <1>6, SumInt DEF Summable
<1>10. QED
  BY <1>4, <1>5, <1>7, <1>8, <1>9

\* What is held in a category depends on the costs alone.
LEMMA HeldSame ==
  ASSUME NEW l, NEW m, \A t \in Markets : m.pos[t].cost = l.pos[t].cost, NEW g
  PROVE  HeldIn(m, g) = HeldIn(l, g)
<1> DEFINE f == [t \in Tokens |-> IF t \in Markets /\ Category[t] = g THEN l.pos[t].cost ELSE 0]
           h == [t \in Tokens |-> IF t \in Markets /\ Category[t] = g THEN m.pos[t].cost ELSE 0]
<1>1. f = h
  OBVIOUS
<1>2. HeldIn(l, g) = SumUpTo(f, NumTokens) /\ HeldIn(m, g) = SumUpTo(h, NumTokens)
  BY DEF HeldIn
<1> HIDE DEF f, h
<1>3. QED
  BY <1>1, <1>2

\* A purchase adds what it cost to its category.
LEMMA HeldMore ==
  ASSUME NEW l, SoundLedger(l), NEW m, SoundLedger(m), NEW t \in Markets, NEW cost \in Nat,
         m.pos[t].cost = l.pos[t].cost + cost,
         \A u \in Tokens : u # t => m.pos[u].cost = l.pos[u].cost, NEW g
  PROVE  /\ HeldIn(l, g) \in Int
         /\ HeldIn(m, g) = HeldIn(l, g) + (IF Category[t] = g THEN cost ELSE 0)
<1> DEFINE f == [u \in Tokens |-> IF u \in Markets /\ Category[u] = g THEN l.pos[u].cost ELSE 0]
           h == [u \in Tokens |-> IF u \in Markets /\ Category[u] = g THEN m.pos[u].cost ELSE 0]
<1>1. \A u \in Tokens : l.pos[u].cost \in Nat /\ m.pos[u].cost \in Nat
  BY PositionType
<1>2. t \in Tokens /\ t \in 1..NumTokens /\ NumTokens \in Nat
  BY MarketAssumption, LedgerAssumption DEF Tokens
<1>3. Summable(f, NumTokens) /\ Summable(h, NumTokens)
  BY <1>1 DEF Summable, Tokens
<1>4. \A u \in 1..NumTokens : u # t => f[u] = h[u]
  BY DEF Tokens
<1>5. h[t] - f[t] = IF Category[t] = g THEN cost ELSE 0
  <2>1. f[t] = (IF Category[t] = g THEN l.pos[t].cost ELSE 0)
    BY <1>2
  <2>2. h[t] = (IF Category[t] = g THEN l.pos[t].cost + cost ELSE 0)
    BY <1>2
  <2> HIDE DEF f, h
  <2>3. l.pos[t].cost \in Nat
    BY <1>1, <1>2
  <2>4. QED
    BY <2>1, <2>2, <2>3
<1>6. HeldIn(l, g) = SumUpTo(f, NumTokens) /\ HeldIn(m, g) = SumUpTo(h, NumTokens)
  BY DEF HeldIn
<1> HIDE DEF f, h
<1>7. SumUpTo(h, NumTokens) = SumUpTo(f, NumTokens) + h[t] - f[t]
  BY <1>2, <1>3, <1>4, SumPoint
<1>8. SumUpTo(f, NumTokens) \in Int /\ h[t] \in Int /\ f[t] \in Int
  BY <1>2, <1>3, SumInt DEF Summable
<1>9. QED
  BY <1>5, <1>6, <1>7, <1>8

\* Nothing open, nothing held.
LEMMA HeldNothing ==
  ASSUME NEW l, SoundLedger(l), OpenTokens(l) = {}, NEW g
  PROVE  HeldIn(l, g) = 0
<1> DEFINE f == [u \in Tokens |-> IF u \in Markets /\ Category[u] = g THEN l.pos[u].cost ELSE 0]
<1>1. \A u \in Tokens : l.pos[u].cost = 0
  BY DEF OpenTokens, SoundLedger
<1>2. \A u \in 1..NumTokens : f[u] = 0
  BY <1>1 DEF Tokens
<1>3. NumTokens \in Nat /\ 0 <= NumTokens /\ Summable(f, 0)
  BY LedgerAssumption DEF Summable
<1>4. HeldIn(l, g) = SumUpTo(f, NumTokens)
  BY DEF HeldIn
<1> HIDE DEF f
<1>5. SumUpTo(f, NumTokens) = SumUpTo(f, 0)
  BY <1>2, <1>3, SumPadded
<1>6. QED
  BY <1>4, <1>5, SumZero

LEMMA SumOfNothing ==
  ASSUME NEW n \in Nat, NEW f, \A i \in 1..n : f[i] = 0
  PROVE  SumUpTo(f, n) = 0
<1>1. 0 \in Nat /\ 0 <= n /\ Summable(f, 0)
  BY DEF Summable
<1>2. (\A i \in 1..0 : f[i] = f[i]) /\ \A i \in (0 + 1)..n : f[i] = 0
  OBVIOUS
<1>3. SumUpTo(f, n) = SumUpTo(f, 0)
  BY <1>1, <1>2, SumPadded
<1>4. QED
  BY <1>3, SumZero

\* Nothing filled, nothing bought.
LEMMA BoughtNothing ==
  ASSUME NEW os, NEW left, NEW g,
         \A c \in Cids : c \notin left => os[c].filled = 0 /\ os[c].price = 0
  PROVE  BoughtIn(os, left, g) = 0
<1> DEFINE f == [c \in Cids |-> IF c \notin left /\ Category[os[c].token] = g
                                THEN os[c].filled * os[c].price ELSE 0]
<1>1. \A c \in 1..MaxOrders : f[c] = 0
  BY DEF Cids
<1>2. MaxOrders \in Nat
  BY SessionAssumption
<1>3. BoughtIn(os, left, g) = SumUpTo(f, MaxOrders)
  BY DEF BoughtIn
<1> HIDE DEF f
<1>4. QED
  BY <1>1, <1>2, <1>3, SumOfNothing

-----------------------------------------------------------------------------
(* The inductive invariant *)

\* A candidate asks for no more than one order may cost.
FitRow == {r \in Row : r.price > 0 /\ r.shares * r.price <= MaxOrderNotional}

BatchType ==
  [phase : {"idle", "scoring", "committing", "marking"}, todo : Seq(Markets),
   markets : Seq(Markets), rows : Seq(FitRow)]

BatchOK(b) ==
  /\ b \in BatchType
  /\ b.phase = "marking" => b.todo # <<>>

KillOK(k) == k \in KillReasons \cup {"NONE"}

\* What the risk engine counts covers what the ledger and the order table have.
RiskOK(r, l, os) ==
  /\ r \in RiskType
  /\ r.daily = l.realized
  /\ Cardinality(Working(os)) <= r.openOrders /\ r.openOrders <= MaxOpenOrders
  /\ OpenTokens(l) \subseteq r.concurrent
  /\ \A c \in Working(os) : os[c].token \in r.concurrent
  /\ Cardinality(r.concurrent) <= MaxConcurrentMarkets

ExposureBook == [Markets -> [notional : Nat, labels : {{}}]]

InCategory(g) == {m \in Markets : Category[m] = g}

\* The category exposure of g is what was bought there, by the order table and by
\* the exposure book, covers what is held there, and is within the limit.
Booked(r, l, os, x, left, g) ==
  /\ r.category[g] = BoughtIn(os, left, g)
  /\ r.category[g] = NotionalOf(x, InCategory(g))
  /\ HeldIn(l, g) <= r.category[g]
  /\ r.category[g] <= MaxCategoryExposure

BookedIn(r, l, os, x, left) == \A g \in Categories : Booked(r, l, os, x, left, g)

IInv ==
  /\ SessionLedger(ledger)
  /\ SessionOrders(orders, settled)
  /\ RiskOK(risk, ledger, orders)
  /\ exposure \in ExposureBook
  /\ BookedIn(risk, ledger, orders, exposure, settled)
  /\ KillOK(kill)
  /\ marks \in [Tokens -> Nat \cup {NoMark}]
  /\ BatchOK(batch)
  /\ cycles \in 0..MaxCycles

\* The invariant holds every conjunct of the type invariant.
LEMMA IInvTypes ==
  ASSUME IInv
  PROVE  TypeOK
<1>1. ledger \in LedgerType
  BY DEF IInv, SessionLedger, SoundLedger
<1>2. orders \in [Cids -> SessionOrder] /\ settled \subseteq Cids
  BY DEF IInv, SessionOrders
<1>3. risk \in RiskType
  BY DEF IInv, RiskOK
<1>4. batch.rows \in Seq(Row)
  <2>1. FitRow \subseteq Row
    BY DEF FitRow
  <2>2. batch.rows \in Seq(FitRow)
    BY DEF IInv, BatchOK, BatchType
  <2> HIDE DEF FitRow
  <2>3. QED
    BY <2>1, <2>2
<1>5. /\ batch.phase \in {"idle", "scoring", "committing", "marking"}
      /\ batch.todo \in Seq(Markets) /\ batch.markets \in Seq(Markets)
  BY DEF IInv, BatchOK, BatchType
<1>6. /\ exposure \in [Markets -> [notional : Nat, labels : {{}}]]
      /\ kill \in KillReasons \cup {"NONE"} /\ marks \in [Tokens -> Nat \cup {NoMark}]
      /\ cycles \in 0..MaxCycles
  BY DEF IInv, ExposureBook, KillOK
<1>7. QED
  BY <1>1, <1>2, <1>3, <1>4, <1>5, <1>6 DEF TypeOK

LEMMA IInvCaps ==
  ASSUME IInv
  PROVE  OpenOrdersCapped /\ ConcurrentMarketsCapped /\ CategoryCountsEveryPurchase
<1>1. OpenOrdersCapped
  BY DEF IInv, RiskOK, OpenOrdersCapped
<1>2. ConcurrentMarketsCapped
  BY DEF IInv, RiskOK, ConcurrentMarketsCapped
<1>3. ASSUME NEW g \in Categories
      PROVE  /\ risk.category[g] = Bought(g)
             /\ risk.category[g] = NotionalOf(exposure, {m \in Markets : Category[m] = g})
             /\ Held(g) <= risk.category[g]
             /\ risk.category[g] <= MaxCategoryExposure
  <2>1. Booked(risk, ledger, orders, exposure, settled, g)
    BY DEF IInv, BookedIn
  <2>2. Bought(g) = BoughtIn(orders, settled, g) /\ Held(g) = HeldIn(ledger, g)
    BY DEF Bought, BoughtIn, Held, HeldIn
  <2>3. QED
    BY <2>1, <2>2 DEF Booked, InCategory
<1>4. CategoryCountsEveryPurchase
  BY <1>3 DEF CategoryCountsEveryPurchase
<1>5. QED
  BY <1>1, <1>2, <1>4

\* The initial books are empty.
LEMMA InitIInv ==
  ASSUME Init
  PROVE  IInv
<1> DEFINE fresh == FreshLedger
<1>1. /\ ledger = fresh /\ orders = [c \in Cids |-> Absent]
      /\ risk = SyncFromLedger(EmptyRisk, fresh) /\ exposure = [m \in Markets |-> NotOpen]
      /\ kill = "NONE" /\ marks = [t \in Tokens |-> NoMark] /\ batch = NoBatch
      /\ cycles = 0 /\ settled = {}
  BY DEF Init
<1>2. SoundLedger(fresh)
  BY FreshSound
<1>3. \A t \in Tokens : fresh.pos[t].qty = 0
  BY DEF FreshLedger, EmptyPosition
<1>4. fresh.realized = 0 /\ OpenTokens(fresh) = {}
  BY <1>3 DEF FreshLedger, OpenTokens
<1> HIDE DEF fresh
<1>5. SessionLedger(ledger)
  BY <1>1, <1>2, <1>3, SessionAssumption DEF SessionLedger
<1>6. Absent \in SessionOrder /\ Absent.status = "NONE" /\ Absent.filled = 0 /\ Absent.price = 0
  <2>1. 1 \in Tokens
    BY LedgerAssumption DEF Tokens
  <2>2. QED
    BY <2>1 DEF Absent, SessionOrder
<1>7. SessionOrders(orders, settled) /\ Working(orders) = {}
  <2> HIDE DEF Absent
  <2>1. QED
    BY <1>1, <1>6 DEF SessionOrders, Working
<1>8. /\ risk \in RiskType /\ risk.daily = 0 /\ risk.category = EmptyRisk.category
      /\ risk.openOrders = 0 /\ risk.concurrent = {}
  BY <1>1, <1>2, <1>4, EmptyRiskIs, SyncIs
<1>9. RiskOK(risk, ledger, orders)
  <2>1. Cardinality({}) = 0
    BY FS_EmptySet
  <2>2. MaxOpenOrders \in Nat /\ MaxConcurrentMarkets \in Nat
    BY LimitsAssumption
  <2>3. QED
    BY <1>1, <1>4, <1>7, <1>8, <2>1, <2>2 DEF RiskOK
<1>10. exposure \in ExposureBook /\ NatBook(exposure) /\ \A m \in Markets : exposure[m].notional = 0
  BY <1>1 DEF ExposureBook, NotOpen, NatBook
<1>11. ASSUME NEW g \in Categories
       PROVE  Booked(risk, ledger, orders, exposure, settled, g)
  <2>1. risk.category[g] = 0
    BY <1>8, EmptyRiskIs
  <2>2. BoughtIn(orders, settled, g) = 0
    <3>1. \A c \in Cids : c \notin settled => orders[c].filled = 0 /\ orders[c].price = 0
      BY <1>1, <1>6
    <3>2. QED
      BY <3>1, BoughtNothing
  <2>3. HeldIn(ledger, g) = 0
    BY <1>1, <1>2, <1>4, HeldNothing
  <2>4. NotionalOf(exposure, InCategory(g)) = 0
    <3>1. InCategory(g) \in SUBSET Markets
      BY DEF InCategory
    <3>2. QED
      BY <3>1, <1>10, NotionalZero
  <2>5. MaxCategoryExposure \in Nat
    BY LimitsAssumption
  <2>6. QED
    BY <2>1, <2>2, <2>3, <2>4, <2>5 DEF Booked
<1>12. BookedIn(risk, ledger, orders, exposure, settled)
  BY <1>11 DEF BookedIn
<1>13. BatchOK(batch)
  BY <1>1 DEF BatchOK, BatchType, NoBatch
<1>14. KillOK(kill) /\ marks \in [Tokens -> Nat \cup {NoMark}] /\ cycles \in 0..MaxCycles
  BY <1>1, SessionAssumption DEF KillOK
<1>15. QED
  BY <1>5, <1>7, <1>9, <1>10, <1>12, <1>13, <1>14 DEF IInv

-----------------------------------------------------------------------------
(* Steps that move the call or the switch alone *)

\* Scoring, allocation and skipped candidates touch none of the books.
LEMMA CallStep ==
  ASSUME IInv, UNCHANGED <<ledger, orders, risk, exposure, marks, settled>>,
         KillOK(kill'), BatchOK(batch'), cycles' \in 0..MaxCycles
  PROVE  IInv'
<1>1. SessionLedger(ledger)' /\ SessionOrders(orders, settled)' /\ RiskOK(risk, ledger, orders)'
  BY DEF IInv
<1>2. (exposure \in ExposureBook)' /\ (marks \in [Tokens -> Nat \cup {NoMark}])'
  BY DEF IInv
<1>3. BookedIn(risk, ledger, orders, exposure, settled)'
  BY DEF IInv
<1>4. QED
  BY <1>1, <1>2, <1>3 DEF IInv

\* What a new call looks like.
LEMMA CallIs ==
  ASSUME NEW todo \in Seq(Markets), NEW markets \in Seq(Markets)
  PROVE  BatchOK(Call(todo, markets))
<1>1. <<>> \in Seq(FitRow)
  <2> HIDE DEF FitRow
  <2>1. QED
    OBVIOUS
<1>2. QED
  BY <1>1 DEF BatchOK, BatchType, Call

LEMMA OneMarket ==
  ASSUME NEW m \in Markets
  PROVE  <<m>> \in Seq(Markets) /\ <<>> \in Seq(Markets)
  OBVIOUS

LEMMA IdleIs == BatchOK(NoBatch)
  BY DEF BatchOK, BatchType, NoBatch

LEMMA CallsCount ==
  ASSUME IInv, Calls
  PROVE  cycles' \in 0..MaxCycles
  BY SessionAssumption DEF IInv, Calls

LEMMA StartCycleOK ==
  ASSUME IInv, NEW n \in 1..MaxBatch, NEW S \in kSubset(n, Markets), NEW markets \in SetToSeqs(S),
         StartCycle(markets)
  PROVE  IInv'
<1>1. S \in SUBSET Markets
  BY DEF kSubset
<1>2. markets \in Seq(S)
  BY <1>1, FiniteMarkets, EnumerationIs
<1>3. markets \in Seq(Markets)
  BY <1>1, <1>2
<1>4. BatchOK(batch')
  BY <1>3, CallIs DEF StartCycle
<1>5. UNCHANGED <<ledger, orders, risk, exposure, marks, settled>> /\ kill' = kill /\ Calls
  BY DEF StartCycle, Calls
<1>6. KillOK(kill')
  BY <1>5 DEF IInv
<1>7. QED
  BY <1>4, <1>5, <1>6, CallsCount, CallStep

LEMMA StartSingleOK ==
  ASSUME IInv, NEW m \in Markets, StartSingle(m)
  PROVE  IInv'
<1>1. BatchOK(batch')
  BY OneMarket, CallIs DEF StartSingle
<1>2. UNCHANGED <<ledger, orders, risk, exposure, marks, settled>> /\ kill' = kill /\ Calls
  BY DEF StartSingle, Calls
<1>3. KillOK(kill')
  BY <1>2 DEF IInv
<1>4. QED
  BY <1>1, <1>2, <1>3, CallsCount, CallStep

\* A call with one field replaced, field by field.
LEMMA BatchFields ==
  ASSUME NEW b \in BatchType, NEW x
  PROVE  /\ [b EXCEPT !.todo = x] = [phase |-> b.phase, todo |-> x, markets |-> b.markets, rows |-> b.rows]
         /\ [b EXCEPT !.rows = x] = [phase |-> b.phase, todo |-> b.todo, markets |-> b.markets, rows |-> x]
  BY DEF BatchType

\* A scored market leaves the list, and a taken candidate the rows.
LEMMA ScoredIs ==
  ASSUME BatchOK(batch), batch.phase = "scoring", batch.todo # <<>>
  PROVE  /\ BatchOK(Scored)
         /\ Scored = [phase |-> batch.phase, todo |-> Tail(batch.todo), markets |-> batch.markets,
                      rows |-> batch.rows]
         /\ Head(batch.todo) \in Markets
<1>1. Tail(batch.todo) \in Seq(Markets) /\ Head(batch.todo) \in Markets
  BY DEF BatchOK, BatchType
<1>2. Scored = [phase |-> batch.phase, todo |-> Tail(batch.todo), markets |-> batch.markets,
                rows |-> batch.rows]
  BY BatchFields DEF BatchOK, Scored
<1>3. QED
  BY <1>1, <1>2 DEF BatchOK, BatchType

LEMMA CommittedIs ==
  ASSUME BatchOK(batch), batch.phase = "committing", batch.rows # <<>>
  PROVE  BatchOK(Committed) /\ Head(batch.rows) \in FitRow
<1>1. batch.rows \in Seq(FitRow)
  BY DEF BatchOK, BatchType
<1>2. Tail(batch.rows) \in Seq(FitRow) /\ Head(batch.rows) \in FitRow
  <2> HIDE DEF FitRow
  <2>1. QED
    BY <1>1
<1>3. Committed = [phase |-> batch.phase, todo |-> batch.todo, markets |-> batch.markets,
                   rows |-> Tail(batch.rows)]
  BY BatchFields DEF BatchOK, Committed
<1>4. QED
  BY <1>2, <1>3 DEF BatchOK, BatchType

\* Shares worth at most the limit when they are at most the quotient.
LEMMA WithinQuotient ==
  ASSUME NEW a \in Nat, NEW p \in Nat \ {0}, NEW s \in Nat, s <= a \div p
  PROVE  s * p <= a
<1> DEFINE q == a \div p
<1>1. q \in Nat /\ q * p <= a
  OBVIOUS
<1>2. s <= q
  OBVIOUS
<1> HIDE DEF q
<1>3. s * p <= q * p
  BY <1>1, <1>2
<1>4. QED
  BY <1>1, <1>3

LEMMA ScoreCandidateOK ==
  ASSUME IInv, NEW price \in Prices, NEW wanted \in SharesWanted, ScoreCandidate(price, wanted)
  PROVE  IInv'
<1> DEFINE quotient == MaxOrderNotional \div price
           shares == Lesser(Greater(MinSize, wanted), quotient)
           row == [market |-> Head(batch.todo), price |-> price, shares |-> shares, taken |-> FALSE]
<1>1. BatchOK(batch) /\ batch.phase = "scoring" /\ batch.todo # <<>> /\ shares > 0
  BY DEF IInv, ScoreCandidate
<1>2. /\ price \in Nat \ {0} /\ MaxOrderNotional \in Nat /\ MinSize \in Nat /\ wanted \in Nat
  BY SessionAssumption, LimitsAssumption
<1>3. quotient \in Nat
  BY <1>2
<1>4. shares \in Nat /\ shares <= quotient
  <2> HIDE DEF quotient
  <2>1. QED
    BY <1>2, <1>3 DEF Lesser, Greater
<1>5. shares * price <= MaxOrderNotional
  <2>1. shares \in Nat /\ shares <= MaxOrderNotional \div price
    BY <1>4
  <2> HIDE DEF shares
  <2>2. QED
    BY <1>2, <2>1, WithinQuotient
<1>6. batch' = [Scored EXCEPT !.rows = Append(@, row)]
  BY DEF ScoreCandidate
<1>7. row \in FitRow
  <2>1. Head(batch.todo) \in Markets
    BY <1>1, ScoredIs
  <2> HIDE DEF shares
  <2>2. QED
    BY <1>2, <1>4, <1>5, <2>1 DEF FitRow, Row
<1> HIDE DEF row
<1>8. BatchOK(batch')
  <2>1. BatchOK(Scored)
    BY <1>1, ScoredIs
  <2>2. Scored.rows \in Seq(FitRow)
    BY <2>1 DEF BatchOK, BatchType
  <2>3. Append(Scored.rows, row) \in Seq(FitRow)
    <3> HIDE DEF FitRow
    <3>1. QED
      BY <1>7, <2>2
  <2> DEFINE more == Append(Scored.rows, row)
  <2>4. batch' = [Scored EXCEPT !.rows = more] /\ more \in Seq(FitRow)
    BY <1>6, <2>3
  <2> HIDE DEF more
  <2>5. Scored \in BatchType
    BY <2>1 DEF BatchOK
  <2>6. batch' = [phase |-> Scored.phase, todo |-> Scored.todo, markets |-> Scored.markets,
                  rows |-> more]
    BY <2>4, <2>5 DEF BatchType
  <2>7. QED
    BY <2>1, <2>4, <2>6 DEF BatchOK, BatchType
<1>9. UNCHANGED <<ledger, orders, risk, exposure, kill, marks, cycles, settled>>
  BY DEF ScoreCandidate
<1>10. KillOK(kill') /\ cycles' \in 0..MaxCycles
  BY <1>9 DEF IInv
<1>11. QED
  BY <1>8, <1>9, <1>10, CallStep

LEMMA ScoreFilteredOK ==
  ASSUME IInv, ScoreFiltered
  PROVE  IInv'
<1>1. BatchOK(batch')
  BY ScoredIs DEF IInv, ScoreFiltered
<1>2. UNCHANGED <<ledger, orders, risk, exposure, kill, marks, cycles, settled>>
  BY DEF ScoreFiltered
<1>3. KillOK(kill') /\ cycles' \in 0..MaxCycles
  BY <1>2 DEF IInv
<1>4. QED
  BY <1>1, <1>2, <1>3, CallStep

\* The allocator gives each row a natural notional, and the resized row still fits.
LEMMA ExposuresIs ==
  ASSUME IInv
  PROVE  Exposures(exposure, risk.category, risk.total, risk.concurrent) \in ExposureSet({})
<1> DEFINE concurrent == IF risk.concurrent = {} THEN OpenMarkets(exposure) ELSE risk.concurrent
<1>1. /\ risk.category \in [Categories -> Nat] /\ risk.total \in Nat
      /\ risk.concurrent \in SUBSET Markets
  BY DEF IInv, RiskOK, RiskType
<1>2. exposure \in [Markets -> [notional : Nat, labels : SUBSET {}]]
  BY DEF IInv, ExposureBook
<1>3. concurrent \in SUBSET Markets
  BY <1>1 DEF OpenMarkets
<1>4. Exposures(exposure, risk.category, risk.total, risk.concurrent)
        = [book |-> exposure, category |-> risk.category, total |-> risk.total,
           concurrent |-> concurrent]
  BY DEF Exposures
<1> HIDE DEF concurrent
<1>5. QED
  BY <1>1, <1>2, <1>3, <1>4 DEF ExposureSet

LEMMA FitIs ==
  ASSUME NEW r \in FitRow
  PROVE  /\ r.market \in Markets /\ r.price \in Nat \ {0} /\ r.shares \in Nat /\ r.taken \in BOOLEAN
         /\ r.shares * r.price \in Nat /\ r.shares * r.price <= MaxOrderNotional
         /\ Notional(r) = r.shares * r.price
<1>1. /\ r.market \in Markets /\ r.price \in Nat \ {0} /\ r.shares \in Nat /\ r.taken \in BOOLEAN
      /\ r.shares * r.price <= MaxOrderNotional
  BY DEF FitRow, Row
<1>2. r.shares * r.price \in Nat /\ MaxOrderNotional \in Nat
  BY <1>1, LimitsAssumption
<1> DEFINE k == r.shares * r.price
<1>3. Notional(r) = Lesser(k, MaxOrderNotional)
  BY DEF Notional
<1>4. k \in Nat /\ k <= MaxOrderNotional
  BY <1>1, <1>2
<1> HIDE DEF k
<1>5. Notional(r) = k
  BY <1>2, <1>3, <1>4 DEF Lesser
<1>6. QED
  BY <1>1, <1>2, <1>5 DEF k

LEMMA FinalSharesFit ==
  ASSUME NEW r \in FitRow, NEW allocated \in Nat, NEW s, s = FinalShares(r, allocated)
  PROVE  s \in Nat /\ s * r.price <= MaxOrderNotional
<1> DEFINE quotient == MaxOrderNotional \div r.price
           worth == allocated \div r.price
<1>1. /\ r.price \in Nat \ {0} /\ r.shares \in Nat /\ r.shares * r.price <= MaxOrderNotional
      /\ MaxOrderNotional \in Nat /\ MinSize \in Nat
  BY FitIs, LimitsAssumption, SessionAssumption
<1>2. quotient \in Nat /\ worth \in Nat
  BY <1>1
<1>3. s = IF allocated >= Intended(r) THEN r.shares ELSE Lesser(Greater(MinSize, worth), quotient)
  BY DEF FinalShares
<1>4. CASE allocated >= Intended(r)
  BY <1>1, <1>3, <1>4
<1>5. CASE ~(allocated >= Intended(r))
  <2>1. s = Lesser(Greater(MinSize, worth), quotient)
    BY <1>3, <1>5
  <2>2. s \in Nat /\ s <= quotient
    <3> HIDE DEF quotient, worth
    <3>1. QED
      BY <1>1, <1>2, <2>1 DEF Lesser, Greater
  <2>3. s <= MaxOrderNotional \div r.price
    BY <2>2
  <2>4. QED
    BY <1>1, <2>2, <2>3, WithinQuotient
<1>6. QED
  BY <1>4, <1>5

LEMMA AllocateOK ==
  ASSUME IInv, Allocate
  PROVE  IInv'
<1> DEFINE rows == batch.rows
           entering == Exposures(exposure, risk.category, risk.total, risk.concurrent)
           cands(ranked) == [k \in DOMAIN ranked |-> CandidateOf(rows[ranked[k]])]
           mine(ranked, i) == AllocateAll(entering, cands(ranked))[CHOOSE k \in DOMAIN ranked : ranked[k] = i]
           final(ranked) == [i \in DOMAIN rows |->
                               [rows[i] EXCEPT !.taken = mine(ranked, i) > 0,
                                  !.shares = IF mine(ranked, i) > 0
                                             THEN FinalShares(rows[i], mine(ranked, i)) ELSE 0]]
<1>1. PICK ranked \in SetToSeqs(DOMAIN rows) :
        batch' = [batch EXCEPT !.phase = "committing", !.rows = final(ranked)]
  BY DEF Allocate
<1>2. rows \in Seq(FitRow) /\ batch \in BatchType
  BY DEF IInv, BatchOK, BatchType
<1>3. DOMAIN rows = 1..Len(rows) /\ Len(rows) \in Nat /\ \A i \in DOMAIN rows : rows[i] \in FitRow
  <2> HIDE DEF rows, FitRow
  <2>1. QED
    BY <1>2
<1>4. IsFiniteSet(DOMAIN rows)
  BY <1>3, FS_Interval
<1> HIDE DEF rows
<1>5. /\ Len(ranked) \in Nat /\ DOMAIN ranked = 1..Len(ranked)
      /\ \A i \in 1..Len(ranked) : ranked[i] \in DOMAIN rows
      /\ \A x \in DOMAIN rows : \E i \in 1..Len(ranked) : ranked[i] = x
  BY <1>4, EnumerationIs
<1>6. RankedCandidates(cands(ranked), {}) /\ Len(cands(ranked)) = Len(ranked)
  <2> DEFINE c == cands(ranked)
  <2>1. DOMAIN c = 1..Len(ranked) /\ Len(ranked) \in Nat
    BY <1>5
  <2>2. ASSUME NEW i \in 1..Len(ranked)
        PROVE  SoundCandidate(c[i]) /\ c[i].labels \in SUBSET {}
    <3> DEFINE row == rows[ranked[i]]
    <3>1. row \in FitRow
      BY <1>3, <1>5
    <3>2. c[i] = CandidateOf(row)
      BY <2>1
    <3> HIDE DEF row, c
    <3>3. row.market \in Markets /\ row.shares * row.price \in Nat
      BY <3>1, FitIs
    <3>4. QED
      BY <3>2, <3>3 DEF CandidateOf, Intended, SoundCandidate
  <2>3. Len(c) = Len(ranked)
    <3>1. c = [i \in 1..Len(ranked) |-> c[i]]
      BY <2>1
    <3> HIDE DEF c
    <3>2. QED
      BY <2>1, <3>1
  <2> HIDE DEF c
  <2>4. RankedCandidates(c, {})
    BY <2>1, <2>2, <2>3 DEF RankedCandidates
  <2>5. QED
    BY <2>3, <2>4 DEF c
<1>7. entering \in ExposureSet({})
  BY ExposuresIs
<1> HIDE DEF entering, cands
<1>8. ASSUME NEW i \in DOMAIN rows
      PROVE  mine(ranked, i) \in Nat
  <2> DEFINE k == CHOOSE k \in DOMAIN ranked : ranked[k] = i
  <2>1. k \in 1..Len(ranked)
    BY <1>5
  <2> HIDE DEF k
  <2>2. AllocateAll(entering, cands(ranked))[k] \in Nat
    BY <1>6, <1>7, <2>1, AllocateAllIs
  <2>3. QED
    BY <2>2 DEF k
<1> HIDE DEF mine
<1>9. ASSUME NEW i \in DOMAIN rows
      PROVE  final(ranked)[i] \in FitRow
  <2> DEFINE r == rows[i]
             a == mine(ranked, i)
             s == IF a > 0 THEN FinalShares(r, a) ELSE 0
             n == [r EXCEPT !.taken = a > 0, !.shares = s]
  <2>1. r \in FitRow /\ a \in Nat
    BY <1>3, <1>8
  <2>2. final(ranked)[i] = n
    OBVIOUS
  <2> HIDE DEF r, a
  <2>3. /\ r.market \in Markets /\ r.price \in Nat \ {0} /\ MaxOrderNotional \in Nat
        /\ r \in [market : Markets, price : Nat, shares : Nat, taken : BOOLEAN]
    BY <2>1, FitIs, LimitsAssumption DEF FitRow, Row
  <2>4. s \in Nat /\ s * r.price <= MaxOrderNotional
    <3>1. CASE a > 0
      BY <2>1, <3>1, FinalSharesFit
    <3>2. CASE ~(a > 0)
      BY <2>3, <3>2
    <3>3. QED
      BY <3>1, <3>2
  <2> HIDE DEF s
  <2> DEFINE b == a > 0
  <2>5. n = [r EXCEPT !.taken = b, !.shares = s] /\ b \in BOOLEAN
    OBVIOUS
  <2> HIDE DEF n, b
  <2>6. n = [market |-> r.market, price |-> r.price, shares |-> s, taken |-> b]
    BY <2>3, <2>5
  <2>7. n \in Row /\ n.price > 0 /\ n.shares * n.price <= MaxOrderNotional
    BY <2>3, <2>4, <2>5, <2>6 DEF Row
  <2>8. QED
    BY <2>2, <2>7 DEF FitRow
<1>10. final(ranked) \in Seq(FitRow)
  <2> DEFINE f == final(ranked)
  <2>1. f = [i \in 1..Len(rows) |-> f[i]] /\ \A i \in 1..Len(rows) : f[i] \in FitRow
    BY <1>3, <1>9
  <2> HIDE DEF f, FitRow
  <2>2. f \in Seq(FitRow)
    BY <1>3, <2>1
  <2>3. QED
    BY <2>2 DEF f
<1> HIDE DEF final
<1>11. BatchOK(batch')
  <2> DEFINE f == final(ranked)
  <2> HIDE DEF f
  <2>1. batch' = [batch EXCEPT !.phase = "committing", !.rows = f] /\ f \in Seq(FitRow)
    BY <1>1, <1>10 DEF f
  <2>2. batch' = [phase |-> "committing", todo |-> batch.todo, markets |-> batch.markets, rows |-> f]
    BY <1>2, <2>1 DEF BatchType
  <2>3. batch.todo \in Seq(Markets) /\ batch.markets \in Seq(Markets)
    BY <1>2 DEF BatchType
  <2>4. QED
    BY <2>1, <2>2, <2>3 DEF BatchOK, BatchType
<1>12. UNCHANGED <<ledger, orders, risk, exposure, kill, marks, cycles, settled>>
  BY DEF Allocate
<1>13. KillOK(kill') /\ cycles' \in 0..MaxCycles
  BY <1>12 DEF IInv
<1>14. QED
  BY <1>11, <1>12, <1>13, CallStep

LEMMA CommitSkipOK ==
  ASSUME IInv, CommitSkip
  PROVE  IInv'
<1>1. BatchOK(batch')
  BY CommittedIs DEF IInv, CommitSkip
<1>2. UNCHANGED <<ledger, orders, risk, exposure, kill, marks, cycles, settled>>
  BY DEF CommitSkip
<1>3. KillOK(kill') /\ cycles' \in 0..MaxCycles
  BY <1>2 DEF IInv
<1>4. QED
  BY <1>1, <1>2, <1>3, CallStep

LEMMA CommitsDoneOK ==
  ASSUME IInv, CommitsDone
  PROVE  IInv'
<1>1. batch \in BatchType
  BY DEF IInv, BatchOK
<1>2. BatchOK(batch')
  <2>1. CASE batch.markets = <<>>
    BY <2>1, IdleIs DEF CommitsDone
  <2>2. CASE batch.markets # <<>>
    <3>1. batch' = [batch EXCEPT !.phase = "marking", !.todo = batch.markets]
      BY <2>2 DEF CommitsDone
    <3>2. batch' = [phase |-> "marking", todo |-> batch.markets, markets |-> batch.markets,
                    rows |-> batch.rows]
      BY <1>1, <3>1 DEF BatchType
    <3>3. QED
      BY <1>1, <2>2, <3>2 DEF BatchOK, BatchType
  <2>3. QED
    BY <2>1, <2>2
<1>3. UNCHANGED <<ledger, orders, risk, exposure, kill, marks, cycles, settled>>
  BY DEF CommitsDone
<1>4. KillOK(kill') /\ cycles' \in 0..MaxCycles
  BY <1>3 DEF IInv
<1>5. QED
  BY <1>2, <1>3, <1>4, CallStep

\* A trip by the position check, and the operator's reset.
LEMMA SwitchOK ==
  ASSUME IInv, PositionMismatch \/ Reset
  PROVE  IInv'
<1>1. KillOK(kill')
  BY DEF PositionMismatch, Reset, KillOK, KillReasons
<1>2. UNCHANGED <<ledger, orders, risk, exposure, marks, batch, cycles, settled>>
  BY DEF PositionMismatch, Reset
<1>3. BatchOK(batch') /\ cycles' \in 0..MaxCycles
  BY <1>2 DEF IInv
<1>4. QED
  BY <1>1, <1>2, <1>3, CallStep

-----------------------------------------------------------------------------
(* Steps that move the books *)

\* A refused order is counted, and may trip the switch.
LEMMA CommitVetoOK ==
  ASSUME IInv, NEW dataOk \in BOOLEAN, CommitVeto(dataOk)
  PROVE  IInv'
<1> DEFINE row == Head(batch.rows)
           rejects == risk.rejects + 1
<1>1. /\ risk' = [risk EXCEPT !.rejects = rejects]
      /\ kill' = KillAfterVeto(risk, kill, row.market, Notional(row))
      /\ UNCHANGED <<ledger, orders, exposure, marks, cycles, settled>>
  BY DEF CommitVeto
<1>2. BatchOK(batch')
  BY CommittedIs DEF IInv, CommitVeto
<1>3. KillOK(kill')
  BY <1>1 DEF KillAfterVeto, KillOK, KillReasons, IInv
<1>4. risk \in RiskType /\ rejects \in Nat
  BY DEF IInv, RiskOK, RiskType
<1> HIDE DEF rejects
<1>5. /\ risk' \in RiskType /\ risk'.daily = risk.daily /\ risk'.category = risk.category
      /\ risk'.openOrders = risk.openOrders /\ risk'.concurrent = risk.concurrent
  BY <1>1, <1>4 DEF RiskType
<1>6. RiskOK(risk', ledger', orders')
  BY <1>1, <1>5 DEF IInv, RiskOK
<1>7. ASSUME NEW g \in Categories PROVE Booked(risk', ledger', orders', exposure', settled', g)
  BY <1>1, <1>5 DEF IInv, BookedIn, Booked
<1>8. BookedIn(risk', ledger', orders', exposure', settled')
  BY <1>7 DEF BookedIn
<1>9. /\ SessionLedger(ledger') /\ SessionOrders(orders', settled') /\ exposure' \in ExposureBook
      /\ marks' \in [Tokens -> Nat \cup {NoMark}] /\ cycles' \in 0..MaxCycles
  BY <1>1 DEF IInv
<1>10. QED
  BY <1>2, <1>3, <1>6, <1>8, <1>9 DEF IInv

\* A sweep only makes the counts of working orders and markets too high.
LEMMA ScoreStaleOK ==
  ASSUME IInv, ScoreStale
  PROVE  IInv'
<1>1. /\ kill' = "STALE_CRITICAL_DATA" /\ orders' = Swept /\ batch' = Scored
      /\ UNCHANGED <<ledger, risk, exposure, marks, cycles, settled>>
  BY DEF ScoreStale
<1>2. BatchOK(batch')
  BY ScoredIs DEF IInv, ScoreStale
<1>3. /\ SessionOrders(orders', settled) /\ Working(orders') = {}
      /\ \A c \in Cids : SameTerms(orders[c], orders'[c])
  BY <1>1, SweptIs DEF IInv
<1>4. RiskOK(risk', ledger', orders')
  <2>1. Cardinality({}) = 0
    BY FS_EmptySet
  <2>2. risk.openOrders \in Nat
    BY DEF IInv, RiskOK, RiskType
  <2>3. QED
    BY <1>1, <1>3, <2>1, <2>2 DEF IInv, RiskOK
<1>5. ASSUME NEW g \in Categories PROVE Booked(risk', ledger', orders', exposure', settled', g)
  <2>1. BoughtIn(orders', settled, g) = BoughtIn(orders, settled, g)
    BY <1>3, BoughtSame
  <2>2. Booked(risk, ledger, orders, exposure, settled, g)
    BY DEF IInv, BookedIn
  <2>3. QED
    BY <1>1, <2>1, <2>2 DEF Booked
<1>6. BookedIn(risk', ledger', orders', exposure', settled')
  BY <1>5 DEF BookedIn
<1>7. /\ SessionLedger(ledger') /\ exposure' \in ExposureBook
      /\ marks' \in [Tokens -> Nat \cup {NoMark}] /\ cycles' \in 0..MaxCycles
  BY <1>1 DEF IInv
<1>8. KillOK(kill')
  BY <1>1 DEF KillOK, KillReasons
<1>9. QED
  BY <1>1, <1>2, <1>3, <1>4, <1>6, <1>7, <1>8 DEF IInv

\* The last mark ends the call.
LEMMA MarkedIs ==
  ASSUME BatchOK(batch), batch.phase = "marking"
  PROVE  BatchOK(Marked) /\ Head(batch.todo) \in Markets
<1>1. batch \in BatchType /\ batch.todo \in Seq(Markets) /\ batch.todo # <<>>
  BY DEF BatchOK, BatchType
<1>2. Head(batch.todo) \in Markets
  BY <1>1
<1>3. CASE Len(batch.todo) = 1
  BY <1>2, <1>3, IdleIs DEF Marked
<1>4. CASE Len(batch.todo) # 1
  <2> DEFINE rest == Tail(batch.todo)
  <2>1. rest \in Seq(Markets) /\ rest # <<>>
    <3> DEFINE todo == batch.todo
    <3>1. todo \in Seq(Markets) /\ todo # <<>> /\ Len(todo) # 1
      BY <1>1, <1>4
    <3> HIDE DEF todo
    <3>2. Tail(todo) \in Seq(Markets) /\ Len(Tail(todo)) = Len(todo) - 1 /\ Len(todo) \in Nat
      BY <3>1
    <3>3. Len(Tail(todo)) # 0 /\ Len(<<>>) = 0
      <4>1. Len(todo) # 0
        BY <3>1
      <4>2. QED
        BY <3>1, <3>2, <4>1
    <3>4. Tail(todo) # <<>>
      BY <3>3, Zenon
    <3>5. QED
      BY <3>2, <3>4 DEF todo
  <2>2. Marked = [batch EXCEPT !.todo = rest]
    BY <1>4 DEF Marked
  <2> HIDE DEF rest
  <2>3. Marked = [phase |-> batch.phase, todo |-> rest, markets |-> batch.markets, rows |-> batch.rows]
    BY <1>1, <2>2, BatchFields
  <2>4. Marked \in BatchType /\ Marked.todo # <<>>
    BY <1>1, <2>1, <2>3 DEF BatchType
  <2>5. QED
    BY <1>2, <2>4 DEF BatchOK
<1>5. QED
  BY <1>3, <1>4

LEMMA MarkRealizes ==
  ASSUME NEW l, SoundLedger(l), NEW t \in Tokens, NEW price \in Nat,
         NEW m, m = ApplyMark(l, t, price)
  PROVE  m.realized = l.realized
<1>1. /\ m.cash = l.cash /\ m.realized = l.realized /\ m.fees = l.fees
      /\ m.pos = [l.pos EXCEPT ![t] = [qty |-> l.pos[t].qty, cost |-> l.pos[t].cost,
                                       mark |-> price]]
  BY MarkEffect
<1>2. QED
  BY <1>1

\* A mark moves no lot, no cost and no realized result.
LEMMA RememberMarkOK ==
  ASSUME IInv, NEW price \in MarkPrices, RememberMark(price)
  PROVE  IInv'
<1> DEFINE t == Head(batch.todo)
           m == ApplyMark(ledger, t, price)
<1>1. /\ batch.phase = "marking" /\ marks' = [marks EXCEPT ![t] = price] /\ ledger' = m
      /\ batch' = Marked /\ UNCHANGED <<orders, risk, exposure, kill, cycles, settled>>
  BY DEF RememberMark
<1>2. BatchOK(batch') /\ t \in Tokens
  BY <1>1, MarkedIs, MarketAssumption DEF IInv
<1>3. price \in Nat
  BY SessionAssumption
<1>4. marks' \in [Tokens -> Nat \cup {NoMark}]
  <2> HIDE DEF t
  <2>1. QED
    BY <1>1, <1>3 DEF IInv
<1>5. m = ApplyMark(ledger, t, price) /\ SoundLedger(ledger) /\ ledger.pos \in [Tokens -> Positions]
  BY PositionType DEF IInv, SessionLedger
<1> HIDE DEF t, m
<1>6. SoundLedger(m)
  BY <1>2, <1>3, <1>5, MarkBalances
<1>7. m.realized = ledger.realized
  <2>1. SoundLedger(ledger) /\ t \in Tokens /\ price \in Nat /\ m = ApplyMark(ledger, t, price)
    BY <1>2, <1>3, <1>5
  <2>2. QED
    BY <2>1, MarkRealizes
<1>8. m.pos = [ledger.pos EXCEPT ![t] = [qty |-> ledger.pos[t].qty, cost |-> ledger.pos[t].cost,
                                         mark |-> price]]
  BY <1>2, <1>3, <1>5, MarkEffect
<1>9. \A u \in Tokens : m.pos[u].qty = ledger.pos[u].qty /\ m.pos[u].cost = ledger.pos[u].cost
  BY <1>2, <1>5, <1>8
<1>10. SessionLedger(m)
  <2>1. PracticeToken \in Tokens
    BY SessionAssumption
  <2>2. QED
    BY <1>6, <1>9, <2>1 DEF IInv, SessionLedger
<1>11. RiskOK(risk, m, orders)
  <2>1. OpenTokens(m) = OpenTokens(ledger)
    BY <1>9 DEF OpenTokens
  <2>2. QED
    BY <1>7, <2>1 DEF IInv, RiskOK
<1>12. ASSUME NEW g \in Categories PROVE Booked(risk, m, orders, exposure, settled, g)
  <2>1. HeldIn(m, g) = HeldIn(ledger, g)
    BY <1>9, MarketAssumption, HeldSame
  <2>2. QED
    BY <2>1 DEF IInv, BookedIn, Booked
<1>13. BookedIn(risk, m, orders, exposure, settled)
  BY <1>12 DEF BookedIn
<1>14. RiskOK(risk', ledger', orders') /\ BookedIn(risk', ledger', orders', exposure', settled')
  BY <1>1, <1>11, <1>13
<1>15. /\ SessionLedger(ledger') /\ SessionOrders(orders', settled') /\ exposure' \in ExposureBook
       /\ KillOK(kill') /\ cycles' \in 0..MaxCycles
  BY <1>1, <1>10 DEF IInv
<1>16. QED
  BY <1>2, <1>4, <1>14, <1>15 DEF IInv

\* The switch after the session limits were enforced.
LEMMA EnforceIs ==
  ASSUME NEW k, KillOK(k), NEW r
  PROVE  KillOK(EnforceSessionLimits(k, r))
  BY DEF EnforceSessionLimits, KillOK, KillReasons

\* Telling the risk engine of a ledger that holds no more than the books have.
LEMMA ToldStep ==
  ASSUME IInv, NEW l, SessionLedger(l), Tells(l), OpenTokens(l) \subseteq risk.concurrent,
         \A g \in Categories : HeldIn(l, g) <= risk.category[g],
         UNCHANGED <<orders, exposure, marks, settled>>, BatchOK(batch'), cycles' \in 0..MaxCycles
  PROVE  IInv'
<1>1. /\ ledger' = l /\ risk' = SyncFromLedger(risk, l)
      /\ kill' = EnforceSessionLimits(kill, risk')
  BY DEF Tells
<1>2. SoundLedger(l) /\ risk \in RiskType
  BY DEF SessionLedger, IInv, RiskOK
<1>3. /\ risk' \in RiskType /\ risk'.daily = l.realized /\ risk'.category = risk.category
      /\ risk'.openOrders = risk.openOrders /\ risk'.concurrent = risk.concurrent
  BY <1>1, <1>2, SyncIs
<1>4. KillOK(kill')
  BY <1>1, EnforceIs DEF IInv
<1>5. RiskOK(risk', ledger', orders')
  BY <1>1, <1>3 DEF IInv, RiskOK
<1>6. ASSUME NEW g \in Categories PROVE Booked(risk', ledger', orders', exposure', settled', g)
  <2>1. Booked(risk, ledger, orders, exposure, settled, g)
    BY DEF IInv, BookedIn
  <2>2. HeldIn(l, g) <= risk.category[g]
    OBVIOUS
  <2>3. QED
    BY <1>1, <1>3, <2>1, <2>2 DEF Booked
<1>7. BookedIn(risk', ledger', orders', exposure', settled')
  BY <1>6 DEF BookedIn
<1>8. SessionLedger(ledger') /\ SessionOrders(orders', settled') /\ exposure' \in ExposureBook
      /\ marks' \in [Tokens -> Nat \cup {NoMark}]
  BY <1>1 DEF IInv
<1>9. QED
  BY <1>4, <1>5, <1>7, <1>8 DEF IInv

LEMMA CategoryNat ==
  ASSUME IInv, NEW g \in Categories
  PROVE  risk.category[g] \in Nat
  BY DEF IInv, RiskOK, RiskType

LEMMA FlattenOK ==
  ASSUME IInv, Flatten
  PROVE  IInv'
<1>1. PICK flat \in Flattened : Tells(flat)
  BY DEF Flatten
<1>2. SessionLedger(flat) /\ OpenTokens(flat) = {}
  BY FlattenedIs DEF IInv
<1>3. \A g \in Categories : HeldIn(flat, g) <= risk.category[g]
  <2>1. ASSUME NEW g \in Categories PROVE HeldIn(flat, g) <= risk.category[g]
    <3>1. HeldIn(flat, g) = 0
      BY <1>2, HeldNothing DEF SessionLedger
    <3>2. QED
      BY <3>1, CategoryNat
  <2>2. QED
    BY <2>1
<1>4. UNCHANGED <<orders, exposure, marks, batch, cycles, settled>>
  BY DEF Flatten
<1>5. BatchOK(batch') /\ cycles' \in 0..MaxCycles
  BY <1>4 DEF IInv
<1>6. OpenTokens(flat) \subseteq risk.concurrent
  BY <1>2
<1>7. QED
  BY <1>1, <1>2, <1>3, <1>4, <1>5, <1>6, ToldStep

\* A round trip leaves the markets as they were.
LEMMA TripStep ==
  ASSUME IInv, NEW size \in LotSizes, NEW open \in Prices, NEW path \in Seq(Nat),
         NEW close \in MarkPrices, Tells(RoundTrip(size, open, path, close)),
         UNCHANGED <<orders, exposure, marks, settled>>, BatchOK(batch'), cycles' \in 0..MaxCycles
  PROVE  IInv'
<1> DEFINE l == RoundTrip(size, open, path, close)
<1>1. SessionLedger(l) /\ \A t \in Tokens \ {PracticeToken} : l.pos[t] = ledger.pos[t]
  BY RoundTripIs DEF IInv
<1>2. Tells(l)
  OBVIOUS
<1> HIDE DEF l
<1>3. OpenTokens(l) \subseteq risk.concurrent
  <2>1. OpenTokens(l) \subseteq OpenTokens(ledger)
    BY <1>1 DEF OpenTokens, SessionLedger
  <2>2. QED
    BY <2>1 DEF IInv, RiskOK
<1>4. ASSUME NEW g \in Categories PROVE HeldIn(l, g) <= risk.category[g]
  <2>1. \A t \in Markets : l.pos[t].cost = ledger.pos[t].cost
    BY <1>1, MarketAssumption, SessionAssumption
  <2>2. HeldIn(l, g) = HeldIn(ledger, g)
    BY <2>1, HeldSame
  <2>3. QED
    BY <2>2 DEF IInv, BookedIn, Booked
<1>5. QED
  BY <1>1, <1>2, <1>3, <1>4, ToldStep

LEMMA SoakLotOK ==
  ASSUME IInv, NEW size \in LotSizes, NEW open \in Prices, NEW adverse \in MarkPrices,
         NEW favorable \in MarkPrices, NEW close \in MarkPrices,
         SoakLot(size, open, adverse, favorable, close)
  PROVE  IInv'
<1>1. <<adverse, favorable>> \in Seq(Nat)
  <2>1. adverse \in Nat /\ favorable \in Nat
    BY SessionAssumption
  <2>2. QED
    BY <2>1
<1>2. /\ Tells(RoundTrip(size, open, <<adverse, favorable>>, close))
      /\ UNCHANGED <<orders, exposure, marks, settled, batch>> /\ Calls
  BY DEF SoakLot, Calls
<1>3. BatchOK(batch')
  BY <1>2 DEF IInv
<1>4. QED
  BY <1>1, <1>2, <1>3, CallsCount, TripStep

LEMMA KillDrillOK ==
  ASSUME IInv, NEW size \in LotSizes, NEW open \in Prices, NEW close \in MarkPrices,
         NEW probe \in Markets, KillDrill(size, open, close, probe)
  PROVE  IInv'
<1>1. <<>> \in Seq(Nat)
  OBVIOUS
<1>2. /\ Tells(RoundTrip(size, open, <<>>, close))
      /\ UNCHANGED <<orders, exposure, marks, settled>> /\ Calls
  BY DEF KillDrill, Calls
<1>3. BatchOK(batch')
  BY OneMarket, CallIs DEF KillDrill
<1>4. QED
  BY <1>1, <1>2, <1>3, CallsCount, TripStep

\* A recipe ends with nothing held, nothing working and empty books; the orders it leaves
\* behind are no longer counted.
LEMMA EndRecipeOK ==
  ASSUME IInv, EndRecipe
  PROVE  IInv'
<1>1. PICK flat \in Flattened :
        /\ ledger' = flat
        /\ risk' = ResetFlatRisk(SyncFromLedger(risk, flat), flat)
        /\ kill' = EnforceSessionLimits(kill, SyncFromLedger(risk, flat))
  BY DEF EndRecipe
<1>2. /\ exposure' = [m \in Markets |-> NotOpen] /\ orders' = Swept
      /\ settled' = {c \in Cids : Known(c)} /\ UNCHANGED <<marks, batch, cycles>>
  BY DEF EndRecipe
<1>3. SessionLedger(flat) /\ OpenTokens(flat) = {} /\ SoundLedger(flat)
  BY FlattenedIs DEF IInv, SessionLedger
<1> DEFINE s == SyncFromLedger(risk, flat)
<1>4. s \in RiskType /\ s.daily = flat.realized
  BY <1>3, SyncIs DEF IInv, RiskOK
<1>5. risk' = ResetFlatRisk(s, flat)
  BY <1>1
<1> HIDE DEF s
<1>6. /\ risk' \in RiskType /\ SameResult(s, risk') /\ risk'.openOrders = 0
      /\ risk'.concurrent = {} /\ \A g \in Categories : risk'.category[g] = 0
  BY <1>3, <1>4, <1>5, ResetIs
<1>7. /\ SessionOrders(orders', settled) /\ Working(orders') = {}
      /\ \A c \in Cids : SameTerms(orders[c], orders'[c])
  BY <1>2, SweptIs DEF IInv
<1>8. SessionOrders(orders', settled')
  BY <1>2, <1>7 DEF SessionOrders, SameTerms, Known
<1>9. RiskOK(risk', ledger', orders')
  <2>1. Cardinality({}) = 0
    BY FS_EmptySet
  <2>2. MaxOpenOrders \in Nat /\ MaxConcurrentMarkets \in Nat
    BY LimitsAssumption
  <2>3. QED
    BY <1>1, <1>3, <1>4, <1>6, <1>7, <2>1, <2>2 DEF RiskOK, SameResult
<1>10. exposure' \in ExposureBook /\ NatBook(exposure') /\ \A m \in Markets : exposure'[m].notional = 0
  BY <1>2 DEF ExposureBook, NotOpen, NatBook
<1>11. ASSUME NEW g \in Categories
       PROVE  Booked(risk', ledger', orders', exposure', settled', g)
  <2>1. BoughtIn(orders', settled', g) = 0
    <3>1. ASSUME NEW c \in Cids, c \notin settled'
          PROVE  orders'[c].filled = 0 /\ orders'[c].price = 0
      <4>1. orders[c].status = "NONE"
        BY <1>2, <3>1 DEF Known
      <4>2. orders[c] = Absent
        BY <4>1 DEF IInv, SessionOrders
      <4>3. SameTerms(orders[c], orders'[c])
        BY <1>7
      <4>4. QED
        BY <4>2, <4>3 DEF SameTerms, Absent
    <3>2. QED
      BY <3>1, BoughtNothing
  <2>2. HeldIn(ledger', g) = 0
    BY <1>1, <1>3, HeldNothing
  <2>3. NotionalOf(exposure', InCategory(g)) = 0
    <3>1. InCategory(g) \in SUBSET Markets
      BY DEF InCategory
    <3>2. QED
      BY <3>1, <1>10, NotionalZero
  <2>4. MaxCategoryExposure \in Nat
    BY LimitsAssumption
  <2>5. QED
    BY <1>6, <2>1, <2>2, <2>3, <2>4 DEF Booked
<1>12. BookedIn(risk', ledger', orders', exposure', settled')
  BY <1>11 DEF BookedIn
<1>13. KillOK(kill')
  BY <1>1, EnforceIs DEF IInv
<1>14. SessionLedger(ledger') /\ marks' \in [Tokens -> Nat \cup {NoMark}] /\ BatchOK(batch')
       /\ cycles' \in 0..MaxCycles
  BY <1>1, <1>2, <1>3 DEF IInv
<1>15. QED
  BY <1>8, <1>9, <1>10, <1>12, <1>13, <1>14 DEF IInv

-----------------------------------------------------------------------------
(* An accepted order *)

LEMMA FilledLotsWithin ==
  ASSUME NEW shares \in Nat, NEW price \in Nat, NEW lots, lots = FilledLots(shares)
  PROVE  /\ lots \in Nat /\ lots <= shares
         /\ lots * price \in Nat /\ lots * price <= shares * price
<1>1. FillPct \in 0..100
  BY SessionAssumption
<1>2. lots \in 0..shares
  BY <1>1, PercentOf DEF FilledLots
<1>3. lots \in Nat /\ lots <= shares
  BY <1>2
<1>4. lots * price <= shares * price
  BY <1>3
<1>5. lots * price \in Nat
  BY <1>3
<1>6. QED
  BY <1>3, <1>4, <1>5

\* The order a trade books: acknowledged, and filled at once with its lots.
TradeOrder(m, price, shares, lots) ==
  LET order == [NewOrder(m, "BUY", price, shares) EXCEPT !.status = "ACKNOWLEDGED"]
  IN  IF lots > 0 THEN Filled(order, lots) ELSE order

LEMMA TradeOrderIs ==
  ASSUME NEW m \in Tokens, NEW price \in Nat, NEW shares \in Nat, NEW lots \in Nat, lots <= shares,
         NEW n, n = TradeOrder(m, price, shares, lots)
  PROVE  /\ n \in SessionOrder /\ n.status # "NONE"
         /\ n.token = m /\ n.price = price /\ n.filled = lots
<1> DEFINE order == [NewOrder(m, "BUY", price, shares) EXCEPT !.status = "ACKNOWLEDGED"]
           status == IF lots >= shares THEN "FILLED" ELSE "PARTIAL"
<1>1. order = [status |-> "ACKNOWLEDGED", token |-> m, side |-> "BUY", price |-> price,
               size |-> shares, filled |-> 0, reason |-> "NONE"]
  BY DEF NewOrder
<1>2. n = IF lots > 0 THEN Filled(order, lots) ELSE order
  BY DEF TradeOrder
<1> HIDE DEF order
<1>3. CASE lots > 0
  <2>1. n = [order EXCEPT !.filled = Lesser(order.size, order.filled + lots),
                          !.status = IF order.filled + lots >= order.size THEN "FILLED" ELSE "PARTIAL"]
    BY <1>2, <1>3 DEF Filled
  <2>2. order.filled + lots = lots /\ order.size = shares /\ Lesser(shares, lots) = lots
    BY <1>1 DEF Lesser
  <2>3. n = [order EXCEPT !.filled = lots, !.status = status]
    BY <2>1, <2>2
  <2>4. status \in {"FILLED", "PARTIAL"}
    OBVIOUS
  <2> HIDE DEF status
  <2>5. n = [status |-> status, token |-> m, side |-> "BUY", price |-> price,
             size |-> shares, filled |-> lots, reason |-> "NONE"]
    BY <1>1, <2>3
  <2>6. QED
    BY <2>4, <2>5 DEF SessionOrder
<1>4. CASE ~(lots > 0)
  <2>1. n = order /\ lots = 0
    BY <1>2, <1>4
  <2>2. QED
    BY <1>1, <2>1 DEF SessionOrder
<1>5. QED
  BY <1>3, <1>4

\* The table with the new order in it.
LEMMA TableWithOrder ==
  ASSUME SessionOrders(orders, settled), NEW cid \in FreeCids, NEW n \in SessionOrder,
         n.status # "NONE", NEW os, os = TableAfter(orders, cid, n)
  PROVE  /\ SessionOrders(os, settled)
         /\ \A c \in Working(os) : c = cid \/ (c \in Working(orders) /\ os[c] = orders[c])
         /\ os[cid] = n
         /\ Cardinality(Working(os)) \in Nat
         /\ Cardinality(Working(os)) <= Cardinality(Working(orders)) + 1
         /\ Cardinality(Working(orders)) \in Nat
<1>1. cid \in Cids /\ orders[cid].status = "NONE" /\ orders \in [Cids -> SessionOrder]
  BY DEF FreeCids, Known, SessionOrders
<1>2. /\ os \in [Cids -> SessionOrder] /\ os[cid] = n
      /\ \A c \in Cids : c # cid => os[c] = orders[c]
  BY <1>1 DEF TableAfter
<1>3. SessionOrders(os, settled)
  BY <1>1, <1>2 DEF SessionOrders
<1>4. \A c \in Working(os) : c = cid \/ (c \in Working(orders) /\ os[c] = orders[c])
  BY <1>2 DEF Working
<1>5. Working(os) \subseteq Working(orders) \cup {cid}
  BY <1>4
<1>6. Working(orders) \in SUBSET Cids /\ Working(os) \in SUBSET Cids /\ cid \notin Working(orders)
  BY <1>1 DEF Working
<1> DEFINE W == Working(orders)
           V == Working(os)
<1> HIDE DEF W, V
<1>7. IsFiniteSet(W) /\ IsFiniteSet(V) /\ cid \notin W /\ V \subseteq W \cup {cid}
  BY <1>5, <1>6, FiniteCids DEF W, V
<1>8. /\ IsFiniteSet(W \cup {cid}) /\ Cardinality(W \cup {cid}) = Cardinality(W) + 1
      /\ Cardinality(W) \in Nat /\ Cardinality(V) \in Nat
  BY <1>7, FS_AddElement, FS_CardinalityType
<1>9. Cardinality(V) <= Cardinality(W \cup {cid})
  BY <1>7, <1>8, FS_Subset
<1>10. QED
  BY <1>2, <1>3, <1>4, <1>8, <1>9 DEF W, V

\* The ledger with the lots of the order in it.
LedgerAfter(l, m, lots, price, fee) ==
  IF lots > 0 THEN ApplyFill(l, m, "BUY", lots, price, fee) ELSE l

\* The ledger with a purchase in market m that cost k.
LedgerBought(l, m, k) ==
  /\ SessionLedger(l)
  /\ l.realized = ledger.realized
  /\ OpenTokens(l) \subseteq OpenTokens(ledger) \cup {m}
  /\ l.pos[m].cost = ledger.pos[m].cost + k
  /\ \A u \in Tokens : u # m => l.pos[u].cost = ledger.pos[u].cost


LEMMA LedgerWithLots ==
  ASSUME SessionLedger(ledger), NEW m \in Markets, NEW lots \in Nat, NEW price \in Nat, NEW fee \in Nat,
         NEW l, l = LedgerAfter(ledger, m, lots, price, fee)
  PROVE  LedgerBought(l, m, lots * price)
<1>1. m \in Tokens /\ PracticeToken \in Tokens /\ m # PracticeToken
  BY MarketAssumption, SessionAssumption
<1>2. /\ SoundLedger(ledger) /\ ledger.pos \in [Tokens -> Positions]
      /\ ledger.pos[m].qty >= 0 /\ ledger.pos[m].qty \in Int /\ ledger.pos[m].cost \in Nat
  BY <1>1, PositionType DEF SessionLedger
<1>3. CASE lots > 0
  <2>1. /\ SoundLedger(ledger) /\ m \in Tokens /\ ledger.pos[m].qty >= 0 /\ lots \in Nat
        /\ price \in Nat /\ fee \in Nat /\ l = ApplyFill(ledger, m, "BUY", lots, price, fee)
    BY <1>1, <1>2, <1>3 DEF LedgerAfter
  <2> DEFINE n == WithLots(ledger.pos[m], lots, price)
  <2>2. SoundLedger(l) /\ l.realized = ledger.realized /\ l.pos = [ledger.pos EXCEPT ![m] = n]
    <3>1. SoundLedger(l)
      BY <2>1, BuyIs
    <3>2. l.realized = ledger.realized
      BY <2>1, BuyRealizes
    <3>3. l.pos = [ledger.pos EXCEPT ![m] = n]
      BY <2>1, BuyIs
    <3>4. QED
      BY <3>1, <3>2, <3>3
  <2>3. n.qty = ledger.pos[m].qty + lots /\ n.cost = ledger.pos[m].cost + lots * price
    BY DEF WithLots
  <2> HIDE DEF n
  <2>4. l.pos[m] = n /\ \A u \in Tokens : u # m => l.pos[u] = ledger.pos[u]
    BY <1>1, <1>2, <2>2
  <2>5. n.qty \in Int /\ n.qty >= 0
    BY <1>2, <2>3
  <2>6. SessionLedger(l)
    BY <1>1, <2>2, <2>4, <2>5 DEF SessionLedger
  <2>7. OpenTokens(l) \subseteq OpenTokens(ledger) \cup {m}
    BY <2>4 DEF OpenTokens
  <2>8. QED
    BY <2>2, <2>3, <2>4, <2>6, <2>7 DEF LedgerBought
<1>4. CASE ~(lots > 0)
  <2>1. l = ledger /\ lots = 0
    BY <1>4 DEF LedgerAfter
  <2>2. lots * price = 0
    BY <2>1
  <2>3. QED
    BY <1>2, <2>1, <2>2 DEF LedgerBought
<1>5. QED
  BY <1>3, <1>4

\* The books of the risk engine with the fill in them.
LEMMA RiskWithFill ==
  ASSUME NEW r \in RiskType, NEW m \in Markets, NEW open \in Nat, NEW k \in Nat, NEW pnl, pnl = 0,
         NEW l, SoundLedger(l),
         NEW s, s = SyncFromLedger(NoteFill([r EXCEPT !.openOrders = open], m, k, pnl), l)
  PROVE  /\ s \in RiskType
         /\ s.daily = l.realized
         /\ s.category = [r.category EXCEPT ![Category[m]] = r.category[Category[m]] + k]
         /\ s.openOrders = open
         /\ s.concurrent = r.concurrent \cup {m}
<1> DEFINE a == [r EXCEPT !.openOrders = open]
           b == NoteFill(a, m, k, pnl)
<1>1. /\ a \in RiskType /\ a.category = r.category /\ a.openOrders = open
      /\ a.concurrent = r.concurrent
  BY DEF RiskType
<1> HIDE DEF a
<1>2. pnl \in Int /\ b = NoteFill(a, m, k, pnl)
  OBVIOUS
<1> HIDE DEF b
<1>3. /\ b \in RiskType
      /\ b.category = [a.category EXCEPT ![Category[m]] = a.category[Category[m]] + k]
      /\ b.openOrders = a.openOrders /\ b.concurrent = a.concurrent \cup {m}
  BY <1>1, <1>2, NoteFillIs
<1>4. s = SyncFromLedger(b, l)
  BY DEF a, b
<1>5. /\ s \in RiskType /\ s.daily = l.realized /\ s.category = b.category
      /\ s.openOrders = b.openOrders /\ s.concurrent = b.concurrent
  BY <1>3, <1>4, SyncIs
<1>6. QED
  BY <1>1, <1>3, <1>5

\* One more market fits when it is counted already or the count is below the limit.
LEMMA ConcurrentMore ==
  ASSUME NEW S \in SUBSET Markets, NEW m \in Markets, Cardinality(S) <= MaxConcurrentMarkets,
         m \in S \/ Cardinality(S) < MaxConcurrentMarkets
  PROVE  Cardinality(S \cup {m}) <= MaxConcurrentMarkets
<1>1. IsFiniteSet(S) /\ MaxConcurrentMarkets \in Nat
  BY FiniteMarkets, LimitsAssumption
<1>2. Cardinality(S) \in Nat
  BY <1>1, FS_CardinalityType
<1>3. CASE m \in S
  <2>1. S \cup {m} = S
    BY <1>3
  <2>2. QED
    BY <2>1
<1>4. CASE m \notin S
  <2>1. Cardinality(S \cup {m}) = Cardinality(S) + 1
    BY <1>1, <1>4, FS_AddElement
  <2>2. QED
    BY <1>1, <1>2, <1>4, <2>1
<1>5. QED
  BY <1>3, <1>4

\* The exposure book with the fill in it.
BookAfter(x, m, k) == [x EXCEPT ![m].notional = @ + k]

LEMMA BookWithFill ==
  ASSUME exposure \in ExposureBook, NEW m \in Markets, NEW k \in Nat,
         NEW x, x = BookAfter(exposure, m, k), NEW g
  PROVE  /\ x \in ExposureBook
         /\ NotionalOf(x, InCategory(g))
              = NotionalOf(exposure, InCategory(g)) + (IF Category[m] = g THEN k ELSE 0)
         /\ NotionalOf(exposure, InCategory(g)) \in Nat
<1>1. NatBook(exposure) /\ exposure[m].notional \in Nat
  BY DEF ExposureBook, NatBook
<1> DEFINE n == [notional |-> exposure[m].notional + k, labels |-> {}]
<1>2. x = [exposure EXCEPT ![m] = n]
  <2> DEFINE e == exposure[m]
             more == e.notional + k
  <2>1. x = [exposure EXCEPT ![m] = [e EXCEPT !.notional = more]]
    BY DEF BookAfter
  <2>2. e \in [notional : Nat, labels : {{}}]
    BY DEF ExposureBook
  <2>3. n = [notional |-> more, labels |-> {}]
    OBVIOUS
  <2> HIDE DEF e, more, n
  <2>4. [e EXCEPT !.notional = more] = n
    BY <2>2, <2>3
  <2>5. QED
    BY <2>1, <2>4
<1>3. n \in [notional : Nat, labels : {{}}] /\ n.notional = exposure[m].notional + k
  BY <1>1
<1> HIDE DEF n
<1>4. x \in ExposureBook /\ x[m] = n /\ \A u \in Markets : u # m => x[u] = exposure[u]
  BY <1>2, <1>3 DEF ExposureBook
<1>5. NatBook(x)
  BY <1>4 DEF ExposureBook, NatBook
<1> DEFINE S == InCategory(g)
<1>6. S \in SUBSET Markets /\ (m \in S <=> Category[m] = g)
  BY DEF InCategory
<1> HIDE DEF S
<1>7. NotionalOf(exposure, S) \in Nat
  BY <1>1, <1>6, NotionalNat
<1>8. CASE m \in S
  <2>1. \A u \in S \ {m} : x[u].notional = exposure[u].notional
    BY <1>4, <1>6
  <2>2. NotionalOf(x, S) = NotionalOf(exposure, S) + (x[m].notional - exposure[m].notional)
    BY <1>1, <1>5, <1>6, <1>8, <2>1, NotionalPoint
  <2>3. x[m].notional - exposure[m].notional = k
    BY <1>1, <1>3, <1>4
  <2>4. QED
    BY <1>4, <1>6, <1>7, <1>8, <2>2, <2>3 DEF S
<1>9. CASE m \notin S
  <2>1. \A u \in S : exposure[u].notional = x[u].notional
    BY <1>4, <1>6, <1>9
  <2>2. NotionalOf(exposure, S) = NotionalOf(x, S)
    BY <1>1, <1>5, <1>6, <2>1, NotionalSame
  <2>3. QED
    BY <1>4, <1>6, <1>7, <1>9, <2>2 DEF S
<1>10. QED
  BY <1>8, <1>9

\* The first free slot.
LEMMA FreeSlot ==
  ASSUME FreeCids # {}, NEW cid, cid = CHOOSE c \in FreeCids : \A d \in FreeCids : c <= d
  PROVE  cid \in FreeCids
<1>1. FreeCids \in SUBSET Nat
  BY SessionAssumption DEF FreeCids, Cids
<1>2. \E c \in FreeCids : \A d \in FreeCids : c <= d
  BY <1>1, LeastNat
<1>3. QED
  BY <1>2

\* What decide looked at before the order was accepted.
LEMMA AllowedIs ==
  ASSUME NEW dataOk, NEW m, NEW k, Allows(risk, kill, m, k, dataOk)
  PROVE  /\ kill = "NONE"
         /\ risk.category[Category[m]] + k <= MaxCategoryExposure
         /\ ~LossBreached(risk)
         /\ risk.openOrders < MaxOpenOrders
         /\ m \in risk.concurrent \/ Cardinality(risk.concurrent) < MaxConcurrentMarkets
  BY DEF Allows, WithinLimitsBeforeDrawdown, WithinLimitsAfterDrawdown

\* A trade adds its notional to every book of its category at once, and no limit that
\* decide looked at is passed.
LEMMA CommitTradeOK ==
  ASSUME IInv, NEW dataOk \in BOOLEAN, CommitTrade(dataOk)
  PROVE  IInv'
<1> DEFINE row == Head(batch.rows)
           m == row.market
           lots == FilledLots(row.shares)
           k == lots * row.price
           cid == CHOOSE c \in FreeCids : \A d \in FreeCids : c <= d
           n == TradeOrder(m, row.price, row.shares, lots)
           h == Category[m]
<1>1. /\ batch.phase = "committing" /\ batch.rows # <<>> /\ FreeCids # {}
      /\ Allows(risk, kill, m, Notional(row), dataOk)
      /\ orders' = TableAfter(orders, cid, n)
      /\ ledger' = LedgerAfter(ledger, m, lots, row.price, lots * FeePerShare)
      /\ exposure' = BookAfter(exposure, m, k)
      /\ kill' = EnforceSessionLimits(kill, risk')
      /\ batch' = Committed
      /\ UNCHANGED <<marks, cycles, settled>>
  BY DEF CommitTrade, TradeOrder, TableAfter, LedgerAfter, BookAfter
<1>2. risk' = SyncFromLedger(NoteFill([risk EXCEPT !.openOrders = Cardinality(Working(orders'))],
                                      m, k, ledger'.realized - ledger.realized), ledger')
  BY DEF CommitTrade, Recount
<1> DEFINE os == orders'
           l == ledger'
           r == risk'
           x == exposure'
<1>3. BatchOK(batch') /\ row \in FitRow
  BY <1>1, CommittedIs DEF IInv
<1> HIDE DEF row
<1>4. /\ m \in Markets /\ m \in Tokens /\ row.price \in Nat /\ row.shares \in Nat
      /\ Notional(row) = row.shares * row.price
      /\ row.shares * row.price \in Nat
  BY <1>3, FitIs, MarketAssumption
<1>5. lots \in Nat /\ lots <= row.shares /\ k \in Nat /\ k <= Notional(row)
  BY <1>4, FilledLotsWithin
<1>6. cid \in FreeCids
  BY <1>1, FreeSlot
<1> HIDE DEF cid, lots, m
<1>7. n \in SessionOrder /\ n.status # "NONE" /\ n.token = m /\ n.filled * n.price = k
  <2>1. n \in SessionOrder /\ n.status # "NONE" /\ n.token = m /\ n.price = row.price /\ n.filled = lots
    BY <1>4, <1>5, TradeOrderIs
  <2>2. QED
    BY <2>1
<1> HIDE DEF n, k
<1>8. /\ SessionOrders(os, settled)
      /\ \A c \in Working(os) : c = cid \/ (c \in Working(orders) /\ os[c] = orders[c])
      /\ os[cid] = n
      /\ Cardinality(Working(os)) \in Nat
      /\ Cardinality(Working(os)) <= Cardinality(Working(orders)) + 1
      /\ Cardinality(Working(orders)) \in Nat
  <2>1. /\ SessionOrders(orders, settled) /\ cid \in FreeCids /\ n \in SessionOrder
        /\ n.status # "NONE" /\ os = TableAfter(orders, cid, n)
    BY <1>1, <1>6, <1>7 DEF IInv
  <2> HIDE DEF os
  <2>2. QED
    BY <2>1, TableWithOrder
<1>9. /\ SessionLedger(l) /\ l.realized = ledger.realized
      /\ OpenTokens(l) \subseteq OpenTokens(ledger) \cup {m}
      /\ l.pos[m].cost = ledger.pos[m].cost + k
      /\ \A u \in Tokens : u # m => l.pos[u].cost = ledger.pos[u].cost
  <2> DEFINE fee == lots * FeePerShare
  <2>1. fee \in Nat
    BY <1>5, SessionAssumption
  <2>2. l = LedgerAfter(ledger, m, lots, row.price, fee)
    BY <1>1
  <2> HIDE DEF fee, l
  <2> DEFINE price == row.price
  <2>3. /\ SessionLedger(ledger) /\ m \in Markets /\ lots \in Nat /\ price \in Nat /\ fee \in Nat
        /\ l = LedgerAfter(ledger, m, lots, price, fee)
        /\ k = lots * price
    BY <1>4, <1>5, <2>1, <2>2 DEF IInv, k
  <2> HIDE DEF price
  <2>4. LedgerBought(l, m, lots * price)
    BY <2>3, LedgerWithLots
  <2>5. QED
    BY <2>3, <2>4 DEF LedgerBought
<1>10. /\ r \in RiskType /\ r.daily = l.realized
       /\ r.category = [risk.category EXCEPT ![h] = risk.category[h] + k]
       /\ r.openOrders = Cardinality(Working(os))
       /\ r.concurrent = risk.concurrent \cup {m}
  <2> DEFINE pnl == l.realized - ledger.realized
             open == Cardinality(Working(os))
  <2>1. pnl = 0 /\ open \in Nat
    BY <1>8, <1>9, PositionType DEF IInv, SessionLedger
  <2>2. SoundLedger(l) /\ risk \in RiskType /\ m \in Markets /\ k \in Nat
    BY <1>4, <1>5, <1>9 DEF SessionLedger, IInv, RiskOK
  <2>3. r = SyncFromLedger(NoteFill([risk EXCEPT !.openOrders = open], m, k, pnl), l)
    BY <1>2
  <2> HIDE DEF pnl, r, l
  <2>4. open = Cardinality(Working(os))
    OBVIOUS
  <2> HIDE DEF open, os
  <2>5. /\ r \in RiskType
        /\ r.daily = l.realized
        /\ r.category = [risk.category EXCEPT ![Category[m]] = risk.category[Category[m]] + k]
        /\ r.openOrders = open
        /\ r.concurrent = risk.concurrent \cup {m}
    BY <2>1, <2>2, <2>3, RiskWithFill
  <2>6. QED
    BY <2>4, <2>5
<1>11. /\ risk.category[h] + Notional(row) <= MaxCategoryExposure
       /\ risk.openOrders < MaxOpenOrders
       /\ m \in risk.concurrent \/ Cardinality(risk.concurrent) < MaxConcurrentMarkets
  BY <1>1, AllowedIs
<1>12. /\ risk \in RiskType /\ risk.concurrent \in SUBSET Markets /\ risk.openOrders \in Nat
       /\ risk.category \in [Categories -> Nat] /\ h \in Categories
       /\ MaxCategoryExposure \in Nat /\ MaxOpenOrders \in Nat
  BY <1>4, LimitsAssumption DEF IInv, RiskOK, RiskType, Categories
<1>13. RiskOK(r, l, os)
  <2>1. Cardinality(Working(os)) <= MaxOpenOrders
    <3>1. Cardinality(Working(orders)) <= risk.openOrders
      BY DEF IInv, RiskOK
    <3>2. QED
      BY <1>8, <1>11, <1>12, <3>1
  <2>2. Cardinality(r.concurrent) <= MaxConcurrentMarkets
    <3>1. Cardinality(risk.concurrent) <= MaxConcurrentMarkets
      BY DEF IInv, RiskOK
    <3>2. QED
      BY <1>4, <1>10, <1>11, <1>12, <3>1, ConcurrentMore
  <2>3. OpenTokens(l) \subseteq r.concurrent
    BY <1>9, <1>10 DEF IInv, RiskOK
  <2>4. \A c \in Working(os) : os[c].token \in r.concurrent
    BY <1>7, <1>8, <1>10 DEF IInv, RiskOK
  <2>5. Cardinality(Working(os)) <= r.openOrders
    BY <1>8, <1>10
  <2>6. QED
    BY <1>10, <2>1, <2>2, <2>3, <2>4, <2>5 DEF RiskOK
<1>14. exposure \in ExposureBook
  BY DEF IInv
<1>15. x \in ExposureBook
  BY <1>1, <1>4, <1>5, <1>14, BookWithFill
<1>16. ASSUME NEW g \in Categories
       PROVE  Booked(r, l, os, x, settled', g)
  <2> DEFINE more == IF h = g THEN k ELSE 0
  <2>1. Booked(risk, ledger, orders, exposure, settled, g)
    BY DEF IInv, BookedIn
  <2>2. BoughtIn(os, settled, g) = BoughtIn(orders, settled, g) + more
    <3>1. SessionOrders(orders, settled) /\ cid \in Cids /\ orders[cid].status = "NONE"
      BY <1>6 DEF IInv, FreeCids, Known
    <3>2. n \in SessionOrder /\ os = TableAfter(orders, cid, n)
      BY <1>1, <1>7
    <3> HIDE DEF os
    <3>3. /\ BoughtIn(orders, settled, g) \in Int
          /\ BoughtIn(os, settled, g)
               = BoughtIn(orders, settled, g) + (IF Category[n.token] = g THEN n.filled * n.price ELSE 0)
      BY <3>1, <3>2, BoughtMore
    <3>4. QED
      BY <1>7, <3>3
  <2>3. NotionalOf(x, InCategory(g)) = NotionalOf(exposure, InCategory(g)) + more
    <3>1. m \in Markets /\ k \in Nat /\ x = BookAfter(exposure, m, k)
      BY <1>1, <1>4, <1>5
    <3> HIDE DEF x
    <3>2. /\ x \in ExposureBook
          /\ NotionalOf(x, InCategory(g))
               = NotionalOf(exposure, InCategory(g)) + (IF Category[m] = g THEN k ELSE 0)
          /\ NotionalOf(exposure, InCategory(g)) \in Nat
      BY <3>1, <1>14, BookWithFill
    <3>3. QED
      BY <3>2
  <2>4. HeldIn(ledger, g) \in Int /\ HeldIn(l, g) = HeldIn(ledger, g) + more
    <3>1. SoundLedger(ledger) /\ SoundLedger(l)
      BY <1>9 DEF IInv, SessionLedger
    <3> HIDE DEF l
    <3>2. QED
      BY <1>4, <1>5, <1>9, <3>1, HeldMore
  <2>5. r.category[g] = risk.category[g] + more
    BY <1>10, <1>12, <1>5
  <2>6. more \in Nat /\ risk.category[g] \in Nat /\ (h = g => more = k) /\ (h # g => more = 0)
    BY <1>5, <1>12
  <2> HIDE DEF more
  <2>7. risk.category[g] + more <= MaxCategoryExposure
    <3>1. CASE h = g
      <4>1. Notional(row) \in Nat
        BY <1>4
      <4>2. QED
        BY <1>5, <1>11, <1>12, <2>6, <3>1, <4>1
    <3>2. CASE h # g
      BY <1>12, <2>1, <2>6, <3>2 DEF Booked
    <3>3. QED
      BY <3>1, <3>2
  <2>8. HeldIn(ledger, g) + more <= risk.category[g] + more
    BY <2>1, <2>4, <2>6 DEF Booked
  <2>9. QED
    BY <1>1, <2>1, <2>2, <2>3, <2>4, <2>5, <2>7, <2>8 DEF Booked
<1>17. BookedIn(r, l, os, x, settled')
  BY <1>16 DEF BookedIn
<1>18. KillOK(kill')
  BY <1>1, EnforceIs DEF IInv
<1>19. /\ SessionOrders(os, settled') /\ marks' \in [Tokens -> Nat \cup {NoMark}]
       /\ cycles' \in 0..MaxCycles
  BY <1>1, <1>8 DEF IInv
<1>20. QED
  BY <1>3, <1>9, <1>13, <1>15, <1>17, <1>18, <1>19 DEF IInv

-----------------------------------------------------------------------------
(* Every step *)

LEMMA NextIInv ==
  ASSUME IInv, Next
  PROVE  IInv'
<1>1. CASE \E n \in 1..MaxBatch : \E S \in kSubset(n, Markets) :
             \E markets \in SetToSeqs(S) : StartCycle(markets)
  BY <1>1, StartCycleOK
<1>2. CASE \E m \in Markets : StartSingle(m)
  BY <1>2, StartSingleOK
<1>3. CASE ScoreStale
  BY <1>3, ScoreStaleOK
<1>4. CASE ScoreFiltered
  BY <1>4, ScoreFilteredOK
<1>5. CASE \E price \in Prices, wanted \in SharesWanted : ScoreCandidate(price, wanted)
  BY <1>5, ScoreCandidateOK
<1>6. CASE Allocate
  BY <1>6, AllocateOK
<1>7. CASE CommitSkip
  BY <1>7, CommitSkipOK
<1>8. CASE \E dataOk \in BOOLEAN : CommitVeto(dataOk) \/ CommitTrade(dataOk)
  BY <1>8, CommitVetoOK, CommitTradeOK
<1>9. CASE CommitsDone
  BY <1>9, CommitsDoneOK
<1>10. CASE \E price \in MarkPrices : RememberMark(price)
  BY <1>10, RememberMarkOK
<1>11. CASE Flatten
  BY <1>11, FlattenOK
<1>12. CASE EndRecipe
  BY <1>12, EndRecipeOK
<1>13. CASE \E size \in LotSizes, open \in Prices, close \in MarkPrices :
              \E adverse, favorable \in MarkPrices : SoakLot(size, open, adverse, favorable, close)
  BY <1>13, SoakLotOK
<1>14. CASE \E size \in LotSizes, open \in Prices, close \in MarkPrices :
              \E probe \in Markets : KillDrill(size, open, close, probe)
  BY <1>14, KillDrillOK
<1>15. CASE PositionMismatch \/ Reset
  BY <1>15, SwitchOK
<1>16. QED
  BY <1>1, <1>2, <1>3, <1>4, <1>5, <1>6, <1>7, <1>8, <1>9, <1>10, <1>11, <1>12, <1>13, <1>14, <1>15
     DEF Next

LEMMA StutterIInv ==
  ASSUME IInv, UNCHANGED vars
  PROVE  IInv'
<1>1. UNCHANGED <<ledger, orders, risk, exposure, kill, marks, batch, cycles, settled>>
  BY DEF vars
<1>2. KillOK(kill') /\ BatchOK(batch') /\ cycles' \in 0..MaxCycles
  BY <1>1 DEF IInv
<1>3. QED
  BY <1>1, <1>2, CallStep

LEMMA InvariantIInv == Spec => []IInv
<1>1. Init => IInv
  BY InitIInv
<1>2. IInv /\ [Next]_vars => IInv'
  BY NextIInv, StutterIInv
<1>3. QED
  BY <1>1, <1>2, PTL DEF Spec

\* An action of the session is one of those that leave the orders alone, sweep them, or
\* accept one.
LEMMA OrderSteps ==
  ASSUME Next
  PROVE  \/ orders' = orders
         \/ orders' = Swept
         \/ \E dataOk \in BOOLEAN : CommitTrade(dataOk)
<1>1. CASE \E n \in 1..MaxBatch : \E S \in kSubset(n, Markets) :
             \E markets \in SetToSeqs(S) : StartCycle(markets)
  BY <1>1 DEF StartCycle, Calls
<1>2. CASE \E m \in Markets : StartSingle(m)
  BY <1>2 DEF StartSingle, Calls
<1>3. CASE ScoreStale
  BY <1>3 DEF ScoreStale
<1>4. CASE ScoreFiltered \/ Allocate \/ CommitSkip \/ CommitsDone \/ PositionMismatch \/ Reset
  BY <1>4 DEF ScoreFiltered, Allocate, CommitSkip, CommitsDone, PositionMismatch, Reset
<1>5. CASE \E price \in Prices, wanted \in SharesWanted : ScoreCandidate(price, wanted)
  BY <1>5 DEF ScoreCandidate
<1>6. CASE \E dataOk \in BOOLEAN : CommitVeto(dataOk) \/ CommitTrade(dataOk)
  BY <1>6 DEF CommitVeto
<1>7. CASE \E price \in MarkPrices : RememberMark(price)
  BY <1>7 DEF RememberMark
<1>8. CASE Flatten \/ EndRecipe
  BY <1>8 DEF Flatten, EndRecipe
<1>9. CASE \E size \in LotSizes, open \in Prices, close \in MarkPrices :
             \E adverse, favorable \in MarkPrices : SoakLot(size, open, adverse, favorable, close)
  BY <1>9 DEF SoakLot, Calls
<1>10. CASE \E size \in LotSizes, open \in Prices, close \in MarkPrices :
              \E probe \in Markets : KillDrill(size, open, close, probe)
  BY <1>10 DEF KillDrill, Calls
<1>11. QED
  BY <1>1, <1>2, <1>3, <1>4, <1>5, <1>6, <1>7, <1>8, <1>9, <1>10 DEF Next

\* An order is accepted only with the switch open and the loss limits not reached.
LEMMA AcceptedOnlyOpen ==
  ASSUME NEW dataOk \in BOOLEAN, CommitTrade(dataOk)
  PROVE  kill = "NONE" /\ ~LossBreached(risk)
  BY AllowedIs DEF CommitTrade

\* The steps that look at the engine's result enforce its limits; the others keep it.
LEMMA ResultSteps ==
  ASSUME IInv, Next
  PROVE  \/ risk' = risk
         \/ SameResult(risk, risk')
         \/ \E r : SameResult(r, risk') /\ kill' = EnforceSessionLimits(kill, r)
<1>1. CASE \E n \in 1..MaxBatch : \E S \in kSubset(n, Markets) :
             \E markets \in SetToSeqs(S) : StartCycle(markets)
  BY <1>1 DEF StartCycle
<1>2. CASE \E m \in Markets : StartSingle(m)
  BY <1>2 DEF StartSingle
<1>3. CASE \/ ScoreStale \/ ScoreFiltered \/ Allocate \/ CommitSkip \/ CommitsDone
           \/ PositionMismatch \/ Reset
  BY <1>3 DEF ScoreStale, ScoreFiltered, Allocate, CommitSkip, CommitsDone, PositionMismatch, Reset
<1>4. CASE \E price \in Prices, wanted \in SharesWanted : ScoreCandidate(price, wanted)
  BY <1>4 DEF ScoreCandidate
<1>5. CASE \E price \in MarkPrices : RememberMark(price)
  BY <1>5 DEF RememberMark
<1>6. CASE \E dataOk \in BOOLEAN : CommitVeto(dataOk)
  <2> DEFINE rejects == risk.rejects + 1
  <2>1. risk' = [risk EXCEPT !.rejects = rejects]
    BY <1>6 DEF CommitVeto
  <2>2. risk \in RiskType
    BY DEF IInv, RiskOK
  <2> HIDE DEF rejects
  <2>3. SameResult(risk, risk')
    BY <2>1, <2>2 DEF RiskType, SameResult
  <2>4. QED
    BY <2>3
<1>7. ASSUME kill' = EnforceSessionLimits(kill, risk')
      PROVE  \E r : SameResult(r, risk') /\ kill' = EnforceSessionLimits(kill, r)
  <2>1. SameResult(risk', risk')
    BY DEF SameResult
  <2>2. QED
    BY <1>7, <2>1
<1>8. CASE \E dataOk \in BOOLEAN : CommitTrade(dataOk)
  <2>1. kill' = EnforceSessionLimits(kill, risk')
    BY <1>8 DEF CommitTrade
  <2>2. QED
    BY <1>7, <2>1
<1>9. CASE Flatten
  <2>1. kill' = EnforceSessionLimits(kill, risk')
    BY <1>9 DEF Flatten, Tells
  <2>2. QED
    BY <1>7, <2>1
<1>10. CASE \E size \in LotSizes, open \in Prices, close \in MarkPrices :
              \E adverse, favorable \in MarkPrices : SoakLot(size, open, adverse, favorable, close)
  <2>1. kill' = EnforceSessionLimits(kill, risk')
    BY <1>10 DEF SoakLot, Tells
  <2>2. QED
    BY <1>7, <2>1
<1>11. CASE \E size \in LotSizes, open \in Prices, close \in MarkPrices :
              \E probe \in Markets : KillDrill(size, open, close, probe)
  <2>1. kill' = EnforceSessionLimits(kill, risk')
    BY <1>11 DEF KillDrill, Tells
  <2>2. QED
    BY <1>7, <2>1
<1>12. CASE EndRecipe
  <2>1. PICK flat \in Flattened :
          /\ risk' = ResetFlatRisk(SyncFromLedger(risk, flat), flat)
          /\ kill' = EnforceSessionLimits(kill, SyncFromLedger(risk, flat))
    BY <1>12 DEF EndRecipe
  <2>2. OpenTokens(flat) = {} /\ SoundLedger(flat) /\ risk \in RiskType
    BY FlattenedIs DEF IInv, SessionLedger, RiskOK
  <2> DEFINE s == SyncFromLedger(risk, flat)
  <2>3. s \in RiskType /\ s = SyncFromLedger(risk, flat)
    BY <2>2, SyncIs
  <2>4. risk' = ResetFlatRisk(s, flat) /\ kill' = EnforceSessionLimits(kill, s)
    BY <2>1
  <2> HIDE DEF s
  <2>5. SameResult(s, risk')
    BY <2>2, <2>3, <2>4, ResetIs
  <2>6. QED
    BY <2>4, <2>5
<1>13. QED
  BY <1>1, <1>2, <1>3, <1>4, <1>5, <1>6, <1>8, <1>9, <1>10, <1>11, <1>12 DEF Next

-----------------------------------------------------------------------------
(* The theorems *)

\* Every variable of the session keeps its type for every number of markets, orders and
\* calls: the pipeline never leaves an order CREATED, SUBMITTED or CANCEL_REQUESTED.
THEOREM TypeCorrect == Spec => []TypeOK
<1>1. IInv => TypeOK
  BY IInvTypes
<1>2. QED
  BY <1>1, InvariantIInv, PTL

\* The open orders never exceed max_open_orders and never what the engine counts,
\* although the count is refreshed by trades only and cancels are not told to it.
THEOREM OpenOrdersCorrect == Spec => []OpenOrdersCapped
<1>1. IInv => OpenOrdersCapped
  BY IInvCaps
<1>2. QED
  BY <1>1, InvariantIInv, PTL

\* Every market with a position or a working order is counted as concurrent, and the
\* count stays within max_concurrent_markets.
THEOREM ConcurrentMarketsCorrect == Spec => []ConcurrentMarketsCapped
<1>1. IInv => ConcurrentMarketsCapped
  BY IInvCaps
<1>2. QED
  BY <1>1, InvariantIInv, PTL

\* The engine's category exposure, the order table and the exposure book of the allocator
\* agree on what was bought in each category; it covers what is held there and is within
\* max_category_exposure.
THEOREM CategoryCorrect == Spec => []CategoryCountsEveryPurchase
<1>1. IInv => CategoryCountsEveryPurchase
  BY IInvCaps
<1>2. QED
  BY <1>1, InvariantIInv, PTL

\* No step that starts with a tripped switch creates or fills an order, whichever market's
\* step tripped it and whatever was scored and allocated before.
THEOREM NoOrderWhileTrippedCorrect == Spec => NoOrderWhileTripped
<1> DEFINE Kept == kill # "NONE" => \A c \in Cids :
                     /\ orders[c].status = "NONE" => orders'[c].status = "NONE"
                     /\ orders'[c].filled = orders[c].filled
<1>1. ASSUME IInv, [Next]_vars PROVE [Kept]_vars
  <2>1. CASE UNCHANGED vars
    BY <2>1
  <2>2. CASE orders' = orders
    BY <2>2
  <2>3. CASE orders' = Swept
    <3>1. \A c \in Cids : SameTerms(orders[c], orders'[c])
      BY <1>1, <2>3, SweptIs DEF IInv
    <3>2. QED
      BY <3>1 DEF SameTerms
  <2>4. CASE \E dataOk \in BOOLEAN : CommitTrade(dataOk)
    <3>1. kill = "NONE"
      BY <2>4, AcceptedOnlyOpen
    <3>2. QED
      BY <3>1
  <2>5. QED
    BY <1>1, <2>1, <2>2, <2>3, <2>4, OrderSteps
<1>2. QED
  BY <1>1, InvariantIInv, PTL DEF Spec, NoOrderWhileTripped

\* The engine's daily result is the ledger's realized P&L after every step, and no order is
\* accepted once the realized loss reaches max_daily_loss, also after an operator's reset.
THEOREM LossStopsTradingCorrect == Spec => LossStopsTrading
<1> DEFINE Stops == /\ risk'.daily = ledger'.realized
                    /\ Traded => ledger.realized > -MaxDailyLoss
<1>1. ASSUME IInv, IInv', [Next]_vars PROVE [Stops]_vars
  <2>1. CASE UNCHANGED vars
    BY <2>1
  <2>2. CASE Next
    <3>1. risk'.daily = ledger'.realized
      BY <1>1 DEF IInv, RiskOK
    <3>2. \A c \in Cids : ~Known(c) => orders[c].filled = 0
      BY <1>1 DEF IInv, SessionOrders, Known, Absent
    <3>3. ASSUME Traded PROVE ledger.realized > -MaxDailyLoss
      <4>1. CASE orders' = orders
        BY <3>2, <3>3, <4>1 DEF Traded
      <4>2. CASE orders' = Swept
        <5>1. \A c \in Cids : SameTerms(orders[c], orders'[c])
          BY <1>1, <4>2, SweptIs DEF IInv
        <5>2. QED
          BY <3>2, <3>3, <5>1 DEF Traded, SameTerms
      <4>3. CASE \E dataOk \in BOOLEAN : CommitTrade(dataOk)
        <5>1. ~(risk.daily <= -MaxDailyLoss)
          BY <4>3, AcceptedOnlyOpen DEF LossBreached
        <5>2. risk.daily = ledger.realized /\ risk.daily \in Int /\ MaxDailyLoss \in Nat
          BY <1>1, LimitsAssumption DEF IInv, RiskOK, RiskType
        <5>3. QED
          BY <5>1, <5>2
      <4>4. QED
        BY <2>2, <4>1, <4>2, <4>3, OrderSteps
    <3>4. QED
      BY <3>1, <3>3
  <2>3. QED
    BY <1>1, <2>1, <2>2
<1>2. QED
  BY <1>1, InvariantIInv, PTL DEF Spec, LossStopsTrading

\* A step that tells the risk engine of a new equity or daily result never ends with a
\* breached loss or drawdown limit and an open switch.
THEOREM BreachTripsCorrect == Spec => BreachTrips
<1> DEFINE Moved == risk'.equity # risk.equity \/ risk'.daily # risk.daily
           Trips == Moved /\ (LossBreached(risk') \/ DrawdownBreached(risk')) => kill' # "NONE"
<1>1. ASSUME IInv, [Next]_vars PROVE [Trips]_vars
  <2>1. CASE UNCHANGED vars
    BY <2>1
  <2>2. CASE risk' = risk
    BY <2>2
  <2>3. CASE SameResult(risk, risk')
    BY <2>3 DEF SameResult
  <2>4. CASE \E r : SameResult(r, risk') /\ kill' = EnforceSessionLimits(kill, r)
    <3>1. PICK r : SameResult(r, risk') /\ kill' = EnforceSessionLimits(kill, r)
      BY <2>4
    <3>2. /\ LossBreached(risk') <=> LossBreached(r)
          /\ DrawdownBreached(risk') <=> DrawdownBreached(r)
      BY <3>1 DEF SameResult, LossBreached, DrawdownBreached
    <3>3. QED
      BY <3>1, <3>2 DEF EnforceSessionLimits
  <2>5. QED
    BY <1>1, <2>1, <2>2, <2>3, <2>4, ResultSteps
<1>2. QED
  BY <1>1, InvariantIInv, PTL DEF Spec, BreachTrips

=============================================================================
