-------------------------- MODULE EvaluationProofs --------------------------
(***************************************************************************)
(* What Evaluation promises of a decision, for all listings, news, prints  *)
(* and game states: a candidate was decided on fresh data, and an event    *)
(* moves a probability once.  The argument follows one decision through    *)
(* the gates: Decided is what every gate leaves true of it.                *)
(***************************************************************************)
EXTENDS Evaluation, RulesProofs, SequenceTheorems

-----------------------------------------------------------------------------
(* Walks over the levels of a book *)

LEMMA LevelIs ==
  ASSUME NEW side \in Seq(Levels), NEW n \in 1..Len(side)
  PROVE  side[n].size \in Nat /\ side[n].price \in Nat /\ side[n].price > 0
<1>1. side[n] \in Levels
  OBVIOUS
<1>2. QED
  BY <1>1 DEF Levels

\* The size of the first n levels of a side.
Sizes(side) == [i \in DOMAIN side |-> side[i].size]
Held(side, n) == SumUpTo(Sizes(side), n)

LEMMA HeldIs ==
  ASSUME NEW side \in Seq(Levels)
  PROVE  /\ Held(side, 0) = 0
         /\ \A n \in 0..Len(side) : Held(side, n) \in Nat
         /\ \A n \in 1..Len(side) : Held(side, n) = Held(side, n - 1) + side[n].size
<1>1. \A n \in 1..Len(side) : Sizes(side)[n] = side[n].size /\ Sizes(side)[n] \in Nat
  BY LevelIs DEF Sizes
<1>2. Held(side, 0) = 0
  BY SumZero DEF Held
<1>3. ASSUME NEW n \in 0..Len(side) PROVE Held(side, n) \in Nat
  <2>1. n \in Nat /\ \A i \in 1..n : Sizes(side)[i] \in Nat
    BY <1>1
  <2>2. QED
    BY <2>1, SumNat DEF Held
<1>4. ASSUME NEW n \in 1..Len(side) PROVE Held(side, n) = Held(side, n - 1) + side[n].size
  <2>1. n - 1 \in Nat /\ (n - 1) + 1 = n
    OBVIOUS
  <2>2. Summable(Sizes(side), (n - 1) + 1)
    BY <1>1, <2>1 DEF Summable
  <2>3. SumUpTo(Sizes(side), (n - 1) + 1) = SumUpTo(Sizes(side), n - 1) + Sizes(side)[(n - 1) + 1]
    BY <2>1, <2>2, SumStep
  <2>4. QED
    BY <1>1, <2>1, <2>3 DEF Held
<1>5. QED
  BY <1>2, <1>3, <1>4

LEMMA DepthIs ==
  ASSUME NEW side \in Seq(Levels), NEW n \in Nat
  PROVE  /\ Depth(side, n) = Held(side, Lesser(n, Len(side)))
         /\ Lesser(n, Len(side)) \in 0..Len(side)
BY DEF Depth, Held, Sizes, Lesser

\* The walk of WalkShares, level by level.
Bought == [cost : Nat, filled : Nat]
NoShares == [cost |-> 0, filled |-> 0]

LEMMA TakeSharesIs ==
  ASSUME NEW s \in Bought, NEW level \in Levels, NEW shares \in Nat, s.filled <= shares,
         NEW take, take = Lesser(shares - s.filled, level.size)
  PROVE  /\ take \in Nat /\ s.filled + take <= shares
         /\ take * level.price \in Nat /\ take * level.price >= take
         /\ TakeShares(s, level, shares) \in Bought
         /\ TakeShares(s, level, shares).cost = s.cost + take * level.price
         /\ TakeShares(s, level, shares).filled = s.filled + take
<1>1. level.size \in Nat /\ level.price \in Nat /\ level.price > 0 /\ s.cost \in Nat /\ s.filled \in Nat
  BY DEF Levels, Bought
<1>2. take \in Nat /\ s.filled + take <= shares
  BY <1>1 DEF Lesser
<1>3. take * level.price \in Nat /\ take * level.price >= take
  <2> DEFINE price == level.price
  <2>1. price \in Nat /\ price > 0
    BY <1>1
  <2> HIDE DEF price
  <2>2. take * price \in Nat /\ take * (price - 1) \in Nat /\ take * price = take + take * (price - 1)
    BY <1>2, <2>1
  <2>3. QED
    BY <1>2, <2>2 DEF price
<1>4. TakeShares(s, level, shares) = [cost |-> s.cost + take * level.price, filled |-> s.filled + take]
  BY DEF TakeShares
<1>5. QED
  BY <1>1, <1>2, <1>3, <1>4 DEF Bought

LEMMA SharesWalked ==
  ASSUME NEW side \in Seq(Levels), NEW shares \in Nat
  PROVE  \E p : /\ p[0] = NoShares
                /\ \A n \in 1..Len(side) : p[n] = TakeShares(p[n - 1], side[n], shares)
                /\ \A n \in 0..Len(side) : p[n] \in Bought /\ p[n].filled <= shares
                /\ WalkShares(side, shares) = p[Len(side)]
<1> DEFINE N == Len(side)
           S == {s \in Bought : s.filled <= shares}
           X == [n \in 0..N |-> S]
           Taken(s, n) == TakeShares(s, side[n], shares)
           step == [n \in 1..N |-> [s \in S |-> Taken(s, n)]]
           Runs(p) == p = [n \in 0..N |-> IF n = 0 THEN NoShares ELSE Taken(p[n - 1], n)]
<1>0. N \in Nat
  OBVIOUS
<1>1. NoShares \in S
  BY DEF NoShares, Bought
<1>2. ASSUME NEW n \in 1..N, NEW s \in S PROVE Taken(s, n) \in S
  <2>1. side[n] \in Levels
    OBVIOUS
  <2> DEFINE take == Lesser(shares - s.filled, side[n].size)
             next == TakeShares(s, side[n], shares)
  <2>2. s.filled + take <= shares /\ next \in Bought /\ next.filled = s.filled + take
    BY <2>1, TakeSharesIs
  <2> HIDE DEF take, next
  <2>3. next \in S
    BY <2>2
  <2>4. QED
    BY <2>3 DEF next
<1> DEFINE upTo == CHOOSE p : Runs(p)
<1>3. WalkShares(side, shares) = upTo[N]
  BY Zenon DEF WalkShares, NoShares
<1> HIDE DEF Taken, S
<1>4. \E p : Runs(p) /\ \A n \in 0..N : p[n] \in S
  <2>1. Leads(step, X, N)
    <3>1. ASSUME NEW n \in 1..N PROVE step[n] \in [S -> S] /\ X[n - 1] = S /\ X[n] = S
      BY <1>2
    <3> HIDE DEF X, step
    <3>2. QED
      BY <3>1 DEF Leads
  <2>2. NoShares \in X[0]
    BY <1>0, <1>1
  <2>3. \A n \in 0..N : X[n] = S
    OBVIOUS
  <2> HIDE DEF X, step, N
  <2>4. PICK p : StepsAlong(p, NoShares, step, N) /\ \A n \in 0..N : p[n] \in X[n]
    BY <1>0, <2>1, <2>2, Iterates
  <2>5. ASSUME NEW n \in 0..N, n # 0 PROVE step[n][p[n - 1]] = Taken(p[n - 1], n)
    <3>1. n \in 1..N /\ n - 1 \in 0..N
      BY <1>0, <2>5
    <3>2. p[n - 1] \in S
      BY <2>3, <2>4, <3>1
    <3>3. QED
      BY <3>1, <3>2 DEF step
  <2>6. [n \in 0..N |-> IF n = 0 THEN NoShares ELSE step[n][p[n - 1]]]
          = [n \in 0..N |-> IF n = 0 THEN NoShares ELSE Taken(p[n - 1], n)]
    BY <2>5, Zenon
  <2>7. Runs(p)
    BY <2>4, <2>6, Zenon DEF StepsAlong
  <2> HIDE DEF Runs
  <2>8. QED
    BY <2>3, <2>4, <2>7
<1>5. Runs(upTo)
  BY <1>4
<1> HIDE DEF upTo, N
<1>6. upTo[0] = NoShares
  BY <1>0, <1>5
<1>7. ASSUME NEW n \in 1..N PROVE upTo[n] = Taken(upTo[n - 1], n)
  <2>1. n \in 0..N /\ n # 0
    BY <1>0
  <2>2. QED
    BY <1>5, <2>1
<1> DEFINE T == {n \in 0..N : upTo[n] \in S}
<1>8. T = 0..N
  <2>1. 0 \in T
    BY <1>0, <1>1, <1>6
  <2>2. ASSUME NEW n \in 1..N, n - 1 \in T PROVE n \in T
    <3>1. n \in 0..N
      BY <1>0
    <3>2. QED
      BY <1>2, <1>7, <2>2, <3>1
  <2>3. T \in SUBSET (0..N)
    OBVIOUS
  <2> HIDE DEF T
  <2>4. QED
    BY <1>0, <2>1, <2>2, <2>3, Reaches
<1>9. \A n \in 0..N : upTo[n] \in Bought /\ upTo[n].filled <= shares
  BY <1>8 DEF S
<1>10. QED
  BY <1>3, <1>6, <1>7, <1>9 DEF N, Taken

\* The walk of WalkBook, level by level.
Walks == [cost : Nat, left : Nat, whole : Nat, part : Nat, price : Nat \ {0}]
Fund(notional) == [EmptyWalk EXCEPT !.left = notional]

LEMMA WalkLevelIs ==
  ASSUME NEW w \in Walks, NEW level \in Levels
  PROVE  WalkLevel(w, level) \in Walks
<1> DEFINE worth == level.price * level.size
           spent == w.cost + worth  rest == w.left - worth  taken == w.whole + level.size
           last  == w.cost + w.left  left == w.left  price == level.price
           all  == [w EXCEPT !.cost = spent, !.left = rest, !.whole = taken]
           some == [w EXCEPT !.cost = last, !.left = 0, !.part = left, !.price = price]
<1>1. /\ level.size \in Nat /\ level.price \in Nat \ {0}
      /\ w.cost \in Nat /\ w.left \in Nat /\ w.whole \in Nat
  BY DEF Levels, Walks
<1>2. worth \in Nat
  BY <1>1
<1>3. WalkLevel(w, level) = IF w.left = 0 \/ level.price <= 0 \/ level.size <= 0 THEN w
                            ELSE IF worth <= w.left THEN all ELSE some
  BY Zenon DEF WalkLevel
<1>4. spent \in Nat /\ taken \in Nat /\ last \in Nat /\ left \in Nat /\ price \in Nat \ {0}
      /\ (worth <= w.left => rest \in Nat)
  BY <1>1, <1>2
<1> HIDE DEF worth, spent, rest, taken
<1> HIDE DEF last, left, price
<1>5. ASSUME rest \in Nat PROVE all \in Walks
  BY <1>4, <1>5, ZenonT(60) DEF Walks
<1>6. some \in Walks
  BY <1>4, ZenonT(60) DEF Walks
<1> HIDE DEF all, some
<1>7. QED
  BY <1>3, <1>4, <1>5, <1>6

LEMMA BookWalked ==
  ASSUME NEW side \in Seq(Levels), NEW notional \in Nat
  PROVE  \E p : /\ p[0] = Fund(notional)
                /\ \A n \in 1..Len(side) : p[n] = WalkLevel(p[n - 1], side[n])
                /\ \A n \in 0..Len(side) : p[n] \in Walks
                /\ WalkBook(side, notional) = p[Len(side)]
<1> DEFINE N == Len(side)
           X == [n \in 0..N |-> Walks]
           Taken(s, n) == WalkLevel(s, side[n])
           step == [n \in 1..N |-> [s \in Walks |-> Taken(s, n)]]
           Runs(p) == p = [n \in 0..N |-> IF n = 0 THEN Fund(notional) ELSE Taken(p[n - 1], n)]
<1>0. N \in Nat
  OBVIOUS
<1>1. Fund(notional) \in Walks
  BY DEF Fund, EmptyWalk, Walks
<1>2. ASSUME NEW n \in 1..N, NEW s \in Walks PROVE Taken(s, n) \in Walks
  <2>1. side[n] \in Levels
    OBVIOUS
  <2>2. QED
    BY <2>1, WalkLevelIs
<1> DEFINE upTo == CHOOSE p : Runs(p)
<1>3. WalkBook(side, notional) = upTo[N]
  BY Zenon DEF WalkBook, Fund
<1> HIDE DEF Taken
<1>4. \E p : Runs(p) /\ \A n \in 0..N : p[n] \in Walks
  <2>1. Leads(step, X, N)
    <3>1. ASSUME NEW n \in 1..N PROVE step[n] \in [Walks -> Walks] /\ X[n - 1] = Walks /\ X[n] = Walks
      BY <1>2
    <3> HIDE DEF X, step
    <3>2. QED
      BY <3>1 DEF Leads
  <2>2. Fund(notional) \in X[0]
    BY <1>0, <1>1
  <2>3. \A n \in 0..N : X[n] = Walks
    OBVIOUS
  <2> HIDE DEF X, step, N
  <2>4. PICK p : StepsAlong(p, Fund(notional), step, N) /\ \A n \in 0..N : p[n] \in X[n]
    BY <1>0, <2>1, <2>2, Iterates
  <2>5. ASSUME NEW n \in 0..N, n # 0 PROVE step[n][p[n - 1]] = Taken(p[n - 1], n)
    <3>1. n \in 1..N /\ n - 1 \in 0..N
      BY <1>0, <2>5
    <3>2. p[n - 1] \in Walks
      BY <2>3, <2>4, <3>1
    <3>3. QED
      BY <3>1, <3>2 DEF step
  <2>6. [n \in 0..N |-> IF n = 0 THEN Fund(notional) ELSE step[n][p[n - 1]]]
          = [n \in 0..N |-> IF n = 0 THEN Fund(notional) ELSE Taken(p[n - 1], n)]
    BY <2>5, Zenon
  <2>7. Runs(p)
    BY <2>4, <2>6, Zenon DEF StepsAlong
  <2> HIDE DEF Runs
  <2>8. QED
    BY <2>3, <2>4, <2>7
<1>5. Runs(upTo)
  BY <1>4
<1> HIDE DEF upTo, N
<1>6. upTo[0] = Fund(notional)
  BY <1>0, <1>5
<1>7. ASSUME NEW n \in 1..N PROVE upTo[n] = Taken(upTo[n - 1], n)
  <2>1. n \in 0..N /\ n # 0
    BY <1>0
  <2>2. QED
    BY <1>5, <2>1
<1> DEFINE T == {n \in 0..N : upTo[n] \in Walks}
<1>8. T = 0..N
  <2>1. 0 \in T
    BY <1>0, <1>1, <1>6
  <2>2. ASSUME NEW n \in 1..N, n - 1 \in T PROVE n \in T
    <3>1. n \in 0..N
      BY <1>0
    <3>2. QED
      BY <1>2, <1>7, <2>2, <3>1
  <2>3. T \in SUBSET (0..N)
    OBVIOUS
  <2> HIDE DEF T
  <2>4. QED
    BY <1>0, <2>1, <2>2, <2>3, Reaches
<1>9. QED
  BY <1>3, <1>6, <1>7, <1>8 DEF N, Taken

\* What the rest of a purchase still costs: a mill for each share at least, and
\* nothing when the shares are bought.
Ends(s, cost, shares) ==
    /\ s.cost + (shares - s.filled) <= cost
    /\ s.filled = shares => s.cost = cost

LEMMA EndsBefore ==
  ASSUME NEW s \in Bought, NEW level \in Levels, NEW shares \in Nat, s.filled <= shares,
         NEW cost \in Nat, Ends(TakeShares(s, level, shares), cost, shares)
  PROVE  Ends(s, cost, shares)
<1> DEFINE take == Lesser(shares - s.filled, level.size)
           paid == take * level.price
           next == TakeShares(s, level, shares)
<1>1. /\ take \in Nat /\ paid \in Nat /\ paid >= take
      /\ next.cost = s.cost + paid /\ next.filled = s.filled + take
  BY TakeSharesIs
<1>2. s.cost \in Nat /\ s.filled \in Nat
  BY DEF Bought
<1>3. s.filled = shares => take = 0 /\ paid = 0
  <2>1. level.size \in Nat /\ level.price \in Nat
    BY DEF Levels
  <2>2. s.filled = shares => take = 0
    BY <1>2, <2>1 DEF Lesser
  <2>3. take = 0 => paid = 0
    BY <2>1
  <2>4. QED
    BY <2>2, <2>3
<1> HIDE DEF take, paid
<1>4. QED
  BY <1>1, <1>2, <1>3 DEF Ends

\* The book is walked with what the shares cost: up to the level they end in
\* both walks take it whole; in that level they stop.
Agrees(w, s, held, cost, shares) ==
    /\ held <= shares => s.filled = held
    /\ held > shares => s.filled = shares
    /\ held <= shares => /\ w.cost = s.cost /\ w.left = cost - s.cost
                         /\ w.whole = held /\ w.part = 0 /\ w.price = 1
    /\ held > shares => w.left = 0 /\ w.cost = cost /\ w.whole * w.price + w.part = shares * w.price

LEMMA AgreesOn ==
  ASSUME NEW s \in Bought, NEW w \in Walks, NEW level \in Levels, NEW shares \in Nat, s.filled <= shares,
         NEW cost \in Nat, NEW held \in Nat, Agrees(w, s, held, cost, shares),
         Ends(s, cost, shares), Ends(TakeShares(s, level, shares), cost, shares)
  PROVE  Agrees(WalkLevel(w, level), TakeShares(s, level, shares), held + level.size, cost, shares)
<1> DEFINE take == Lesser(shares - s.filled, level.size)
           price == level.price  size == level.size
           paid == take * price
           next == TakeShares(s, level, shares)
           worth == price * size
           v == WalkLevel(w, level)
<1>1. /\ take \in Nat /\ paid \in Nat /\ paid >= take /\ s.filled + take <= shares
      /\ next.cost = s.cost + paid /\ next.filled = s.filled + take
  BY TakeSharesIs
<1>2. /\ s.cost \in Nat /\ s.filled \in Nat /\ size \in Nat /\ price \in Nat /\ price > 0
      /\ w.cost \in Nat /\ w.left \in Nat /\ w.whole \in Nat /\ w.part \in Nat /\ w.price \in Nat
  BY DEF Bought, Levels, Walks
<1>3. take = (IF shares - s.filled < size THEN shares - s.filled ELSE size)
  BY DEF Lesser
<1>4. (take = size => paid = worth) /\ (size = 0 => worth = 0)
  BY <1>2
<1>5. worth \in Nat
  BY <1>2
<1>6. IF w.left = 0 \/ price <= 0 \/ size <= 0 THEN v = w
      ELSE IF worth <= w.left
      THEN v.cost = w.cost + worth /\ v.left = w.left - worth /\ v.whole = w.whole + size
           /\ v.part = w.part /\ v.price = w.price
      ELSE v.cost = w.cost + w.left /\ v.left = 0 /\ v.whole = w.whole /\ v.part = w.left /\ v.price = price
  BY DEF WalkLevel, Walks
<1>7. take < size => paid < worth
  <2>1. ASSUME take < size PROVE paid < worth
    <3>1. worth = paid + price * (size - take)
      BY <1>1, <1>2
    <3>2. price * (size - take) > 0
      BY <1>1, <1>2, <2>1
    <3>3. price * (size - take) \in Int
      BY <1>1, <1>2
    <3> HIDE DEF paid, worth
    <3>4. QED
      BY <1>1, <1>5, <3>1, <3>2, <3>3
  <2>2. QED
    BY <2>1
<1>8. held * price + paid = (held + take) * price
  BY <1>1, <1>2
<1> HIDE DEF paid, worth, price, size, next
<1> HIDE DEF take, v
<1>9. /\ held <= shares => s.filled = held
      /\ held > shares => s.filled = shares
  BY DEF Agrees
<1>10. /\ held + size <= shares => next.filled = held + size
       /\ held + size > shares => next.filled = shares
  BY <1>1, <1>2, <1>3, <1>9
<1>11. CASE held > shares
  <2>1. v = w
    BY <1>6, <1>11 DEF Agrees
  <2>2. held + size > shares
    BY <1>2, <1>11
  <2>3. QED
    BY <1>10, <1>11, <2>1, <2>2 DEF Agrees, next, v, size
<1>12. CASE held <= shares
  <2>1. /\ w.cost = s.cost /\ w.left = cost - s.cost /\ w.whole = held /\ w.part = 0 /\ w.price = 1
        /\ s.filled = held
    BY <1>12 DEF Agrees
  <2>2. /\ s.cost + (shares - s.filled) <= cost
        /\ s.filled = shares => s.cost = cost
        /\ next.cost + (shares - next.filled) <= cost
        /\ next.filled = shares => next.cost = cost
    BY DEF Ends, next
  <2>3. CASE held + size <= shares
    <3>1. take = size /\ paid = worth
      BY <1>2, <1>3, <1>4, <2>1, <2>3
    <3>2. worth <= w.left
      BY <1>1, <1>2, <1>5, <1>10, <2>1, <2>2, <2>3, <3>1
    <3>3. v.cost = w.cost + worth /\ v.left = w.left - worth /\ v.whole = w.whole + size
          /\ v.part = w.part /\ v.price = w.price
      <4>1. CASE w.left = 0 \/ size <= 0
        <5>1. size = 0
          BY <1>1, <1>2, <1>5, <3>1, <3>2, <4>1
        <5>2. QED
          BY <1>2, <1>4, <1>6, <4>1, <5>1
      <4>2. CASE ~(w.left = 0 \/ size <= 0)
        BY <1>2, <1>6, <3>2, <4>2
      <4>3. QED
        BY <4>1, <4>2
    <3>4. /\ v.cost = next.cost /\ v.left = cost - next.cost
          /\ v.whole = held + size /\ v.part = 0 /\ v.price = 1
      BY <1>1, <1>2, <1>5, <2>1, <3>1, <3>3
    <3>5. QED
      BY <1>2, <1>10, <2>3, <3>4 DEF Agrees, next, v, size
  <2>4. CASE held + size > shares
    <3>1. take = shares - held /\ take < size /\ size > 0
      BY <1>2, <1>3, <1>12, <2>1, <2>4
    <3>2. paid = w.left
      BY <1>1, <1>2, <1>10, <2>1, <2>2, <2>4
    <3>3. paid < worth
      BY <1>7, <3>1
    <3>4. v.left = 0 /\ v.cost = cost /\ v.whole * v.price + v.part = shares * v.price
      <4>1. CASE w.left = 0
        <5>1. v = w /\ held = shares /\ w.cost = cost
          BY <1>2, <1>6, <1>12, <2>1, <2>2, <4>1
        <5>2. QED
          BY <2>1, <4>1, <5>1
      <4>2. CASE w.left # 0
        <5>1. v.cost = w.cost + w.left /\ v.left = 0 /\ v.whole = w.whole /\ v.part = w.left /\ v.price = price
          BY <1>2, <1>5, <1>6, <3>1, <3>2, <3>3, <4>2
        <5>2. held + take = shares
          BY <3>1
        <5>3. held * price + paid = shares * price
          BY <1>8, <5>2
        <5>4. QED
          BY <1>2, <2>1, <3>2, <5>1, <5>3
      <4>3. QED
        BY <4>1, <4>2
    <3>5. QED
      BY <1>2, <1>10, <2>4, <3>4 DEF Agrees, next, v, size
  <2>5. QED
    BY <1>2, <2>3, <2>4
<1>13. QED
  BY <1>11, <1>12

\* The two walks agree on every number of shares that a side holds.
LEMMA WalksMeet ==
  ASSUME NEW side \in Seq(Levels), NEW shares \in Nat \ {0}, shares <= Held(side, Len(side)),
         NEW cost, cost = WalkShares(side, shares).cost,
         NEW vwap, vwap = WalkVwap(side, cost).vwap
  PROVE  vwap # NULL /\ vwap[1] * shares = cost * vwap[2]
<1> DEFINE N == Len(side)
           H(n) == Held(side, n)
<1>0. N \in Nat
  OBVIOUS
<1>1. PICK p : /\ p[0] = NoShares
               /\ \A n \in 1..N : p[n] = TakeShares(p[n - 1], side[n], shares)
               /\ \A n \in 0..N : p[n] \in Bought /\ p[n].filled <= shares
               /\ WalkShares(side, shares) = p[N]
  BY SharesWalked
<1>2. cost = p[N].cost /\ cost \in Nat
  BY <1>0, <1>1 DEF Bought
<1>3. PICK w : /\ w[0] = Fund(cost)
               /\ \A n \in 1..N : w[n] = WalkLevel(w[n - 1], side[n])
               /\ \A n \in 0..N : w[n] \in Walks
               /\ WalkBook(side, cost) = w[N]
  BY <1>2, BookWalked
<1>4. /\ H(0) = 0
      /\ \A n \in 0..N : H(n) \in Nat
      /\ \A n \in 1..N : H(n) = H(n - 1) + side[n].size
  BY HeldIs
<1>5. \A n \in 1..N : side[n] \in Levels
  OBVIOUS
<1>6. H(N) >= shares
  OBVIOUS
<1> HIDE DEF N, H
<1>7. ASSUME NEW n \in 1..N
      PROVE  n \in 0..N /\ n - 1 \in 0..N
  BY <1>0
<1>8. p[N].filled = shares
  <2> DEFINE Filled(n) == p[n].filled = (IF H(n) <= shares THEN H(n) ELSE shares)
             T == {n \in 0..N : Filled(n)}
  <2>1. 0 \in T
    BY <1>0, <1>1, <1>4 DEF NoShares
  <2>2. ASSUME NEW n \in 1..N, n - 1 \in T PROVE n \in T
    <3> DEFINE take == Lesser(shares - p[n - 1].filled, side[n].size)
    <3>1. n \in 0..N /\ n - 1 \in 0..N
      BY <1>7
    <3>2. p[n].filled = p[n - 1].filled + take
      BY <1>1, <1>5, <3>1, TakeSharesIs
    <3>3. H(n) = H(n - 1) + side[n].size /\ H(n - 1) \in Nat /\ side[n].size \in Nat
      BY <1>4, <1>5, <3>1 DEF Levels
    <3>4. Filled(n - 1)
      BY <2>2
    <3>5. Filled(n)
      BY <3>2, <3>3, <3>4 DEF Lesser
    <3>6. QED
      BY <3>1, <3>5
  <2>3. T \in SUBSET (0..N)
    OBVIOUS
  <2> HIDE DEF Filled
  <2>4. N \in T
    <3> HIDE DEF T
    <3>1. T = 0..N
      BY <1>0, <2>1, <2>2, <2>3, Reaches
    <3>2. QED
      BY <1>0, <3>1
  <2>5. Filled(N)
    BY <2>4
  <2>6. H(N) \in Nat
    BY <1>0, <1>4
  <2>7. QED
    BY <1>6, <2>5, <2>6 DEF Filled
<1>9. ASSUME NEW n \in 0..N PROVE Ends(p[n], cost, shares)
  <2> DEFINE T == {k \in 0..N : Ends(p[N - k], cost, shares)}
  <2>1. 0 \in T
    <3>1. N - 0 = N
      BY <1>0
    <3>2. Ends(p[N], cost, shares)
      BY <1>2, <1>8 DEF Ends
    <3>3. QED
      BY <1>0, <3>1, <3>2
  <2>2. ASSUME NEW k \in 1..N, k - 1 \in T PROVE k \in T
    <3> DEFINE m == N - (k - 1)
    <3>1. m \in 1..N /\ m - 1 = N - k /\ m - 1 \in 0..N /\ k \in 0..N
      BY <1>0
    <3>2. Ends(p[m], cost, shares)
      BY <2>2
    <3> HIDE DEF m
    <3>3. p[m] = TakeShares(p[m - 1], side[m], shares)
      BY <1>1, <3>1
    <3>4. Ends(p[m - 1], cost, shares)
      BY <1>1, <1>2, <1>5, <3>1, <3>2, <3>3, EndsBefore
    <3>5. QED
      BY <3>1, <3>4
  <2>3. T \in SUBSET (0..N)
    OBVIOUS
  <2>4. N - n \in T
    <3> HIDE DEF T
    <3>1. T = 0..N
      BY <1>0, <2>1, <2>2, <2>3, Reaches
    <3>2. QED
      BY <1>0, <3>1
  <2>5. N - (N - n) = n
    BY <1>0
  <2>6. QED
    BY <2>4, <2>5
<1> DEFINE Agree(n) == Agrees(w[n], p[n], H(n), cost, shares)
           T == {n \in 0..N : Agree(n)}
<1>10. 0 \in T
  <2>1. w[0].cost = 0 /\ w[0].left = cost /\ w[0].whole = 0 /\ w[0].part = 0 /\ w[0].price = 1
    BY <1>3 DEF Fund, EmptyWalk
  <2>2. p[0].cost = 0 /\ p[0].filled = 0
    BY <1>1 DEF NoShares
  <2>3. Agree(0)
    BY <1>2, <1>4, <2>1, <2>2 DEF Agrees
  <2>4. QED
    BY <1>0, <2>3
<1>11. ASSUME NEW n \in 1..N, n - 1 \in T PROVE n \in T
  <2>1. n \in 0..N /\ n - 1 \in 0..N
    BY <1>7
  <2>2. Agree(n - 1)
    BY <1>11
  <2>3. Ends(p[n - 1], cost, shares) /\ Ends(p[n], cost, shares)
    BY <1>9, <2>1
  <2>4. /\ w[n] = WalkLevel(w[n - 1], side[n]) /\ p[n] = TakeShares(p[n - 1], side[n], shares)
        /\ H(n) = H(n - 1) + side[n].size /\ H(n - 1) \in Nat
        /\ p[n - 1] \in Bought /\ p[n - 1].filled <= shares /\ w[n - 1] \in Walks /\ side[n] \in Levels
    BY <1>1, <1>3, <1>4, <1>5, <2>1
  <2>5. Agrees(WalkLevel(w[n - 1], side[n]), TakeShares(p[n - 1], side[n], shares),
               H(n - 1) + side[n].size, cost, shares)
    BY <1>2, <2>2, <2>3, <2>4, AgreesOn
  <2>6. QED
    BY <2>1, <2>4, <2>5
<1>12. Agree(N)
  <2>1. T \in SUBSET (0..N)
    OBVIOUS
  <2>2. N \in T
    <3> HIDE DEF T
    <3>1. T = 0..N
      BY <1>0, <1>10, <1>11, <2>1, Reaches
    <3>2. QED
      BY <1>0, <3>1
  <2>3. QED
    BY <2>2
<1> HIDE DEF T
<1> DEFINE v == w[N]
           bought == v.whole * v.price + v.part
<1>13. /\ v.cost \in Nat /\ v.whole \in Nat /\ v.part \in Nat /\ v.price \in Nat /\ v.price > 0
       /\ H(N) \in Nat
  <2>1. N \in 0..N
    BY <1>0
  <2>2. v \in Walks /\ H(N) \in Nat
    BY <1>3, <1>4, <2>1
  <2> HIDE DEF v
  <2>3. QED
    BY <2>2 DEF Walks
<1>14. bought = shares * v.price /\ v.cost = cost
  <2>1. Agrees(v, p[N], H(N), cost, shares)
    BY <1>12
  <2> HIDE DEF v
  <2>2. CASE H(N) > shares
    <3>1. v.cost = cost /\ v.whole * v.price + v.part = shares * v.price
      BY <2>1, <2>2 DEF Agrees
    <3>2. QED
      BY <3>1
  <2>3. CASE H(N) <= shares
    <3>1. H(N) = shares
      BY <1>6, <1>13, <2>3
    <3>2. v.whole = H(N) /\ v.part = 0 /\ v.price = 1 /\ v.cost = p[N].cost
      BY <2>1, <2>3 DEF Agrees
    <3>3. v.whole * v.price + v.part = shares * v.price
      BY <1>13, <3>1, <3>2
    <3>4. QED
      BY <1>2, <3>2, <3>3
  <2>4. QED
    BY <1>13, <2>2, <2>3
<1>15. cost > 0
  <2>1. Ends(p[0], cost, shares) /\ p[0].cost = 0 /\ p[0].filled = 0
    BY <1>0, <1>1, <1>9 DEF NoShares
  <2>2. QED
    BY <1>2, <2>1 DEF Ends
<1>16. bought # 0
  BY <1>13, <1>14
<1>17. vwap = <<v.cost * v.price, bought>>
  <2>1. WalkBook(side, cost) = v
    BY <1>3
  <2>2. ~(cost <= 0 \/ bought = 0)
    BY <1>2, <1>15, <1>16
  <2> HIDE DEF v
  <2>3. QED
    BY <2>1, <2>2 DEF WalkVwap
<1>18. <<v.cost * v.price, bought>> # NULL
  <2> HIDE DEF v
  <2>1. v.cost * v.price \in Int /\ bought \in Int
    BY <1>13
  <2> HIDE DEF bought
  <2>2. <<v.cost * v.price, bought>> \in Int \X Int
    BY <2>1
  <2>3. QED
    BY <2>2, EvaluationAssumption
<1>19. (cost * v.price) * shares = cost * (shares * v.price)
  BY <1>2, <1>13
<1>20. QED
  BY <1>14, <1>17, <1>18, <1>19

\* The fields of a decision under way; no gate adds or drops one.
Fields == {"market", "category", "reason", "given", "info", "samples", "seen", "features", "state",
           "forecast", "print", "snap", "news", "labels", "hot", "saved", "edge", "opportunity"}

\* The impact of the news is none, or that of an event not seen before, which
\* has been seen now.
NewsDecided(impact, before, after) ==
    /\ before \subseteq after
    /\ impact.apply => impact.key \notin before /\ impact.key \in after /\ impact.confidence \in Nat

\* The samples of the feed clock, and the confidence in an edge.
Samples == [Feeds -> Int \cup {NULL}]
Percent == 0..100

\* The print, the game state and the news a decision holds.
Decided(d) ==
    /\ DOMAIN d = Fields
    /\ d.samples \in Samples
    /\ d.features.spread \in Amounts /\ d.edge.confidence \in Percent
    /\ d.print # NULL => ObservationAge(d.print, now) <= MaxAge["rtds"]
    /\ d.state # NULL => now - d.state.at <= MaxAge["sports_ws"]
    /\ d.snap # NULL => d.print # NULL
    /\ NewsDecided(d.news, seen, d.seen)

\* Times are numbers wherever they are kept, and what has moved a probability
\* has been seen.
Dated(market) ==
    /\ market.book # NULL => market.book.at \in Int /\ Ladders(market.book)
    /\ market.at \in Int /\ market.fees.at \in Int
    /\ market.spread \in Amounts

IInv ==
    /\ now \in Int
    /\ samples \in Samples
    /\ history \in [MarketIds -> Seq(Nat)]
    /\ \A m \in MarketIds : Len(history[m]) <= HistoryLength
    /\ killed \subseteq {"STALE_CRITICAL_DATA"} /\ decision.edge.confidence \in Percent
    /\ universe \in Seq(ToSet(universe))
    /\ \A i \in DOMAIN universe : Dated(universe[i])
    /\ \A key \in DOMAIN prints : prints[key].at \in Int /\ prints[key].payload \in Int \cup {NULL}
    /\ Len(games) <= 1 /\ DOMAIN games = 1..Len(games) /\ Len(games) \in Nat
    /\ \A i \in DOMAIN games : games[i].at \in Int
    /\ applied \subseteq seen

-----------------------------------------------------------------------------
(* The news *)

LEMMA PowerIs ==
  ASSUME NEW base \in Nat, NEW n \in Nat
  PROVE  Power(base, n) \in Nat /\ (base > 0 => Power(base, n) > 0)
<1> DEFINE S == {x \in Nat : base > 0 => x > 0}
           X == [k \in 0..n |-> S]
           Times(x) == base * x
           step == [k \in 1..n |-> [x \in S |-> Times(x)]]
           Runs(p) == p = [k \in 0..n |-> IF k = 0 THEN 1 ELSE Times(p[k - 1])]
           power == CHOOSE p : Runs(p)
<1>1. Power(base, n) = power[n]
  BY Zenon DEF Power
<1>2. 1 \in S
  OBVIOUS
<1>3. ASSUME NEW x \in S PROVE Times(x) \in S
  <2>1. base * x \in Nat
    OBVIOUS
  <2>2. base > 0 => base * x > 0
    OBVIOUS
  <2>3. QED
    BY <2>1, <2>2
<1> HIDE DEF Times, S
<1>4. \E p : Runs(p) /\ \A k \in 0..n : p[k] \in S
  <2>1. Leads(step, X, n)
    <3>1. ASSUME NEW k \in 1..n PROVE step[k] \in [S -> S] /\ X[k - 1] = S /\ X[k] = S
      BY <1>3
    <3> HIDE DEF X, step
    <3>2. QED
      BY <3>1 DEF Leads
  <2>2. 1 \in X[0]
    BY <1>2
  <2>3. \A k \in 0..n : X[k] = S
    OBVIOUS
  <2> HIDE DEF X, step
  <2>4. PICK p : StepsAlong(p, 1, step, n) /\ \A k \in 0..n : p[k] \in X[k]
    BY <2>1, <2>2, Iterates
  <2>5. ASSUME NEW k \in 0..n, k # 0 PROVE step[k][p[k - 1]] = Times(p[k - 1])
    <3>1. k \in 1..n /\ k - 1 \in 0..n
      BY <2>5
    <3>2. p[k - 1] \in S
      BY <2>3, <2>4, <3>1
    <3>3. QED
      BY <3>1, <3>2 DEF step
  <2>6. [k \in 0..n |-> IF k = 0 THEN 1 ELSE step[k][p[k - 1]]]
          = [k \in 0..n |-> IF k = 0 THEN 1 ELSE Times(p[k - 1])]
    BY <2>5, Zenon
  <2>7. Runs(p)
    BY <2>4, <2>6, Zenon DEF StepsAlong
  <2> HIDE DEF Runs
  <2>8. QED
    BY <2>3, <2>4, <2>7
<1>5. Runs(power)
  BY <1>4
<1> HIDE DEF power
<1> DEFINE T == {k \in 0..n : power[k] \in S}
<1>6. 0 \in T
  BY <1>2, <1>5
<1>7. ASSUME NEW k \in 1..n, k - 1 \in T PROVE k \in T
  <2>1. k \in 0..n /\ k # 0
    OBVIOUS
  <2>2. power[k] = Times(power[k - 1])
    BY <1>5, <2>1
  <2>3. QED
    BY <1>3, <1>7, <2>1, <2>2
<1>8. T = 0..n
  <2>1. T \in SUBSET (0..n)
    OBVIOUS
  <2> HIDE DEF T
  <2>2. QED
    BY <1>6, <1>7, <2>1, Reaches
<1>9. power[n] \in S
  BY <1>8
<1>10. QED
  BY <1>1, <1>9 DEF S

\* The confidence in an item is a number.
ItemShape(item) == item.at \in Int /\ item.label \in DOMAIN ClassWeight \cup {NULL}

LEMMA ConfidenceIs ==
  ASSUME NEW item, ItemShape(item), NEW t \in Int
  PROVE  ConfidenceOf(item, t) \in Nat
<1>1. AuthorityOf(item) \in Nat
  BY NewsAssumption DEF AuthorityOf
<1>2. ClassWeight[Classify(item)] \in Nat
  <2>1. \A class \in DOMAIN ClassWeight : ClassWeight[class] \in Nat
    BY DEF ClassWeight
  <2>2. "unknown" \in DOMAIN ClassWeight
    BY DEF ClassWeight
  <2>3. Classify(item) \in DOMAIN ClassWeight
    BY <2>2, NewsAssumption DEF Classify, ItemShape
  <2>4. QED
    BY <2>1, <2>3
<1>3. Halved(t - item.at) \in Nat /\ Halved(t - item.at) > 0
  <2> DEFINE age == Greater(0, t - item.at)
  <2>1. age \in Nat
    BY DEF Greater, ItemShape
  <2> HIDE DEF age
  <2>2. ASSUME HalfLife # 0
        PROVE  Power(2, age \div HalfLife) \in Nat /\ Power(2, age \div HalfLife) > 0
    <3> DEFINE halves == age \div HalfLife
    <3>1. halves \in Nat
      BY <2>1, <2>2, NewsAssumption
    <3> HIDE DEF halves
    <3>2. Power(2, halves) \in Nat /\ (2 > 0 => Power(2, halves) > 0)
      BY <3>1, PowerIs
    <3>3. QED
      BY <3>2 DEF halves
  <2>3. Halved(t - item.at) = IF HalfLife = 0 THEN 1 ELSE Power(2, age \div HalfLife)
    BY DEF Halved, age
  <2>4. QED
    BY <2>2, <2>3
<1> DEFINE weight == AuthorityOf(item) * ClassWeight[Classify(item)]
           halved == 100 * Halved(t - item.at)
<1>4. weight \in Nat /\ halved \in Nat \ {0}
  BY <1>1, <1>2, <1>3
<1>5. ConfidenceOf(item, t) = weight \div halved
  BY DEF ConfidenceOf
<1> HIDE DEF weight, halved
<1>6. QED
  BY <1>4, <1>5

\* An item that applies was not seen before, and is afterwards.
LEMMA ImpactIs ==
  ASSUME NEW item, ItemShape(item), NEW market, NEW pBase, NEW t \in Int, NEW s
  PROVE  NewsDecided(Impact(item, market, pBase, t, s), s, SeenAfter(item, market, pBase, t, s))
<1>1. Verdict(item, market, pBase, t, s) = "OK" => Fingerprint(item) \notin s
  BY DEF Verdict
<1>2. ConfidenceOf(item, t) \in Nat
  BY ConfidenceIs
<1> QED
  BY <1>1, <1>2 DEF Impact, NewsDecided, SeenAfter

\* The items are heard one after the other.
HeardFunction(h, items, market, pBase, t, s, n) ==
    h = [k \in 0..n |-> IF k = 0 THEN [impact |-> NoImpact, seen |-> s]
                        ELSE Hear(h[k - 1], items[k], market, pBase, t)]

LEMMA HeardExists ==
  ASSUME NEW n \in Nat, NEW items, NEW market, NEW pBase, NEW t, NEW s
  PROVE  \E h : HeardFunction(h, items, market, pBase, t, s, n)
<1> DEFINE Bad == {m \in 0..n : ~ \E h : HeardFunction(h, items, market, pBase, t, s, m)}
           start == [impact |-> NoImpact, seen |-> s]
<1>1. SUFFICES ASSUME Bad # {} PROVE FALSE
  OBVIOUS
<1>2. PICK m \in Bad : \A k \in Bad : m <= k
  <2>1. Bad \in SUBSET Nat
    OBVIOUS
  <2>2. QED
    BY <1>1, <2>1, LeastNat
<1>3. m # 0
  <2>1. HeardFunction([i \in 0..0 |-> start], items, market, pBase, t, s, 0)
    BY DEF HeardFunction
  <2>2. QED
    BY <2>1
<1>4. m - 1 \in 0..n /\ m - 1 \notin Bad
  BY <1>2, <1>3
<1>5. PICK q : HeardFunction(q, items, market, pBase, t, s, m - 1)
  BY <1>4
<1> DEFINE r == [i \in 0..m |-> IF i = m THEN Hear(q[m - 1], items[m], market, pBase, t) ELSE q[i]]
<1>6. ASSUME NEW i \in 0..m
      PROVE  r[i] = IF i = 0 THEN start ELSE Hear(r[i - 1], items[i], market, pBase, t)
  <2>1. CASE i = m
    <3>1. m - 1 \in 0..m /\ m - 1 # m
      BY <1>3
    <3>2. r[m - 1] = q[m - 1]
      BY <3>1
    <3>3. QED
      BY <2>1, <3>2, <1>3
  <2>2. CASE i # m
    <3>1. i \in 0..(m - 1)
      BY <2>2
    <3>2. q[i] = IF i = 0 THEN start ELSE Hear(q[i - 1], items[i], market, pBase, t)
      BY <1>5, <3>1 DEF HeardFunction
    <3>3. i # 0 => r[i - 1] = q[i - 1]
      BY <3>1
    <3>4. QED
      BY <2>2, <3>2, <3>3
  <2>3. QED
    BY <2>1, <2>2
<1>7. HeardFunction(r, items, market, pBase, t, s, m)
  BY <1>6, Zenon DEF HeardFunction
<1>8. QED
  BY <1>2, <1>7

\* Hearing one more item keeps that the impact is new and has been seen.
LEMMA HearKeeps ==
  ASSUME NEW h, NEW item, ItemShape(item), NEW market, NEW pBase, NEW t \in Int, NEW s,
         NewsDecided(h.impact, s, h.seen),
         NEW g, g = Hear(h, item, market, pBase, t)
  PROVE  NewsDecided(g.impact, s, g.seen)
<1>1. CASE h.impact.apply \/ ~Concerns(item, market)
  BY <1>1 DEF Hear
<1>2. CASE ~(h.impact.apply \/ ~Concerns(item, market))
  <2>1. /\ g.impact = Impact(item, market, pBase, t, h.seen)
        /\ g.seen = SeenAfter(item, market, pBase, t, h.seen)
    BY <1>2 DEF Hear
  <2>2. NewsDecided(g.impact, h.seen, g.seen)
    BY <2>1, ImpactIs
  <2>3. QED
    BY <2>2 DEF NewsDecided
<1>3. QED
  BY <1>1, <1>2

\* impact_for answers an impact that was not seen before, and remembers it.
LEMMA ImpactForIs ==
  ASSUME NEW items, Len(items) \in Nat, \A i \in 1..Len(items) : ItemShape(items[i]),
         NEW market, NEW pBase, NEW t \in Int, NEW s, NEW g, g = ImpactFor(items, market, pBase, t, s)
  PROVE  NewsDecided(g.impact, s, g.seen)
<1> DEFINE n == Len(items)
           start == [impact |-> NoImpact, seen |-> s]
           h == CHOOSE f : f = [k \in 0..n |-> IF k = 0 THEN start ELSE Hear(f[k - 1], items[k], market, pBase, t)]
<1>1. g = h[n]
  BY Zenon DEF ImpactFor
<1>2. HeardFunction(h, items, market, pBase, t, s, n)
  <2>1. \E f : HeardFunction(f, items, market, pBase, t, s, n)
    BY HeardExists
  <2>2. QED
    BY <2>1, Zenon DEF HeardFunction
<1> HIDE DEF h
<1>3. \A k \in 0..n : h[k] = IF k = 0 THEN start ELSE Hear(h[k - 1], items[k], market, pBase, t)
  BY <1>2, Zenon DEF HeardFunction
<1> DEFINE Good(k) == NewsDecided(h[k].impact, s, h[k].seen)
           Bad == {k \in 0..n : ~Good(k)}
<1>4. SUFFICES ASSUME Bad # {} PROVE FALSE
  BY <1>1
<1>5. PICK m \in Bad : \A k \in Bad : m <= k
  <2>1. Bad \in SUBSET Nat
    OBVIOUS
  <2>2. QED
    BY <1>4, <2>1, LeastNat
<1>6. m # 0
  <2>1. h[0] = start
    BY <1>3
  <2>2. Good(0)
    BY <2>1 DEF NewsDecided, NoImpact
  <2>3. QED
    BY <2>2
<1>7. m - 1 \in 0..n /\ m - 1 \notin Bad
  BY <1>5, <1>6
<1>8. h[m] = Hear(h[m - 1], items[m], market, pBase, t)
  BY <1>3, <1>6
<1>9. Good(m - 1) /\ ItemShape(items[m])
  BY <1>6, <1>7
<1>10. Good(m)
  BY <1>8, <1>9, HearKeeps
<1>11. QED
  BY <1>10

-----------------------------------------------------------------------------
(* The gates *)

\* A decision after a gate that leaves its evidence alone.
SameEvidence(d, e) ==
    /\ DOMAIN e = DOMAIN d
    /\ e.samples = d.samples /\ e.print = d.print /\ e.state = d.state /\ e.snap = d.snap
    /\ e.news = d.news /\ e.seen = d.seen /\ e.features = d.features /\ e.edge = d.edge

LEMMA SameIsDecided ==
  ASSUME NEW d, Decided(d), NEW e, SameEvidence(d, e)
  PROVE  Decided(e)
BY DEF Decided, SameEvidence

\* Refusing changes the reason only.
LEMMA RefuseKeeps ==
  ASSUME NEW d, DOMAIN d = Fields, NEW reason
  PROVE  SameEvidence(d, Refuse(d, reason)) /\ Refuse(d, reason).reason = reason
BY DEF Refuse, SameEvidence, Fields

LEMMA RefuseIsDecided ==
  ASSUME NEW d, Decided(d), NEW reason
  PROVE  Decided(Refuse(d, reason))
BY RefuseKeeps, SameIsDecided DEF Decided

LEMMA AcceptsKeeps ==
  ASSUME NEW d, Decided(d)
  PROVE  Decided(AcceptsGate(d))
BY RefuseIsDecided DEF AcceptsGate

LEMMA EsportsKeeps ==
  ASSUME NEW d, Decided(d)
  PROVE  Decided(EsportsGate(d))
<1>1. ASSUME NEW p PROVE Decided([d EXCEPT !.given = p, !.info = p])
  <2>1. SameEvidence(d, [d EXCEPT !.given = p, !.info = p])
    BY DEF Decided, Fields, SameEvidence
  <2>2. QED
    BY <2>1, SameIsDecided
<1>2. QED
  BY <1>1, RefuseIsDecided DEF EsportsGate

LEMMA WeatherKeeps ==
  ASSUME NEW d, Decided(d)
  PROVE  Decided(WeatherGate(d))
<1>1. ASSUME NEW p, NEW f PROVE Decided([d EXCEPT !.forecast = f, !.info = p])
  <2>1. SameEvidence(d, [d EXCEPT !.forecast = f, !.info = p])
    BY DEF Decided, Fields, SameEvidence
  <2>2. QED
    BY <2>1, SameIsDecided
<1>2. QED
  BY <1>1, RefuseIsDecided DEF WeatherGate

\* The last game of the cache, if it is fresh, is not too old.
LEMMA LatestIs ==
  ASSUME IInv, NEW spec, LatestGame(games, spec) # NULL
  PROVE  LatestGame(games, spec).at \in Int
<1> DEFINE fits == {i \in DOMAIN games : SameOrMissing(spec.league, games[i].league)
                                          /\ SameOrMissing(spec.home, games[i].home)}
           last == CHOOSE i \in fits : \A j \in fits : j <= i
<1>1. LatestGame(games, spec) = IF fits = {} THEN NULL ELSE games[last]
  BY Zenon DEF LatestGame
<1>2. fits # {}
  BY <1>1
<1>3. fits \subseteq {1}
  BY DEF IInv
<1>4. last \in fits
  <2>1. \E i \in fits : \A j \in fits : j <= i
    BY <1>2, <1>3
  <2>2. QED
    BY <2>1, Zenon
<1>5. last \in DOMAIN games
  BY <1>4
<1> HIDE DEF fits, last
<1>6. LatestGame(games, spec) = games[last]
  BY <1>1, <1>2
<1>7. QED
  BY <1>5, <1>6 DEF IInv

LEMMA FreshIs ==
  ASSUME NEW state, state # NULL, state.at \in Int, now \in Int, GameStatus(state, now) = "fresh"
  PROVE  now - state.at <= MaxAge["sports_ws"]
<1>1. MaxAge["sports_ws"] \in Nat
  BY FeedRulesAssumption, EvaluationAssumption
<1>2. ~(Greater(0, now - state.at) > MaxAge["sports_ws"])
  BY DEF GameStatus
<1>3. QED
  BY <1>1, <1>2 DEF Greater

LEMMA TouchKeeps ==
  ASSUME NEW s \in Samples, NEW feed, NEW observed \in Int
  PROVE  Touch(s, feed, observed) \in Samples
BY DEF Touch, Samples

LEMMA SportsKeeps ==
  ASSUME IInv, NEW d, Decided(d)
  PROVE  Decided(SportsGate(d))
<1> DEFINE spec   == SportsSpec(d.market.text)
           cached == LatestGame(games, spec)
           fresh  == GameStatus(cached, now)
           state  == IF fresh = "fresh" THEN cached ELSE GameFromMetadata(spec, now)
           moved  == IF cached = NULL THEN d.samples ELSE Touch(d.samples, "sports_ws", state.at)
           informed == [d EXCEPT !.samples = moved, !.state = state,
                                 !.info = FirstKnown(<<d.given, HomeWins(spec.league, state)>>)]
<1>1. ASSUME fresh # "stale" PROVE moved \in Samples
  <2>1. d.samples \in Samples
    BY DEF Decided
  <2>2. ASSUME cached # NULL PROVE state.at \in Int
    <3>1. fresh = "fresh"
      BY <1>1, <2>2 DEF GameStatus
    <3>2. cached.at \in Int
      BY <2>2, LatestIs
    <3>3. QED
      BY <3>1, <3>2
  <2> HIDE DEF state, cached
  <2>3. QED
    BY <2>1, <2>2, TouchKeeps
<1>2. state # NULL => now - state.at <= MaxAge["sports_ws"]
  <2>1. CASE fresh = "fresh"
    <3>1. SUFFICES ASSUME cached # NULL PROVE now - cached.at <= MaxAge["sports_ws"]
      BY <2>1
    <3>2. cached.at \in Int
      BY <3>1, LatestIs
    <3>3. now \in Int
      BY DEF IInv
    <3>4. QED
      BY <2>1, <3>1, <3>2, <3>3, FreshIs
  <2>2. CASE fresh # "fresh"
    <3>1. state # NULL => state.at = now
      BY <2>2 DEF GameFromMetadata
    <3>2. MaxAge["sports_ws"] \in Nat /\ now \in Int
      BY FeedRulesAssumption, EvaluationAssumption DEF IInv
    <3> HIDE DEF state
    <3>3. QED
      BY <3>1, <3>2
  <2>3. QED
    BY <2>1, <2>2
<1>3. SportsGate(d) = IF d.category # "sports" THEN d
                      ELSE IF ~spec.complete THEN Refuse(d, FirstKnown(<<spec.skip, "UNKNOWN_RESOLUTION">>))
                      ELSE IF spec.league \notin Documented THEN Refuse(d, "UNSUPPORTED_SPORT")
                      ELSE IF fresh = "stale" THEN Refuse(d, "SPORTS_STATE_STALE")
                      ELSE IF state = NULL THEN Refuse(d, "SPORTS_STATE_MISSING")
                      ELSE IF HomeWins(spec.league, state) = NULL
                      THEN Refuse([d EXCEPT !.samples = moved], "SPORTS_STATE_MISSING")
                      ELSE informed
  BY Zenon DEF SportsGate
<1> HIDE DEF spec, fresh, cached
<1> HIDE DEF state, moved
<1>4. ASSUME fresh # "stale" PROVE Decided([d EXCEPT !.samples = moved])
  BY <1>1, <1>4 DEF Decided, Fields
<1>5. ASSUME fresh # "stale" PROVE Decided(informed)
  BY <1>1, <1>2, <1>5 DEF Decided, Fields
<1>6. QED
  BY <1>3, <1>4, <1>5, RefuseIsDecided

\* The age of a print of the cache is a number.
LEMMA AgeIs ==
  ASSUME IInv, NEW key \in DOMAIN prints
  PROVE  ObservationAge(prints[key], now) \in Int
BY DEF IInv, ObservationAge, Greater

LEMMA TwapKeeps ==
  ASSUME IInv, NEW d, Decided(d)
  PROVE  Decided(TwapGate(d))
<1> DEFINE spec   == TwapSpec(d.market.text)
           key    == <<spec.symbol, spec.window>>
           print  == IF key \in DOMAIN prints THEN prints[key] ELSE NULL
           status == ObservationStatus(print, now)
           left   == TimeToResolution(d.market, now)
           snap   == TwapSnapshot(spec, print, left)
           touched == Touch(d.samples, "rtds", print.at)
           informed == [d EXCEPT !.samples = touched, !.print = print, !.snap = snap,
                                 !.info = FirstKnown(<<d.given, TwapInfo(d.market, snap)>>)]
<1>1. TwapGate(d) = IF ~TwapEnabled \/ ~spec.twap THEN d
                    ELSE IF ~spec.complete THEN Refuse(d, spec.skip)
                    ELSE IF status = "missing" THEN Refuse(d, "TWAP_OBSERVATION_MISSING")
                    ELSE IF status = "stale" THEN Refuse(d, "TWAP_OBSERVATION_STALE")
                    ELSE IF left = NULL THEN Refuse(d, "UNKNOWN_RESOLUTION")
                    ELSE informed
  BY Zenon DEF TwapGate
<1>2. ASSUME status # "missing", status # "stale"
      PROVE  print # NULL /\ ObservationAge(print, now) <= MaxAge["rtds"]
  <2>1. print # NULL
    BY <1>2 DEF ObservationStatus
  <2>2. ~(ObservationAge(print, now) > MaxAge["rtds"])
    BY <1>2, <2>1, Zenon DEF ObservationStatus
  <2>3. ObservationAge(print, now) \in Int
    BY <2>1, AgeIs
  <2>4. MaxAge["rtds"] \in Nat
    BY FeedRulesAssumption, EvaluationAssumption
  <2> HIDE DEF print
  <2>5. QED
    BY <2>1, <2>2, <2>3, <2>4
<1>3. ASSUME print # NULL PROVE touched \in Samples
  <2>1. d.samples \in Samples
    BY DEF Decided
  <2>2. print.at \in Int
    BY <1>3 DEF IInv
  <2> HIDE DEF print
  <2>3. QED
    BY <2>1, <2>2, TouchKeeps
<1> HIDE DEF spec, status, left
<1> HIDE DEF snap, print, touched
<1>4. ASSUME status # "missing", status # "stale"
      PROVE  Decided(informed)
  BY <1>2, <1>3, <1>4 DEF Decided, Fields
<1>5. QED
  BY <1>1, <1>4, RefuseIsDecided

LEMMA NewsKeeps ==
  ASSUME IInv, NEW d, Decided(d)
  PROVE  Decided(NewsGate(d))
<1> DEFINE heard == ImpactFor(Items, d.market, d.info, now, seen)
           known == FirstKnown(<<heard.impact.adjusted, d.info>>)
           told  == [d EXCEPT !.news = heard.impact, !.seen = heard.seen, !.info = known]
<1>1. NewsGate(d) = told
  BY Zenon DEF NewsGate
<1>2. Len(Items) \in Nat /\ now \in Int /\ \A i \in 1..Len(Items) : ItemShape(Items[i])
  BY EvaluationAssumption DEF IInv, ItemShape
<1>3. NewsDecided(heard.impact, seen, heard.seen)
  BY <1>2, ImpactForIs
<1> HIDE DEF heard, known
<1>4. Decided(told)
  BY <1>3 DEF Decided, Fields
<1>5. QED
  BY <1>1, <1>4

LEMMA HotKeeps ==
  ASSUME NEW d, Decided(d)
  PROVE  Decided(HotGate(d))
<1>1. ASSUME NEW l, NEW h, NEW s PROVE Decided([d EXCEPT !.labels = l, !.hot = h, !.saved = s])
  <2>1. SameEvidence(d, [d EXCEPT !.labels = l, !.hot = h, !.saved = s])
    BY DEF Decided, Fields, SameEvidence
  <2>2. QED
    BY <2>1, SameIsDecided
<1>2. QED
  BY <1>1, RefuseIsDecided, Zenon DEF HotGate

\* An edge is at most 85 percent sure, or as sure as the default.
LEMMA EvaluateIs ==
  ASSUME NEW market, NEW shares, NEW info, NEW twap
  PROVE  /\ Evaluate(market, shares, info, twap).confidence \in Percent
         /\ "confidence" \in DOMAIN Evaluate(market, shares, info, twap)
<1> DEFINE sure == IF info = NULL THEN DefaultConfidence ELSE Lesser(85, DefaultConfidence + 20)
           surer == IF twap THEN Lesser(85, sure + 5) ELSE sure
<1>1. sure \in Percent /\ surer \in Percent /\ DefaultConfidence \in Percent /\ 0 \in Percent
  BY FairValueAssumption DEF Lesser, Percent
<1> DEFINE edge == Evaluate(market, shares, info, twap)
<1>2. edge.confidence \in {0, DefaultConfidence, surer} /\ "confidence" \in DOMAIN edge
  BY DEF Evaluate, NoEdge
<1> HIDE DEF edge, sure, surer
<1>3. QED
  BY <1>1, <1>2 DEF edge

LEMMA EdgeKeeps ==
  ASSUME NEW d, Decided(d)
  PROVE  Decided(EdgeGate(d))
<1> DEFINE edge == Evaluate(d.market, FirstKnown(<<d.market.minSize, ProbeShares>>), d.info, d.snap # NULL)
           lower == [edge EXCEPT !.confidence = Lesser(edge.confidence, d.news.confidence)]
           sure == IF d.news.apply THEN lower ELSE edge
           valued == [d EXCEPT !.edge = sure]
<1>1. EdgeGate(d) = IF edge.skip THEN Refuse(valued, edge.reason) ELSE valued
  BY Zenon DEF EdgeGate
<1>2. edge.confidence \in Percent /\ "confidence" \in DOMAIN edge
  BY EvaluateIs
<1> HIDE DEF edge
<1>3. ASSUME d.news.apply PROVE lower.confidence \in Percent
  <2>1. d.news.confidence \in Nat
    BY <1>3 DEF Decided, NewsDecided
  <2>2. lower.confidence = Lesser(edge.confidence, d.news.confidence)
    BY <1>2
  <2>3. QED
    BY <1>2, <2>1, <2>2 DEF Lesser, Percent
<1> HIDE DEF lower
<1>4. sure.confidence \in Percent
  BY <1>2, <1>3
<1> HIDE DEF sure
<1>5. Decided(valued)
  BY <1>4 DEF Decided, Fields
<1> HIDE DEF valued
<1>6. QED
  BY <1>1, <1>5, RefuseIsDecided

LEMMA RegimeKeeps ==
  ASSUME NEW d, Decided(d)
  PROVE  Decided(RegimeGate(d))
<1>1. ASSUME NEW x PROVE Decided([d EXCEPT !.opportunity = x])
  <2>1. SameEvidence(d, [d EXCEPT !.opportunity = x])
    BY DEF Decided, Fields, SameEvidence
  <2>2. QED
    BY <2>1, SameIsDecided
<1>2. QED
  BY <1>1, RefuseIsDecided, Zenon DEF RegimeGate

\* A gate is only asked while no gate has refused.
LEMMA GatesKeep ==
  ASSUME IInv, NEW d, Decided(d)
  PROVE  Decided(Gates(d))
<1>1. ASSUME NEW e, Decided(e) PROVE Decided(Then(e, AcceptsGate))
  BY <1>1, AcceptsKeeps DEF Then
<1>2. ASSUME NEW e, Decided(e) PROVE Decided(Then(e, EsportsGate))
  BY <1>2, EsportsKeeps DEF Then
<1>3. ASSUME NEW e, Decided(e) PROVE Decided(Then(e, WeatherGate))
  BY <1>3, WeatherKeeps DEF Then
<1>4. ASSUME NEW e, Decided(e) PROVE Decided(Then(e, SportsGate))
  BY <1>4, SportsKeeps DEF Then
<1>5. ASSUME NEW e, Decided(e) PROVE Decided(Then(e, TwapGate))
  BY <1>5, TwapKeeps DEF Then
<1>6. ASSUME NEW e, Decided(e) PROVE Decided(Then(e, NewsGate))
  BY <1>6, NewsKeeps DEF Then
<1>7. ASSUME NEW e, Decided(e) PROVE Decided(Then(e, HotGate))
  BY <1>7, HotKeeps DEF Then
<1>8. ASSUME NEW e, Decided(e) PROVE Decided(Then(e, EdgeGate))
  BY <1>8, EdgeKeeps DEF Then
<1>9. ASSUME NEW e, Decided(e) PROVE Decided(Then(e, RegimeGate))
  BY <1>9, RegimeKeeps DEF Then
<1>10. QED
  BY <1>1, <1>2, <1>3, <1>4, <1>5, <1>6, <1>7, <1>8, <1>9 DEF Gates

\* Neither the age nor the future of a fresh observation is beyond its limit.
LEMMA AgedIs ==
  ASSUME now \in Int, NEW s, NEW feed \in Feeds, s[feed] \in Int,
         ~(FeedAge(s, feed, now) > MaxAge[feed])
  PROVE  Fresh(s[feed], feed)
<1> DEFINE at == s[feed]
<1>1. /\ MaxAge[feed] \in Nat /\ SkewTolerance \in Nat /\ MaxAge[feed] < Forever
      /\ at # NULL
  BY FeedRulesAssumption, EvaluationAssumption
<1>2. CASE at - now > SkewTolerance
  <2>1. FeedAge(s, feed, now) = Forever
    BY <1>1, <1>2 DEF FeedAge
  <2>2. QED
    BY <1>1, <2>1 DEF Forever
<1>3. CASE ~(at - now > SkewTolerance)
  <2>1. FeedAge(s, feed, now) = Greater(0, now - at)
    BY <1>1, <1>3 DEF FeedAge
  <2>2. ~(Greater(0, now - at) > MaxAge[feed])
    BY <2>1
  <2> HIDE DEF at
  <2>3. at \in Int
    BY DEF at
  <2>4. Fresh(at, feed)
    BY <1>1, <1>3, <2>2, <2>3 DEF Greater, Fresh
  <2>5. QED
    BY <2>4 DEF at
<1>4. QED
  BY <1>2, <1>3

\* The clock holds the market's own observations after it was touched.
LEMMA TouchedIs ==
  ASSUME IInv, NEW market, Dated(market)
  PROVE  /\ Touched(market) \in Samples
         /\ market.book # NULL => Touched(market)["clob_book"] = market.book.at
         /\ market.fees.enabled # NULL => Touched(market)["clob_fees"] = market.fees.at
<1>1. samples \in Samples /\ {"clob_book", "clob_fees"} \subseteq Feeds
  BY EvaluationAssumption DEF IInv
<1> DEFINE first == Touch(samples, "gamma", market.at)
           second == TouchedBook(market, first)
<1>2. first \in Samples
  BY <1>1, TouchKeeps DEF Dated
<1> HIDE DEF first
<1>3. second \in Samples
  BY <1>2, TouchKeeps DEF TouchedBook, Dated
<1>4. market.book # NULL => second["clob_book"] = market.book.at
  BY <1>1, <1>2 DEF TouchedBook, Touch, Samples
<1> HIDE DEF second
<1>5. TouchedFees(market, second) \in Samples
  BY <1>3, TouchKeeps DEF TouchedFees, Dated
<1>6. /\ TouchedFees(market, second)["clob_book"] = second["clob_book"]
      /\ market.fees.enabled # NULL => TouchedFees(market, second)["clob_fees"] = market.fees.at
  BY <1>1, <1>3 DEF TouchedFees, Touch, Samples
<1>7. Touched(market) = TouchedFees(market, second)
  BY DEF Touched, second, first
<1>8. QED
  BY <1>4, <1>5, <1>6, <1>7

\* A market whose feeds are not stale was observed within their limits.
FreshMarket(market) ==
    /\ market.book # NULL => Fresh(market.book.at, "clob_book")
    /\ market.fees.enabled # NULL => Fresh(market.fees.at, "clob_fees")

LEMMA NotStaleIs ==
  ASSUME IInv, NEW market, Dated(market), Stale(market, now) = {}
  PROVE  FreshMarket(market)
<1> DEFINE touched == Touched(market)
<1>1. \A feed \in CriticalFeeds : touched[feed] # NULL => ~(FeedAge(touched, feed, now) > MaxAge[feed])
  BY DEF Stale, CriticalStale
<1>2. {"clob_book", "clob_fees"} \subseteq CriticalFeeds /\ {"clob_book", "clob_fees"} \subseteq Feeds
      /\ NULL \notin Int /\ now \in Int
  BY EvaluationAssumption DEF IInv
<1> HIDE DEF touched
<1>3. ASSUME market.book # NULL PROVE Fresh(market.book.at, "clob_book")
  <2>1. touched["clob_book"] = market.book.at /\ market.book.at \in Int
    BY <1>3, TouchedIs DEF Dated, touched
  <2>2. ~(FeedAge(touched, "clob_book", now) > MaxAge["clob_book"])
    BY <1>1, <1>2, <2>1
  <2>3. QED
    BY <1>2, <2>1, <2>2, AgedIs
<1>4. ASSUME market.fees.enabled # NULL PROVE Fresh(market.fees.at, "clob_fees")
  <2>1. touched["clob_fees"] = market.fees.at /\ market.fees.at \in Int
    BY <1>4, TouchedIs DEF Dated, touched
  <2>2. ~(FeedAge(touched, "clob_fees", now) > MaxAge["clob_fees"])
    BY <1>1, <1>2, <2>1
  <2>3. QED
    BY <1>2, <2>1, <2>2, AgedIs
<1>5. QED
  BY <1>3, <1>4 DEF FreshMarket

\* Only a market of fresh feeds gets beyond the clock.
LEMMA ClockKeeps ==
  ASSUME IInv, NEW d, Decided(d), Dated(d.market), d.reason = NULL, NEW latency,
         NEW e, e = ClockGate(d, latency)
  PROVE  /\ Decided(e)
         /\ e.reason = NULL => FreshMarket(d.market)
         /\ e.reason # NULL => e.reason # "CANDIDATE"
<1> DEFINE touched == [d EXCEPT !.samples = Touched(d.market)]
<1>1. Decided(touched) /\ touched.reason = NULL
  <2>1. Touched(d.market) \in Samples
    BY TouchedIs
  <2>2. QED
    BY <2>1 DEF Decided, Fields
<1>2. e = IF latency < 0 \/ FutureBook(d.market, now) THEN Refuse(d, "CLOCK_SKEW")
          ELSE IF Stale(d.market, now) # {} THEN Refuse(touched, "STALE_DATA") ELSE touched
  BY Zenon DEF ClockGate
<1> HIDE DEF touched
<1>3. NULL # "CLOCK_SKEW" /\ NULL # "STALE_DATA"
  BY EvaluationAssumption
<1>4. /\ Decided(Refuse(d, "CLOCK_SKEW")) /\ Refuse(d, "CLOCK_SKEW").reason = "CLOCK_SKEW"
      /\ Decided(Refuse(touched, "STALE_DATA")) /\ Refuse(touched, "STALE_DATA").reason = "STALE_DATA"
  BY <1>1, RefuseKeeps, RefuseIsDecided DEF Decided
<1>5. Stale(d.market, now) = {} => FreshMarket(d.market)
  BY NotStaleIs
<1>6. QED
  BY <1>1, <1>2, <1>3, <1>4, <1>5

LEMMA FirstKnownIs ==
  ASSUME NEW a, NEW b
  PROVE  FirstKnown(<<a, b>>) \in {a, b, NULL}
<1> DEFINE values == <<a, b>>
           known == {i \in DOMAIN values : values[i] # NULL}
           least == CHOOSE i \in known : \A j \in known : i <= j
<1>1. FirstKnown(<<a, b>>) = IF known = {} THEN NULL ELSE values[least]
  BY Zenon DEF FirstKnown
<1>2. known \in SUBSET {1, 2}
  OBVIOUS
<1>3. ASSUME known # {} PROVE least \in known
  <2>1. \E i \in known : \A j \in known : i <= j
    <3>1. known \in SUBSET Nat
      BY <1>2
    <3> HIDE DEF known
    <3>2. QED
      BY <1>3, <3>1, LeastNat
  <2> HIDE DEF known
  <2>2. QED
    BY <2>1, Zenon
<1>4. values[1] = a /\ values[2] = b
  OBVIOUS
<1> HIDE DEF least, values
<1>5. QED
  BY <1>1, <1>2, <1>3, <1>4

\* The spread of a book of numbers is a number, or unknown.
LEMMA BookSpreadIs ==
  ASSUME NEW book, Ladders(book)
  PROVE  BookSpread(book) \in Amounts
<1>1. ASSUME TwoSided(book) PROVE BestBid(book) \in Nat /\ BestAsk(book) \in Nat
  <2>1. 1 \in 1..Len(book.bids) /\ 1 \in 1..Len(book.asks)
    BY <1>1 DEF TwoSided, Ladders
  <2>2. QED
    BY <1>1, <2>1, LevelIs DEF TwoSided, Ladders, BestBid, BestAsk
<1>2. QED
  BY <1>1 DEF BookSpread, Amounts

\* The spread of the features is that of the market.
LEMMA FeaturesSpread ==
  ASSUME NEW market, NEW h, NEW events, NEW t
  PROVE  Features(market, h, events, t).spread = EffectiveSpread(market)
BY DEF Features

LEMMA SpreadIs ==
  ASSUME NEW market, Dated(market)
  PROVE  EffectiveSpread(market) \in Amounts
BY BookSpreadIs DEF EffectiveSpread, Dated

\* The decision on a market: its evidence is fresh, and its news are new.
LEMMA DecideIs ==
  ASSUME IInv, NEW market, Dated(market), NEW latency, NEW given,
         NEW e, e = Decide(market, latency, given)
  PROVE  /\ Decided(e)
         /\ e.reason = "CANDIDATE" => FreshMarket(market)
<1> DEFINE d == [market |-> market, category |-> InferCategory(market.tags, market.category),
                 reason |-> NULL, given |-> given, info |-> given, samples |-> samples, seen |-> seen,
                 features |-> Features(market, history[market.id], <<>>, now),
                 state |-> NULL, forecast |-> NULL, print |-> NULL, snap |-> NULL, news |-> NoImpact,
                 labels |-> <<>>, hot |-> NULL, saved |-> NULL, edge |-> NoEdge("NONE"), opportunity |-> NULL]
           gated == ClockGate(d, latency)
<1>1. e = Then(gated, Gates)
  BY Zenon DEF Decide
<1>2. d.market = market /\ d.reason = NULL
  OBVIOUS
<1>3. Decided(d)
  <2>1. DOMAIN d = Fields
    BY DEF Fields
  <2>2. d.samples = samples /\ d.print = NULL /\ d.state = NULL /\ d.snap = NULL /\ d.seen = seen
        /\ d.news = NoImpact
    OBVIOUS
  <2>3. d.features.spread \in Amounts
    BY FeaturesSpread, SpreadIs
  <2>4. d.edge.confidence \in Percent
    BY DEF NoEdge, Percent
  <2>5. NewsDecided(d.news, seen, d.seen)
    BY DEF NewsDecided, NoImpact
  <2> HIDE DEF d
  <2>6. QED
    BY <2>1, <2>2, <2>3, <2>4, <2>5 DEF Decided, IInv
<1> HIDE DEF d
<1>4. /\ Decided(gated)
      /\ gated.reason = NULL => FreshMarket(market)
      /\ gated.reason # NULL => gated.reason # "CANDIDATE"
  BY <1>2, <1>3, ClockKeeps
<1> HIDE DEF gated
<1>5. e = IF gated.reason = NULL THEN Gates(gated) ELSE gated
  BY <1>1 DEF Then
<1>6. QED
  BY <1>4, <1>5, GatesKeep

-----------------------------------------------------------------------------
(* A scan dates what it returns *)

LEMMA ListedIs ==
  ASSUME NEW row, RowShape(row), NEW t \in Int, NEW listed, listed = Listed(row, t)
  PROVE  /\ DOMAIN listed = DOMAIN row /\ "at" \in DOMAIN listed.fees
         /\ listed.book = NULL /\ listed.at = t /\ listed.fees.at = t
         /\ listed.spread \in Amounts
<1> DEFINE quoted == IF row.bid = NULL \/ row.ask = NULL THEN NULL ELSE Greater(0, row.ask - row.bid)
           spread == FirstKnown(<<row.spread, quoted>>)
           category == InferCategory(row.tags, row.category)
           tradeable == Tradeable(row.text)
<1>1. listed = [row EXCEPT !.category = category, !.spread = spread, !.fees.at = t, !.at = t,
                           !.tradeable = tradeable]
  BY Zenon DEF Listed
<1>2. quoted \in Amounts /\ row.spread \in Amounts
  BY DEF RowShape, Amounts, Greater
<1> HIDE DEF quoted
<1>3. spread \in Amounts
  BY <1>2, FirstKnownIs DEF Amounts
<1> HIDE DEF spread, category, tradeable
<1>4. {"at", "book", "fees", "spread"} \subseteq DOMAIN row /\ "at" \in DOMAIN row.fees /\ row.book = NULL
  BY DEF RowShape
<1>5. QED
  BY <1>1, <1>3, <1>4

LEMMA BookedIs ==
  ASSUME NEW listed, {"at", "book", "fees", "spread"} \subseteq DOMAIN listed, listed.book = NULL,
         listed.spread \in Amounts, NEW t \in Int, NEW answer,
         answer # NULL => {"at", "bids", "asks"} \subseteq DOMAIN answer /\ Ladders(answer),
         NEW booked, booked = WithBook(listed, answer, t)
  PROVE  /\ DOMAIN booked = DOMAIN listed /\ booked.at = listed.at /\ booked.fees = listed.fees
         /\ booked.book # NULL => booked.book.at = t /\ Ladders(booked.book)
         /\ booked.spread \in Amounts
<1>1. CASE answer = NULL \/ listed.token = NULL
  BY <1>1 DEF WithBook
<1>2. CASE ~(answer = NULL \/ listed.token = NULL)
  <2> DEFINE book == [answer EXCEPT !.at = t]
             bid == FirstKnown(<<BestBid(book), listed.bid>>)
             ask == FirstKnown(<<BestAsk(book), listed.ask>>)
             spread == FirstKnown(<<BookSpread(book), listed.spread>>)
             minSize == FirstKnown(<<book.minSize, listed.minSize>>)
             tick == FirstKnown(<<book.tick, listed.tick>>)
  <2>1. booked = [listed EXCEPT !.book = book, !.bid = bid, !.ask = ask, !.spread = spread,
                                !.minSize = minSize, !.tick = tick]
    BY <1>2, Zenon DEF WithBook
  <2>2. book.at = t /\ book.bids = answer.bids /\ book.asks = answer.asks
    BY <1>2
  <2>3. Ladders(book)
    BY <1>2, <2>2 DEF Ladders
  <2> HIDE DEF book
  <2>4. spread \in Amounts
    BY <2>3, BookSpreadIs, FirstKnownIs DEF Amounts
  <2> HIDE DEF bid, ask, spread
  <2> HIDE DEF minSize, tick
  <2>5. QED
    BY <2>1, <2>2, <2>3, <2>4
<1>3. QED
  BY <1>1, <1>2

LEMMA FeesKeep ==
  ASSUME NEW booked, {"at", "book", "fees", "spread"} \subseteq DOMAIN booked,
         "at" \in DOMAIN booked.fees, NEW answer, NEW market, market = WithFees(booked, answer)
  PROVE  /\ market.book = booked.book /\ market.at = booked.at /\ market.spread = booked.spread
         /\ market.fees.at = booked.fees.at
BY DEF WithFees

LEMMA ScannedIs ==
  ASSUME NEW row, RowShape(row), NEW t \in Int
  PROVE  Dated(Scanned(row, t))
<1> DEFINE listed == Listed(row, t)
           booked == WithBook(listed, row.answers.book, t)
           market == WithFees(booked, row.answers.fees)
<1>1. Scanned(row, t) = market
  BY DEF Scanned
<1>2. {"at", "book", "fees", "spread"} \subseteq DOMAIN row
  BY DEF RowShape
<1>3. /\ DOMAIN listed = DOMAIN row /\ "at" \in DOMAIN listed.fees
      /\ listed.book = NULL /\ listed.at = t /\ listed.fees.at = t
      /\ listed.spread \in Amounts
  BY ListedIs
<1>4. row.answers.book # NULL =>
        {"at", "bids", "asks"} \subseteq DOMAIN row.answers.book /\ Ladders(row.answers.book)
  BY DEF RowShape
<1> HIDE DEF listed
<1>5. /\ DOMAIN booked = DOMAIN listed /\ booked.at = listed.at /\ booked.fees = listed.fees
      /\ booked.book # NULL => booked.book.at = t /\ Ladders(booked.book)
      /\ booked.spread \in Amounts
  BY <1>2, <1>3, <1>4, BookedIs
<1> HIDE DEF booked
<1>6. /\ market.book = booked.book /\ market.at = booked.at /\ market.spread = booked.spread
      /\ market.fees.at = booked.fees.at
  BY <1>2, <1>3, <1>5, FeesKeep
<1> HIDE DEF market
<1>7. QED
  BY <1>1, <1>3, <1>5, <1>6 DEF Dated

\* The markets kept of the first rows.
KeptFunction(m, rows, t, n) == m = [k \in 0..n |-> IF k = 0 THEN <<>> ELSE Admit(m[k - 1], rows[k], t)]

LEMMA KeptExists ==
  ASSUME NEW n \in Nat, NEW rows, NEW t
  PROVE  \E m : KeptFunction(m, rows, t, n)
<1> DEFINE Bad == {k \in 0..n : ~ \E m : KeptFunction(m, rows, t, k)}
<1>1. SUFFICES ASSUME Bad # {} PROVE FALSE
  OBVIOUS
<1>2. PICK k \in Bad : \A j \in Bad : k <= j
  <2>1. Bad \in SUBSET Nat
    OBVIOUS
  <2>2. QED
    BY <1>1, <2>1, LeastNat
<1>3. k # 0
  <2>1. KeptFunction([i \in 0..0 |-> <<>>], rows, t, 0)
    BY DEF KeptFunction
  <2>2. QED
    BY <2>1
<1>4. k - 1 \in 0..n /\ k - 1 \notin Bad
  BY <1>2, <1>3
<1>5. PICK q : KeptFunction(q, rows, t, k - 1)
  BY <1>4
<1> DEFINE r == [i \in 0..k |-> IF i = k THEN Admit(q[k - 1], rows[k], t) ELSE q[i]]
<1>6. ASSUME NEW i \in 0..k
      PROVE  r[i] = IF i = 0 THEN <<>> ELSE Admit(r[i - 1], rows[i], t)
  <2>1. CASE i = k
    <3>1. k - 1 \in 0..k /\ k - 1 # k
      BY <1>3
    <3>2. r[k - 1] = q[k - 1]
      BY <3>1
    <3>3. QED
      BY <2>1, <3>2, <1>3
  <2>2. CASE i # k
    <3>1. i \in 0..(k - 1)
      BY <2>2
    <3>2. q[i] = IF i = 0 THEN <<>> ELSE Admit(q[i - 1], rows[i], t)
      BY <1>5, <3>1 DEF KeptFunction
    <3>3. i # 0 => r[i - 1] = q[i - 1]
      BY <3>1
    <3>4. QED
      BY <2>2, <3>2, <3>3
  <2>3. QED
    BY <2>1, <2>2
<1>7. KeptFunction(r, rows, t, k)
  BY <1>6, Zenon DEF KeptFunction
<1>8. QED
  BY <1>2, <1>7

LEMMA AdmitKeeps ==
  ASSUME NEW S, NEW markets \in Seq(S), \A i \in DOMAIN markets : Dated(markets[i]),
         NEW row, RowShape(row), NEW t \in Int
  PROVE  \E R : /\ Admit(markets, row, t) \in Seq(R)
                /\ \A i \in DOMAIN Admit(markets, row, t) : Dated(Admit(markets, row, t)[i])
<1> DEFINE market == Scanned(row, t)
           more == Append(markets, market)
           R == S \cup {market}
<1>1. Dated(market)
  BY ScannedIs
<1> HIDE DEF market
<1>2. markets \in Seq(R) /\ more \in Seq(R)
  <2>1. S \subseteq R
    OBVIOUS
  <2>2. markets \in Seq(R)
    BY <2>1
  <2>3. QED
    BY <2>2
<1>3. \A i \in DOMAIN more : Dated(more[i])
  <2>1. ASSUME NEW i \in DOMAIN more PROVE Dated(more[i])
    <3>1. CASE i = Len(markets) + 1
      BY <1>1, <3>1
    <3>2. CASE i # Len(markets) + 1
      <4>1. i \in DOMAIN markets /\ more[i] = markets[i]
        BY <3>2
      <4>2. QED
        BY <4>1
    <3>3. QED
      BY <3>1, <3>2
  <2>2. QED
    BY <2>1
<1>4. Admit(markets, row, t) \in {markets, more}
  BY DEF Admit, market
<1> HIDE DEF more, R
<1>5. CASE Admit(markets, row, t) = markets
  BY <1>5
<1>6. CASE Admit(markets, row, t) = more
  BY <1>2, <1>3, <1>6
<1>7. QED
  BY <1>4, <1>5, <1>6

Scans(markets) == \E R : markets \in Seq(R) /\ \A i \in DOMAIN markets : Dated(markets[i])

LEMMA ScanIs ==
  ASSUME NEW rows \in Rows, NEW t \in Int
  PROVE  Scans(ScanRows(rows, t))
<1> DEFINE n == Len(rows)
           m == CHOOSE f : f = [k \in 0..n |-> IF k = 0 THEN <<>> ELSE Admit(f[k - 1], rows[k], t)]
<1>1. /\ n \in Nat /\ DOMAIN rows = 1..n
      /\ \A i \in DOMAIN rows : RowShape(rows[i])
  BY EvaluationAssumption
<1>2. ScanRows(rows, t) = m[n]
  BY Zenon DEF ScanRows
<1>3. KeptFunction(m, rows, t, n)
  <2>1. \E f : KeptFunction(f, rows, t, n)
    BY <1>1, KeptExists
  <2>2. QED
    BY <2>1, Zenon DEF KeptFunction
<1> HIDE DEF m, n
<1>4. \A k \in 0..n : m[k] = IF k = 0 THEN <<>> ELSE Admit(m[k - 1], rows[k], t)
  BY <1>3, Zenon DEF KeptFunction
<1> DEFINE Bad == {k \in 0..n : ~Scans(m[k])}
<1>5. SUFFICES ASSUME Bad # {} PROVE FALSE
  BY <1>1, <1>2
<1>6. PICK k \in Bad : \A j \in Bad : k <= j
  <2>1. Bad \in SUBSET Nat
    BY <1>1
  <2>2. QED
    BY <1>5, <2>1, LeastNat
<1>7. k # 0
  <2>1. m[0] = <<>>
    BY <1>1, <1>4
  <2>2. <<>> \in Seq({}) /\ DOMAIN <<>> = {}
    OBVIOUS
  <2>3. Scans(m[0])
    BY <2>1, <2>2 DEF Scans
  <2>4. QED
    BY <2>3
<1>8. k \in 1..n /\ k - 1 \in 0..n /\ k - 1 \notin Bad
  BY <1>1, <1>6, <1>7
<1>9. PICK S : m[k - 1] \in Seq(S) /\ \A i \in DOMAIN m[k - 1] : Dated(m[k - 1][i])
  BY <1>8 DEF Scans
<1>10. m[k] = Admit(m[k - 1], rows[k], t) /\ RowShape(rows[k])
  <2>1. k \in 0..n /\ k # 0 /\ k \in DOMAIN rows
    BY <1>1, <1>8
  <2>2. m[k] = Admit(m[k - 1], rows[k], t)
    BY <1>4, <2>1, Zenon
  <2>3. RowShape(rows[k])
    BY <1>1, <2>1, Zenon
  <2>4. QED
    BY <2>2, <2>3
<1>11. Scans(m[k])
  BY <1>9, <1>10, AdmitKeeps DEF Scans
<1>12. QED
  BY <1>11

-----------------------------------------------------------------------------
(* The steps *)

LEMMA InitInv == Init => IInv
<1> SUFFICES ASSUME Init PROVE IInv
  OBVIOUS
<1>1. samples \in Samples
  BY DEF Init, NoSamples, Samples
<1>2. history \in [MarketIds -> Seq(Nat)] /\ \A m \in MarketIds : Len(history[m]) <= HistoryLength
  BY EvaluationAssumption DEF Init
<1>3. decision.edge.confidence \in Percent
  BY DEF Init, NoDecision, NoEdge, Percent
<1>4. universe \in Seq(ToSet(universe)) /\ DOMAIN universe = {}
  BY DEF Init, ToSet
<1>5. Len(games) = 0 /\ DOMAIN games = {} /\ DOMAIN prints = {}
  BY DEF Init
<1>6. now \in Int /\ killed = {} /\ applied = {}
  BY DEF Init
<1>7. QED
  BY <1>1, <1>2, <1>3, <1>4, <1>5, <1>6 DEF IInv

\* A recorded history is no longer than its limit.
LEMMA RecordedIs ==
  ASSUME NEW h \in Seq(Nat), Len(h) <= HistoryLength, NEW spread \in Amounts
  PROVE  Recorded(h, spread) \in Seq(Nat) /\ Len(Recorded(h, spread)) <= HistoryLength
<1>1. CASE spread = NULL
  BY <1>1 DEF Recorded
<1>2. CASE spread # NULL
  <2> DEFINE all == Append(h, spread)
             first == Greater(1, Len(all) - HistoryLength + 1)
             last == Len(all)
  <2>1. all \in Seq(Nat) /\ last \in Nat /\ last >= 1
    BY <1>2 DEF Amounts
  <2>2. HistoryLength \in Nat \ {0}
    BY EvaluationAssumption
  <2>3. first \in 1..last /\ last - first + 1 <= HistoryLength /\ first <= last
    BY <2>1, <2>2 DEF Greater
  <2>4. Recorded(h, spread) = SubSeq(all, first, last)
    BY <1>2, Zenon DEF Recorded
  <2> HIDE DEF first, all
  <2>5. first \in 1..Len(all) + 1 /\ last \in 0..Len(all)
    BY <2>1, <2>3
  <2>6. SubSeq(all, first, last) \in Seq(Nat) /\ Len(SubSeq(all, first, last)) = last - first + 1
    <3> HIDE DEF last
    <3>1. /\ SubSeq(all, first, last) \in Seq(Nat)
          /\ Len(SubSeq(all, first, last)) = IF first <= last THEN last - first + 1 ELSE 0
      BY <2>1, <2>5, SubSeqProperties
    <3>2. QED
      BY <2>3, <3>1
  <2>7. QED
    BY <2>3, <2>4, <2>6
<1>3. QED
  BY <1>1, <1>2

LEMMA ScanStep ==
  ASSUME IInv, NEW rows \in Rows, ScanUniverse(rows)
  PROVE  IInv' /\ decision' = decision /\ evaluations' = evaluations
<1>1. universe' = ScanRows(rows, now) /\ now \in Int
  BY DEF ScanUniverse, IInv
<1>2. Scans(universe')
  BY <1>1, ScanIs
<1>3. universe' \in Seq(ToSet(universe')) /\ \A i \in DOMAIN universe' : Dated(universe'[i])
  BY <1>2 DEF Scans, ToSet
<1>4. QED
  BY <1>3 DEF IInv, ScanUniverse

LEMMA PrintStep ==
  ASSUME IInv, NEW print \in Prints, NewPrint(print)
  PROVE  IInv' /\ decision' = decision /\ evaluations' = evaluations
<1> DEFINE kept == [print EXCEPT !.at = now, !.payload = IF @ = NULL THEN NULL ELSE now + @]
<1>1. prints' = [key \in DOMAIN prints \cup {print.key} |-> IF key = print.key THEN kept ELSE prints[key]]
  BY DEF NewPrint
<1>2. kept.at \in Int /\ kept.payload \in Int \cup {NULL}
  BY EvaluationAssumption DEF IInv
<1> HIDE DEF kept
<1>3. \A key \in DOMAIN prints' : prints'[key].at \in Int /\ prints'[key].payload \in Int \cup {NULL}
  BY <1>1, <1>2 DEF IInv
<1>4. QED
  BY <1>3 DEF IInv, NewPrint

LEMMA StateStep ==
  ASSUME IInv, NEW state \in States, NewState(state)
  PROVE  IInv' /\ decision' = decision /\ evaluations' = evaluations
<1> DEFINE kept == [state EXCEPT !.at = now]
<1>1. games' = <<kept>>
  BY DEF NewState
<1>2. kept.at \in Int
  BY EvaluationAssumption DEF IInv
<1> HIDE DEF kept
<1>3. Len(games') = 1 /\ DOMAIN games' = 1..1 /\ \A i \in DOMAIN games' : games'[i].at \in Int
  BY <1>1, <1>2
<1> HIDE DEF kept
<1>4. UNCHANGED <<now, universe, samples, history, prints, seen, killed, decision, saved, applied, evaluations, moves>>
  BY DEF NewState
<1>5. QED
  BY <1>3, <1>4 DEF IInv

LEMMA ClockStep ==
  ASSUME IInv, NEW step \in Steps, ClockMoves(step)
  PROVE  IInv' /\ decision' = decision /\ evaluations' = evaluations
BY EvaluationAssumption DEF IInv, ClockMoves

\* What an evaluation leaves, and what it is based on.
LEMMA EvaluateStep ==
  ASSUME IInv, NEW i \in DOMAIN universe, NEW call \in Calls, EvaluateMarket(universe[i], call)
  PROVE  /\ IInv'
         /\ decision'.reason = "CANDIDATE" => FreshMarket(decision'.market)
         /\ decision'.print # NULL => ObservationAge(decision'.print, now) <= MaxAge["rtds"]
         /\ decision'.state # NULL => now - decision'.state.at <= MaxAge["sports_ws"]
         /\ decision'.snap # NULL => decision'.print # NULL
         /\ decision'.news.apply => decision'.news.key \notin applied
<1> DEFINE market == universe[i]
           d == Decide(market, call.latency, call.info)
           recorded == Recorded(history[market.id], d.features.spread)
<1>1. /\ samples' = d.samples /\ seen' = d.seen
      /\ history' = IF d.reason \in {"CLOCK_SKEW", "STALE_DATA"} THEN history
                    ELSE [history EXCEPT ![market.id] = recorded]
      /\ killed' = killed \cup (IF d.reason = "STALE_DATA" THEN {"STALE_CRITICAL_DATA"} ELSE {})
      /\ applied' = applied \cup (IF d.news.apply THEN {d.news.key} ELSE {})
      /\ decision'.reason = d.reason /\ decision'.market = market /\ decision'.print = d.print
      /\ decision'.state = d.state /\ decision'.snap = d.snap /\ decision'.news = d.news
      /\ decision'.edge = d.edge
      /\ UNCHANGED <<now, universe, prints, games>>
  <2>1. EvaluateMarket(market, call)
    OBVIOUS
  <2> HIDE DEF d, market
  <2> DEFINE Decides(e) == [reason |-> e.reason, market |-> market, info |-> e.info, snap |-> e.snap,
                            state |-> e.state, print |-> e.print, news |-> e.news, labels |-> e.labels,
                            edge |-> e.edge, opportunity |-> e.opportunity,
                            codes |-> SkipReasons(e.reason, {}, e.features, e.reason = "CANDIDATE")]
             Records(e) == IF e.reason \in {"CLOCK_SKEW", "STALE_DATA"} THEN history
                           ELSE [history EXCEPT ![market.id] = Recorded(history[market.id], e.features.spread)]
             Leaves(e) ==
                /\ samples' = e.samples /\ seen' = e.seen
                /\ history' = Records(e)
                /\ killed' = killed \cup (IF e.reason = "STALE_DATA" THEN {"STALE_CRITICAL_DATA"} ELSE {})
                /\ applied' = applied \cup (IF e.news.apply THEN {e.news.key} ELSE {})
                /\ decision' = Decides(e)
                /\ UNCHANGED <<now, universe, prints, games>>
  <2>2. PICK e \in {Decide(market, call.latency, call.info)} : Leaves(e)
    <3>1. \E e \in {Decide(market, call.latency, call.info)} : Leaves(e)
      BY <2>1, Zenon DEF EvaluateMarket
    <3>2. QED
      BY <3>1
  <2>3. e = d
    BY <2>2 DEF d
  <2> HIDE DEF Leaves
  <2>4. Leaves(d)
    BY <2>2, <2>3
  <2> HIDE DEF Records, Decides
  <2>5. decision' = Decides(d)
    BY <2>4 DEF Leaves
  <2>6. /\ decision'.reason = d.reason /\ decision'.market = market /\ decision'.print = d.print
        /\ decision'.state = d.state /\ decision'.snap = d.snap /\ decision'.news = d.news
        /\ decision'.edge = d.edge
    BY <2>5 DEF Decides
  <2>7. /\ samples' = d.samples /\ seen' = d.seen
        /\ killed' = killed \cup (IF d.reason = "STALE_DATA" THEN {"STALE_CRITICAL_DATA"} ELSE {})
        /\ applied' = applied \cup (IF d.news.apply THEN {d.news.key} ELSE {})
        /\ UNCHANGED <<now, universe, prints, games>>
    BY <2>4 DEF Leaves
  <2>8. history' = IF d.reason \in {"CLOCK_SKEW", "STALE_DATA"} THEN history
                   ELSE [history EXCEPT ![market.id] = recorded]
    BY <2>4 DEF Leaves, Records, d
  <2>9. QED
    BY <2>6, <2>7, <2>8
<1>2. Dated(market)
  BY DEF IInv
<1>3. Decided(d) /\ (d.reason = "CANDIDATE" => FreshMarket(market))
  BY <1>2, DecideIs
<1> HIDE DEF d, market
<1>4. /\ history' \in [MarketIds -> Seq(Nat)]
      /\ \A m \in MarketIds : Len(history'[m]) <= HistoryLength
  <2>1. history \in [MarketIds -> Seq(Nat)] /\ \A m \in MarketIds : Len(history[m]) <= HistoryLength
    BY DEF IInv
  <2>2. ASSUME market.id \in MarketIds PROVE recorded \in Seq(Nat) /\ Len(recorded) <= HistoryLength
    <3>1. history[market.id] \in Seq(Nat) /\ Len(history[market.id]) <= HistoryLength
      BY <2>1, <2>2
    <3>2. d.features.spread \in Amounts
      BY <1>3 DEF Decided
    <3>3. QED
      BY <3>1, <3>2, RecordedIs
  <2> HIDE DEF recorded
  <2>3. QED
    BY <1>1, <2>1, <2>2
<1>5. IInv'
  <2>1. samples' \in Samples /\ decision'.edge.confidence \in Percent
    BY <1>1, <1>3 DEF Decided
  <2>2. applied' \subseteq seen'
    BY <1>1, <1>3 DEF IInv, Decided, NewsDecided
  <2>3. killed' \subseteq {"STALE_CRITICAL_DATA"}
    BY <1>1 DEF IInv
  <2>4. UNCHANGED <<now, universe, prints, games>>
    BY <1>1
  <2>5. QED
    BY <1>4, <2>1, <2>2, <2>3, <2>4 DEF IInv
<1>6. d.news.apply => d.news.key \notin applied
  BY <1>3 DEF IInv, Decided, NewsDecided
<1>7. QED
  BY <1>1, <1>3, <1>5, <1>6 DEF Decided

FreshDecision ==
    decision' # decision /\ decision'.reason = "CANDIDATE" =>
      LET market == decision'.market IN
      /\ market.book # NULL => Fresh(market.book.at, "clob_book")
      /\ market.fees.enabled # NULL => Fresh(market.fees.at, "clob_fees")
      /\ decision'.print # NULL => ObservationAge(decision'.print, now) <= MaxAge["rtds"]
      /\ decision'.state # NULL => now - decision'.state.at <= MaxAge["sports_ws"]
      /\ decision'.snap # NULL => decision'.print # NULL

NewShift == evaluations' # evaluations /\ decision'.news.apply => decision'.news.key \notin applied

LEMMA NextInv ==
  ASSUME IInv, [Next]_evaluationVars
  PROVE  IInv' /\ FreshDecision /\ NewShift
<1>1. CASE \E rows \in Rows : ScanUniverse(rows)
  BY <1>1, ScanStep DEF FreshDecision, NewShift
<1>2. CASE \E i \in DOMAIN universe, call \in Calls : EvaluateMarket(universe[i], call)
  BY <1>2, EvaluateStep DEF FreshDecision, NewShift, FreshMarket
<1>3. CASE \E print \in Prints : NewPrint(print)
  BY <1>3, PrintStep DEF FreshDecision, NewShift
<1>4. CASE \E state \in States : NewState(state)
  BY <1>4, StateStep DEF FreshDecision, NewShift
<1>5. CASE \E step \in Steps : ClockMoves(step)
  BY <1>5, ClockStep DEF FreshDecision, NewShift
<1>6. CASE UNCHANGED evaluationVars
  BY <1>6 DEF evaluationVars, IInv, FreshDecision, NewShift, Dated
<1>7. QED
  BY <1>1, <1>2, <1>3, <1>4, <1>5, <1>6 DEF Next

LEMMA InvCorrect == Spec => []IInv
<1>1. IInv /\ [Next]_evaluationVars => IInv'
  BY NextInv
<1>2. QED
  BY InitInv, <1>1, PTL DEF Spec

-----------------------------------------------------------------------------
(* The features of a market *)

\* More levels hold as many shares or more.
LEMMA HeldGrows ==
  ASSUME NEW side \in Seq(Levels), NEW m \in 0..Len(side), NEW n \in 0..m
  PROVE  Held(side, n) <= Held(side, m)
<1> DEFINE H(k) == Held(side, k)
           N == m - n
           T == {k \in 0..N : H(n) <= H(n + k)}
<1>1. Len(side) \in Nat /\ N \in Nat /\ n \in Nat /\ m \in Nat
  OBVIOUS
<1>2. \A k \in 0..Len(side) : H(k) \in Nat
  BY HeldIs
<1>3. \A k \in 1..Len(side) : H(k) = H(k - 1) + side[k].size /\ side[k].size \in Nat
  BY HeldIs, LevelIs
<1> HIDE DEF H
<1>4. 0 \in T
  <2>1. n + 0 = n /\ H(n) \in Nat
    BY <1>1, <1>2
  <2>2. QED
    BY <1>1, <2>1
<1>5. ASSUME NEW k \in 1..N, k - 1 \in T PROVE k \in T
  <2>1. n + k \in 1..Len(side) /\ (n + k) - 1 = n + (k - 1) /\ n \in 0..Len(side)
        /\ n + (k - 1) \in 0..Len(side)
    BY <1>1
  <2>2. H(n) <= H(n + (k - 1))
    BY <1>5
  <2>3. H(n + k) = H(n + (k - 1)) + side[n + k].size /\ side[n + k].size \in Nat
    BY <1>3, <2>1
  <2>4. H(n) \in Nat /\ H(n + (k - 1)) \in Nat
    BY <1>2, <2>1
  <2>5. H(n) <= H(n + k)
    BY <2>2, <2>3, <2>4
  <2>6. QED
    BY <1>1, <2>5
<1>6. N \in T
  <2>1. T \in SUBSET (0..N)
    OBVIOUS
  <2> HIDE DEF T, N
  <2>2. T = 0..N
    BY <1>1, <1>4, <1>5, <2>1, Reaches
  <2>3. QED
    BY <1>1, <2>2
<1>7. n + N = m
  BY <1>1
<1>8. QED
  BY <1>6, <1>7 DEF H

LEMMA TiltIs ==
  ASSUME NEW bids \in Nat, NEW asks \in Nat
  PROVE  WithinOne(Tilt(bids, asks))
BY DEF WithinOne, Tilt

LEMMA ImbalanceIs ==
  ASSUME NEW book, Ladders(book)
  PROVE  WithinOne(Imbalance(book))
<1>1. CASE ~TwoSided(book)
  BY <1>1 DEF Imbalance, WithinOne
<1>2. CASE TwoSided(book)
  <2>1. 1 \in 1..Len(book.bids) /\ 1 \in 1..Len(book.asks)
    BY <1>2 DEF TwoSided, Ladders
  <2>2. book.bids[1].size \in Nat /\ book.asks[1].size \in Nat
    BY <2>1, LevelIs DEF Ladders
  <2>3. QED
    BY <1>2, <2>2, TiltIs DEF Imbalance
<1>3. QED
  BY <1>1, <1>2

LEMMA WeightedIs ==
  ASSUME NEW book, Ladders(book)
  PROVE  WithinOne(WeightedImbalance(book))
<1> DEFINE levels == Lesser(DepthLevels, Greater(Len(book.bids), Len(book.asks)))
           unit == IF DecayPct % 10 = 0 THEN 10 ELSE 100
           Weight(i) == Power((DecayPct * unit) \div 100, i - 1) * Power(unit, levels - i)
           Products(side, n) == [i \in 1..n |-> Weight(i) * side[i].size]
           Weighted(side) == SumUpTo(Products(side, Lesser(levels, Len(side))), Lesser(levels, Len(side)))
<1>1. levels \in Nat
  BY BookAssumption DEF Ladders, Lesser, Greater
<1>2. ASSUME NEW i \in 1..levels PROVE Weight(i) \in Nat
  <2> DEFINE base == (DecayPct * unit) \div 100  before == i - 1  after == levels - i
  <2>1. before \in Nat /\ after \in Nat /\ unit \in Nat
    BY <1>1
  <2>2. base \in Nat
    BY BookAssumption
  <2> HIDE DEF base, before, after, unit
  <2>3. Power(base, before) \in Nat /\ Power(unit, after) \in Nat
    BY <2>1, <2>2, PowerIs
  <2>4. Power(base, before) * Power(unit, after) \in Nat
    BY <2>3
  <2>5. QED
    BY <2>4 DEF base, before, after
<1>3. WeightedImbalance(book) = IF TwoSided(book) THEN Tilt(Weighted(book.bids), Weighted(book.asks)) ELSE NULL
  BY Zenon DEF WeightedImbalance
<1> HIDE DEF levels, Weight
<1>4. ASSUME NEW side \in Seq(Levels) PROVE Weighted(side) \in Nat
  <2> DEFINE n == Lesser(levels, Len(side))
             f == Products(side, n)
  <2>1. n \in Nat /\ \A i \in 1..n : i \in 1..levels /\ i \in 1..Len(side)
    BY <1>1 DEF Lesser
  <2>2. ASSUME NEW i \in 1..n PROVE f[i] \in Nat
    <3>1. Weight(i) \in Nat /\ side[i].size \in Nat
      BY <1>2, <2>1, LevelIs
    <3>2. Weight(i) * side[i].size \in Nat
      BY <3>1
    <3>3. QED
      BY <3>2
  <2> HIDE DEF n, f
  <2>3. SumUpTo(f, n) \in Nat
    BY <2>1, <2>2, SumNat
  <2>4. QED
    BY <2>3 DEF n, f
<1> HIDE DEF Weighted
<1>5. Weighted(book.bids) \in Nat /\ Weighted(book.asks) \in Nat
  BY <1>4 DEF Ladders
<1>6. QED
  BY <1>3, <1>5, TiltIs DEF WithinOne

LEMMA ConvexityIs ==
  ASSUME NEW side \in Seq(Levels)
  PROVE  WithinOne(Convexity(side))
<1> DEFINE take == Lesser(Len(side), DepthLevels)
           half == Greater(1, (take + 1) \div 2)
           near == Depth(side, half)
           both == Depth(side, take)
           far  == both - near
<1>1. Convexity(side) = IF Len(side) < 2 \/ near + far <= 0 THEN NULL ELSE <<far - near, far + near>>
  BY Zenon DEF Convexity
<1>2. CASE Len(side) < 2
  BY <1>1, <1>2 DEF WithinOne
<1>3. CASE ~(Len(side) < 2)
  <2>1. take \in 1..Len(side)
    BY <1>3, BookAssumption DEF Lesser
  <2> HIDE DEF take
  <2>2. half \in 1..take
    BY <2>1 DEF Greater
  <2> HIDE DEF half
  <2>3. half \in Nat /\ take \in Nat /\ Lesser(half, Len(side)) = half /\ Lesser(take, Len(side)) = take
    BY <2>1, <2>2 DEF Lesser
  <2>4. near = Held(side, half) /\ both = Held(side, take)
    BY <2>3, DepthIs
  <2>5. take \in 0..Len(side) /\ half \in 0..Len(side) /\ half \in 0..take
    BY <2>1, <2>2
  <2>6. near \in Nat /\ both \in Nat /\ near <= both
    BY <2>4, <2>5, HeldIs, HeldGrows
  <2> HIDE DEF near, both
  <2>7. far \in Nat
    BY <2>6
  <2> HIDE DEF far
  <2>8. QED
    BY <1>1, <1>3, <2>6, <2>7 DEF WithinOne
<1>4. QED
  BY <1>2, <1>3

LEMMA TimesGrows ==
  ASSUME NEW a \in Nat, NEW b \in Nat, a <= b, NEW k \in Nat
  PROVE  a * k <= b * k
<1>1. (b - a) * k \in Nat /\ b * k = a * k + (b - a) * k /\ a * k \in Nat
  OBVIOUS
<1>2. QED
  BY <1>1

\* The microprice is between the quotes, whichever is the higher.
LEMMA MicropriceIs ==
  ASSUME NEW book, Ladders(book), NEW q, q = Microprice(book), q # NULL,
         NEW bid, bid = BestBid(book), NEW ask, ask = BestAsk(book)
  PROVE  Lesser(bid, ask) * q[2] <= q[1] /\ q[1] <= Greater(bid, ask) * q[2]
<1> DEFINE b == book.bids[1]  a == book.asks[1]
           lo == Lesser(bid, ask)  hi == Greater(bid, ask)
           x == a.size  y == b.size
<1>1. TwoSided(book)
  BY DEF Microprice
<1>2. 1 \in 1..Len(book.bids) /\ 1 \in 1..Len(book.asks)
  BY <1>1 DEF TwoSided, Ladders
<1>3. x \in Nat /\ y \in Nat /\ bid \in Nat /\ ask \in Nat /\ bid = b.price /\ ask = a.price
  BY <1>1, <1>2, LevelIs DEF TwoSided, Ladders, BestBid, BestAsk
<1>4. q = IF x + y <= 0 THEN <<BookMid(book), 100>> ELSE <<bid * x + ask * y, x + y>>
  BY <1>1, <1>3 DEF Microprice
<1>5. lo \in Nat /\ hi \in Nat /\ lo <= bid /\ lo <= ask /\ bid <= hi /\ ask <= hi
  BY <1>3 DEF Lesser, Greater
<1>6. BookMid(book) = (bid + ask) * 50
  BY <1>1 DEF BookMid
<1> HIDE DEF a, b, lo, hi
<1> HIDE DEF x, y
<1>7. CASE x + y <= 0
  <2>1. q[1] = (bid + ask) * 50 /\ q[2] = 100
    BY <1>4, <1>6, <1>7
  <2>2. lo * 100 <= (bid + ask) * 50 /\ (bid + ask) * 50 <= hi * 100
    BY <1>3, <1>5
  <2>3. QED
    BY <2>1, <2>2 DEF lo, hi
<1>8. CASE ~(x + y <= 0)
  <2>1. q[1] = bid * x + ask * y /\ q[2] = x + y
    BY <1>4, <1>8
  <2>2. lo * x <= bid * x /\ lo * y <= ask * y /\ bid * x <= hi * x /\ ask * y <= hi * y
    BY <1>3, <1>5, TimesGrows
  <2>3. lo * (x + y) = lo * x + lo * y /\ hi * (x + y) = hi * x + hi * y
    BY <1>3, <1>5
  <2> DEFINE lx == lo * x  ly == lo * y  hx == hi * x  hy == hi * y  bx == bid * x  ay == ask * y
  <2>4. lx \in Int /\ ly \in Int /\ hx \in Int /\ hy \in Int /\ bx \in Int /\ ay \in Int
    BY <1>3, <1>5
  <2>5. lx <= bx /\ ly <= ay /\ bx <= hx /\ ay <= hy
    BY <2>2
  <2>6. lo * (x + y) = lx + ly /\ hi * (x + y) = hx + hy /\ q[1] = bx + ay
    BY <2>1, <2>3
  <2> HIDE DEF lx, ly, hx, hy
  <2> HIDE DEF bx, ay
  <2>7. lo * (x + y) <= q[1] /\ q[1] <= hi * (x + y)
    BY <2>4, <2>5, <2>6
  <2>8. QED
    BY <2>1, <2>7 DEF lo, hi
<1>9. QED
  BY <1>7, <1>8

\* The fields of the features that FeaturesOK is about.
LEMMA FeaturesAre ==
  ASSUME NEW market, NEW h, NEW events, NEW t, NEW f, f = Features(market, h, events, t)
  PROVE  /\ market.book = NULL => /\ f.imbalance = NULL /\ f.weighted = NULL
                                  /\ f.convexity = <<NULL, NULL>> /\ f.microprice = NULL
         /\ market.book # NULL =>
              /\ f.imbalance = Imbalance(market.book) /\ f.weighted = WeightedImbalance(market.book)
              /\ f.convexity = <<Convexity(market.book.bids), Convexity(market.book.asks)>>
              /\ f.microprice = Microprice(market.book)
BY DEF Features

LEMMA FeaturesAreOK ==
  ASSUME NEW market, Dated(market), NEW h, NEW events, NEW t
  PROVE  FeaturesOK(market, Features(market, h, events, t))
<1> DEFINE f == Features(market, h, events, t)
           book == market.book
<1>1. WithinOne(NULL)
  BY DEF WithinOne
<1>2. CASE book = NULL
  <2>1. f.imbalance = NULL /\ f.weighted = NULL /\ f.convexity = <<NULL, NULL>> /\ f.microprice = NULL
    BY <1>2, FeaturesAre
  <2> HIDE DEF f
  <2>2. \A i \in 1..2 : f.convexity[i] = NULL
    BY <2>1
  <2>3. FeaturesOK(market, f)
    BY <1>1, <2>1, <2>2 DEF FeaturesOK
  <2>4. QED
    BY <2>3 DEF f
<1>3. CASE book # NULL
  <2>1. Ladders(book)
    BY <1>3 DEF Dated
  <2>2. /\ f.imbalance = Imbalance(book) /\ f.weighted = WeightedImbalance(book)
        /\ f.convexity = <<Convexity(book.bids), Convexity(book.asks)>>
        /\ f.microprice = Microprice(book)
    BY <1>3, FeaturesAre
  <2> HIDE DEF f
  <2>3. WithinOne(f.imbalance) /\ WithinOne(f.weighted)
    BY <2>1, <2>2, ImbalanceIs, WeightedIs
  <2>4. \A i \in 1..2 : WithinOne(f.convexity[i])
    <3>1. WithinOne(Convexity(book.bids)) /\ WithinOne(Convexity(book.asks))
      BY <2>1, ConvexityIs DEF Ladders
    <3>2. \A i \in 1..2 : f.convexity[i] \in {Convexity(book.bids), Convexity(book.asks)}
      BY <2>2
    <3>3. QED
      BY <3>1, <3>2
  <2>5. ASSUME f.microprice # NULL
        PROVE  /\ Lesser(BestBid(book), BestAsk(book)) * f.microprice[2] <= f.microprice[1]
               /\ f.microprice[1] <= Greater(BestBid(book), BestAsk(book)) * f.microprice[2]
    BY <2>1, <2>2, <2>5, MicropriceIs
  <2>6. FeaturesOK(market, f)
    BY <2>3, <2>4, <2>5 DEF FeaturesOK
  <2>7. QED
    BY <2>6 DEF f
<1>4. QED
  BY <1>2, <1>3

-----------------------------------------------------------------------------
(* The theorems *)

LEMMA InvTypes == IInv => TypeOK
<1> SUFFICES ASSUME IInv PROVE TypeOK
  OBVIOUS
<1>1. \A m \in MarketIds : Len(history[m]) <= HistoryLength /\ ToSet(history[m]) \subseteq Nat
  <2>1. ASSUME NEW m \in MarketIds
        PROVE  Len(history[m]) <= HistoryLength /\ ToSet(history[m]) \subseteq Nat
    <3>1. history[m] \in Seq(Nat) /\ Len(history[m]) <= HistoryLength
      BY DEF IInv
    <3>2. QED
      BY <3>1 DEF ToSet
  <2>2. QED
    BY <2>1
<1>2. \A i \in DOMAIN universe :
        FeaturesOK(universe[i], Features(universe[i], history[universe[i].id], <<>>, now))
  BY FeaturesAreOK DEF IInv
<1>3. QED
  BY <1>1, <1>2 DEF IInv, TypeOK, Samples, Percent

LEMMA InvWalks == IInv => WalksAgree
<1> SUFFICES ASSUME IInv, NEW i \in DOMAIN universe,
                    universe[i].book # NULL, universe[i].book.asks # <<>>,
                    NEW shares \in 1..Depth(universe[i].book.asks, Len(universe[i].book.asks))
             PROVE  LET walk == WalkShares(universe[i].book.asks, shares)
                        vwap == WalkVwap(universe[i].book.asks, walk.cost).vwap
                    IN vwap # NULL /\ vwap[1] * shares = walk.cost * vwap[2]
  BY Zenon DEF WalksAgree
<1> DEFINE side == universe[i].book.asks
<1>1. side \in Seq(Levels)
  BY DEF IInv, Dated, Ladders
<1> HIDE DEF side
<1>2. Depth(side, Len(side)) = Held(side, Len(side)) /\ Held(side, Len(side)) \in Nat
  <2>1. Len(side) \in Nat /\ Lesser(Len(side), Len(side)) = Len(side) /\ Len(side) \in 0..Len(side)
    BY <1>1 DEF Lesser
  <2>2. QED
    BY <1>1, <2>1, DepthIs, HeldIs
<1>3. shares \in Nat \ {0} /\ shares <= Held(side, Len(side))
  BY <1>2 DEF side
<1>4. LET walk == WalkShares(side, shares)
          vwap == WalkVwap(side, walk.cost).vwap
      IN vwap # NULL /\ vwap[1] * shares = walk.cost * vwap[2]
  BY <1>1, <1>3, WalksMeet
<1>5. QED
  BY <1>4 DEF side

\* Every variable holds what its comment says, the recorded spreads of a market
\* are no more than their limit, the confidence of an edge is a percentage, and
\* the features of every market of the universe are within their ranges: no
\* imbalance beyond one, no microprice outside the quotes, whatever the book
\* (features/microstructure.py, pipeline.py:443-448).
THEOREM TypeCorrect == Spec => []TypeOK
BY InvCorrect, InvTypes, PTL

\* The two walks of the repository agree on every book of the universe: the
\* slippage of a number of shares is the vwap of what they cost, as long as the
\* book holds them (fairvalue/fees.py:40-59, features/microstructure.py:216-267).
THEOREM WalksCorrect == Spec => []WalksAgree
BY InvCorrect, InvWalks, PTL

\* What a candidate was decided on was fresh when it was decided: its own book
\* and fees, whatever other markets were evaluated in between, the print and the
\* game state (pipeline.py:394-437, 625-636, 697-735).
THEOREM FreshnessCorrect == Spec => DecidedOnFreshData
<1>1. IInv /\ [Next]_evaluationVars => [FreshDecision]_evaluationVars
  BY NextInv
<1>2. Spec => [][FreshDecision]_evaluationVars
  BY InvCorrect, <1>1, PTL DEF Spec
<1>3. QED
  BY <1>2 DEF DecidedOnFreshData, FreshDecision

\* One event moves a probability once, however many items tell it and however
\* often its market is evaluated (news/engine.py:158-163).
THEOREM NewsCorrect == Spec => NewsShiftsOnce
<1>1. IInv /\ [Next]_evaluationVars => [NewShift]_evaluationVars
  BY NextInv
<1>2. Spec => [][NewShift]_evaluationVars
  BY InvCorrect, <1>1, PTL DEF Spec
<1>3. QED
  BY <1>2 DEF NewsShiftsOnce, NewShift

=============================================================================
