---------------------------- MODULE RulesProofs ----------------------------
(***************************************************************************)
(* What the operators that several components share compute, for every     *)
(* value of the constants: sums over a sequence (PrefixSums), one ledger   *)
(* operation (LedgerRules), and one reservation of the allocator with the  *)
(* sums over sets of markets it is made of (AllocatorRules).               *)
(***************************************************************************)
EXTENDS LedgerRules, AllocatorRules, FiniteSetTheorems, WellFoundedInduction, TLAPS

(***************************************************************************)
(* Sums: the recursion equations of SumUpTo, that it depends on the        *)
(* entries 1..n only, and how it moves when one entry changes.  Each fact  *)
(* is proved by taking a least counterexample.                             *)
(***************************************************************************)

NatLess == {p \in Nat \X Nat : p[1] < p[2]}

\* The order on the naturals as a set of pairs is well founded.
LEMMA NatLessWF == IsWellFoundedOn(NatLess, Nat)
<1>1. OpToRel(<, Nat) = NatLess
  BY Zenon DEF OpToRel, NatLess
<1>2. QED
  BY <1>1, NatLessThanWellFounded

\* A non-empty set of naturals has a least element.
LEMMA LeastNat ==
  ASSUME NEW T \in SUBSET Nat, T # {}
  PROVE  \E n \in T : \A m \in T : n <= m
<1>1. PICK x \in T : \A y \in T : ~ (<<y, x>> \in NatLess)
  BY NatLessWF, WFMin
<1>2. ASSUME NEW y \in T PROVE x <= y
  <2>1. <<y, x>> \notin NatLess
    BY <1>1
  <2>2. <<y, x>> \in Nat \X Nat
    OBVIOUS
  <2>3. ~(y < x)
    BY <2>1, <2>2 DEF NatLess
  <2>4. QED
    BY <2>3
<1>3. QED
  BY <1>2

-----------------------------------------------------------------------------
(* Recursion over the places of a sequence *)

\* What holds at the start and is kept by every step holds at every place.
LEMMA Reaches ==
  ASSUME NEW N \in Nat, NEW T \in SUBSET (0..N), 0 \in T, \A n \in 1..N : n - 1 \in T => n \in T
  PROVE  T = 0..N
<1> DEFINE Bad == (0..N) \ T
<1>1. SUFFICES ASSUME Bad # {} PROVE FALSE
  OBVIOUS
<1>2. PICK m \in Bad : \A k \in Bad : m <= k
  <2>1. Bad \in SUBSET Nat
    OBVIOUS
  <2>2. QED
    BY <1>1, <2>1, LeastNat
<1>3. m \in 1..N /\ m - 1 \in 0..N /\ m - 1 \notin Bad
  BY <1>2
<1>4. QED
  BY <1>2, <1>3

\* The n-th step leads from the n-th of some sets into the next one.
Leads(step, X, N) == \A n \in 1..N : step[n] \in [X[n - 1] -> X[n]]

StepsAlong(p, base, step, N) == p = [n \in 0..N |-> IF n = 0 THEN base ELSE step[n][p[n - 1]]]

\* Such steps can be made one after the other.
LEMMA Iterates ==
  ASSUME NEW N \in Nat, NEW X, NEW base, NEW step,
         base \in X[0], Leads(step, X, N)
  PROVE  \E p : StepsAlong(p, base, step, N) /\ \A n \in 0..N : p[n] \in X[n]
<1> DEFINE Run(p, m) == StepsAlong(p, base, step, m) /\ \A n \in 0..m : p[n] \in X[n]
           T == {m \in 0..N : \E p : Run(p, m)}
<1>1. 0 \in T
  <2> DEFINE r == [n \in 0..0 |-> base]
  <2>1. Run(r, 0)
    BY DEF StepsAlong
  <2> HIDE DEF Run, r
  <2>2. \E p : Run(p, 0)
    BY <2>1
  <2>3. QED
    BY <2>2
<1>2. ASSUME NEW m \in 1..N, m - 1 \in T
      PROVE  m \in T
  <2>1. PICK q : Run(q, m - 1)
    BY <1>2
  <2> DEFINE r == [n \in 0..m |-> IF n = m THEN step[m][q[m - 1]] ELSE q[n]]
  <2>2. q[m - 1] \in X[m - 1] /\ r[m - 1] = q[m - 1]
    BY <2>1
  <2>3. r[m] = step[m][r[m - 1]] /\ r[m] \in X[m]
    <3>1. r[m] = step[m][q[m - 1]]
      OBVIOUS
    <3>2. step[m] \in [X[m - 1] -> X[m]]
      BY DEF Leads
    <3>3. QED
      BY <2>2, <3>1, <3>2
  <2>4. ASSUME NEW n \in 0..m
        PROVE  r[n] = (IF n = 0 THEN base ELSE step[n][r[n - 1]]) /\ r[n] \in X[n]
    <3>1. CASE n = m
      BY <2>3, <3>1
    <3>2. CASE n # m
      <4>1. n \in 0..(m - 1) /\ r[n] = q[n]
        BY <3>2
      <4>2. n # 0 => r[n - 1] = q[n - 1]
        BY <4>1
      <4>3. q[n] = (IF n = 0 THEN base ELSE step[n][q[n - 1]]) /\ q[n] \in X[n]
        BY <2>1, <4>1 DEF StepsAlong
      <4>4. QED
        BY <4>1, <4>2, <4>3
    <3>3. QED
      BY <3>1, <3>2
  <2>5. r = [n \in 0..m |-> IF n = 0 THEN base ELSE step[n][r[n - 1]]]
    <3> HIDE DEF r
    <3>1. r = [n \in 0..m |-> r[n]]
      BY DEF r
    <3>2. QED
      BY <2>4, <3>1, Zenon
  <2>6. Run(r, m)
    <3> HIDE DEF r
    <3>1. QED
      BY <2>4, <2>5 DEF StepsAlong
  <2> HIDE DEF Run, r
  <2>7. \E p : Run(p, m)
    BY <2>6
  <2>8. QED
    BY <2>7
<1>3. T = 0..N
  <2>1. T \in SUBSET (0..N)
    OBVIOUS
  <2> HIDE DEF T
  <2>2. QED
    BY <1>1, <1>2, <2>1, Reaches
<1>4. QED
  BY <1>3

-----------------------------------------------------------------------------
(* The recursive function behind SumUpTo exists and is unique *)

PrefixFunction(p, f, n) == p = [i \in 0..n |-> IF i = 0 THEN 0 ELSE p[i - 1] + f[i]]

Summable(f, n) == \A i \in 1..n : f[i] \in Int

\* Some integer function satisfies the recursion equation.
LEMMA PrefixExists ==
  ASSUME NEW n \in Nat, NEW f, Summable(f, n)
  PROVE  \E p \in [0..n -> Int] : PrefixFunction(p, f, n)
<1> DEFINE Bad == {m \in 0..n : ~ \E p \in [0..m -> Int] : PrefixFunction(p, f, m)}
<1>1. SUFFICES ASSUME Bad # {} PROVE FALSE
  OBVIOUS
<1>2. PICK m \in Bad : \A k \in Bad : m <= k
  <2>1. Bad \in SUBSET Nat
    OBVIOUS
  <2>2. QED
    BY <1>1, <2>1, LeastNat
<1>3. m # 0
  <2>1. PrefixFunction([i \in 0..0 |-> 0], f, 0)
    BY DEF PrefixFunction
  <2>2. [i \in 0..0 |-> 0] \in [0..0 -> Int]
    OBVIOUS
  <2>3. QED
    BY <2>1, <2>2
<1>4. m - 1 \in 0..n /\ m - 1 \notin Bad
  BY <1>2, <1>3
<1>5. PICK q \in [0..(m - 1) -> Int] : PrefixFunction(q, f, m - 1)
  BY <1>4
<1> DEFINE r == [i \in 0..m |-> IF i = m THEN q[m - 1] + f[m] ELSE q[i]]
<1>6. r \in [0..m -> Int]
  <2>1. f[m] \in Int
    BY <1>3 DEF Summable
  <2>2. QED
    BY <1>4, <2>1
<1>7. ASSUME NEW i \in 0..m
      PROVE  r[i] = IF i = 0 THEN 0 ELSE r[i - 1] + f[i]
  <2>1. CASE i = m
    <3>1. m - 1 \in 0..m /\ m - 1 # m
      BY <1>3
    <3>2. r[m - 1] = q[m - 1]
      BY <3>1
    <3>3. QED
      BY <2>1, <3>2, <1>3
  <2>2. CASE i # m
    <3>1. i \in 0..(m - 1)
      BY <2>2
    <3>2. q[i] = IF i = 0 THEN 0 ELSE q[i - 1] + f[i]
      BY <1>5, <3>1 DEF PrefixFunction
    <3>3. i # 0 => r[i - 1] = q[i - 1]
      BY <3>1
    <3>4. QED
      BY <2>2, <3>2, <3>3
  <2>3. QED
    BY <2>1, <2>2
<1>8. PrefixFunction(r, f, m)
  BY <1>7, Zenon DEF PrefixFunction
<1>9. QED
  BY <1>2, <1>6, <1>8

\* Two solutions of the recursion equation, of possibly different lengths, agree
\* where both are defined.
LEMMA PrefixUnique ==
  ASSUME NEW n \in Nat, NEW m \in Nat, m <= n, NEW f, NEW p, NEW q,
         PrefixFunction(p, f, n), PrefixFunction(q, f, m)
  PROVE  p[m] = q[m]
<1> DEFINE Bad == {i \in 0..m : p[i] # q[i]}
<1>1. SUFFICES ASSUME Bad # {} PROVE FALSE
  OBVIOUS
<1>2. PICK i \in Bad : \A k \in Bad : i <= k
  <2>1. Bad \in SUBSET Nat
    OBVIOUS
  <2>2. QED
    BY <1>1, <2>1, LeastNat
<1>3. \A j \in 0..m : /\ p[j] = IF j = 0 THEN 0 ELSE p[j - 1] + f[j]
                      /\ q[j] = IF j = 0 THEN 0 ELSE q[j - 1] + f[j]
  BY DEF PrefixFunction
<1>4. i # 0
  BY <1>2, <1>3
<1>5. i - 1 \in 0..m /\ i - 1 \notin Bad
  BY <1>2, <1>4
<1>6. p[i - 1] = q[i - 1]
  BY <1>5
<1>7. QED
  BY <1>2, <1>3, <1>4, <1>6

\* SumUpTo is the last value of any solution.
LEMMA SumIsPrefix ==
  ASSUME NEW n \in Nat, NEW f, NEW p, PrefixFunction(p, f, n)
  PROVE  SumUpTo(f, n) = p[n]
<1> DEFINE s == CHOOSE s : s = [i \in 0..n |-> IF i = 0 THEN 0 ELSE s[i - 1] + f[i]]
<1>1. SumUpTo(f, n) = s[n]
  BY DEF SumUpTo
<1>2. PrefixFunction(s, f, n)
  BY DEF PrefixFunction
<1>3. QED
  BY <1>1, <1>2, PrefixUnique

-----------------------------------------------------------------------------
(* The facts other modules use *)

\* An empty sum is zero.
LEMMA SumZero ==
  ASSUME NEW f
  PROVE  SumUpTo(f, 0) = 0
<1>1. PrefixFunction([i \in 0..0 |-> 0], f, 0)
  BY DEF PrefixFunction
<1>2. QED
  BY <1>1, SumIsPrefix

\* A sum is the sum of all entries but the last, plus the last.
LEMMA SumStep ==
  ASSUME NEW n \in Nat, NEW f, Summable(f, n + 1)
  PROVE  /\ SumUpTo(f, n) \in Int
         /\ SumUpTo(f, n + 1) = SumUpTo(f, n) + f[n + 1]
<1>1. Summable(f, n)
  BY DEF Summable
<1>2. PICK p \in [0..(n + 1) -> Int] : PrefixFunction(p, f, n + 1)
  BY PrefixExists
<1>3. PICK q \in [0..n -> Int] : PrefixFunction(q, f, n)
  BY <1>1, PrefixExists
<1>4. SumUpTo(f, n + 1) = p[n + 1] /\ SumUpTo(f, n) = q[n]
  BY <1>2, <1>3, SumIsPrefix
<1>5. p[n] = q[n]
  BY <1>2, <1>3, PrefixUnique
<1>6. p[n + 1] = p[n] + f[n + 1]
  BY <1>2 DEF PrefixFunction
<1>7. QED
  BY <1>3, <1>4, <1>5, <1>6

\* A sum of integers is an integer.
LEMMA SumInt ==
  ASSUME NEW n \in Nat, NEW f, Summable(f, n)
  PROVE  SumUpTo(f, n) \in Int
<1>1. PICK p \in [0..n -> Int] : PrefixFunction(p, f, n)
  BY PrefixExists
<1>2. QED
  BY <1>1, SumIsPrefix

\* A sum of naturals is a natural number.
LEMMA SumNat ==
  ASSUME NEW n \in Nat, NEW f, \A i \in 1..n : f[i] \in Nat
  PROVE  SumUpTo(f, n) \in Nat
<1>1. Summable(f, n)
  BY DEF Summable
<1>2. PICK p \in [0..n -> Int] : PrefixFunction(p, f, n)
  BY <1>1, PrefixExists
<1> DEFINE Bad == {m \in 0..n : p[m] \notin Nat}
<1>3. Bad = {}
  <2>1. SUFFICES ASSUME Bad # {} PROVE FALSE
    OBVIOUS
  <2>2. PICK m \in Bad : \A k \in Bad : m <= k
    <3>1. Bad \in SUBSET Nat
      OBVIOUS
    <3>2. QED
      BY <2>1, <3>1, LeastNat
  <2>3. p[m] = IF m = 0 THEN 0 ELSE p[m - 1] + f[m]
    BY <1>2, Zenon DEF PrefixFunction
  <2>4. m # 0
    BY <2>2, <2>3
  <2>5. m - 1 \in 0..n /\ m - 1 \notin Bad /\ f[m] \in Nat
    BY <2>2, <2>4
  <2>6. QED
    BY <2>2, <2>3, <2>4, <2>5
<1>4. SumUpTo(f, n) = p[n]
  BY <1>2, SumIsPrefix
<1>5. QED
  BY <1>3, <1>4

\* Changing one entry moves the sum by the difference: what a fill of one token,
\* or of one order, does to the totals.
LEMMA SumPoint ==
  ASSUME NEW n \in Nat, NEW f, NEW g, NEW k \in 1..n, Summable(f, n), Summable(g, n),
         \A i \in 1..n : i # k => f[i] = g[i]
  PROVE  SumUpTo(g, n) = SumUpTo(f, n) + g[k] - f[k]
<1> DEFINE Gap(m) == IF k <= m THEN g[k] - f[k] ELSE 0
           Bad == {m \in 0..n : SumUpTo(g, m) # SumUpTo(f, m) + Gap(m)}
<1>1. SUFFICES ASSUME Bad # {} PROVE FALSE
  <2>1. n \notin Bad
    OBVIOUS
  <2>2. f[k] \in Int /\ g[k] \in Int /\ SumUpTo(f, n) \in Int
    BY SumInt DEF Summable
  <2>3. QED
    BY <2>1, <2>2
<1>2. PICK m \in Bad : \A j \in Bad : m <= j
  <2>1. Bad \in SUBSET Nat
    OBVIOUS
  <2>2. QED
    BY <1>1, <2>1, LeastNat
<1>3. m # 0
  BY <1>2, SumZero
<1>4. m - 1 \in 0..n /\ m - 1 \notin Bad
  BY <1>2, <1>3
<1>5. SumUpTo(g, m - 1) = SumUpTo(f, m - 1) + Gap(m - 1)
  BY <1>4
<1>6. m - 1 \in Nat /\ (m - 1) + 1 = m /\ m \in 1..n
  BY <1>3
<1>7. Summable(f, m) /\ Summable(g, m)
  BY <1>6 DEF Summable
<1>8. /\ SumUpTo(f, m - 1) \in Int /\ SumUpTo(f, m) = SumUpTo(f, m - 1) + f[m]
      /\ SumUpTo(g, m - 1) \in Int /\ SumUpTo(g, m) = SumUpTo(g, m - 1) + g[m]
  <2>1. Summable(f, (m - 1) + 1) /\ Summable(g, (m - 1) + 1)
    BY <1>6, <1>7
  <2>2. QED
    BY <1>6, <2>1, SumStep
<1>9. f[m] \in Int /\ g[m] \in Int /\ f[k] \in Int /\ g[k] \in Int
  BY <1>6 DEF Summable
<1>10. SumUpTo(g, m) = SumUpTo(f, m) + Gap(m)
  <2>1. CASE m = k
    BY <2>1, <1>5, <1>6, <1>8, <1>9
  <2>2. CASE m # k
    <3>1. f[m] = g[m]
      BY <2>2, <1>6
    <3>2. Gap(m) = Gap(m - 1)
      BY <2>2, <1>6
    <3>3. Gap(m - 1) \in Int
      BY <1>9
    <3>4. QED
      BY <3>1, <3>2, <3>3, <1>5, <1>8, <1>9
  <2>3. QED
    BY <2>1, <2>2
<1>11. QED
  BY <1>2, <1>10

\* Entries that agree on 1..n, followed by zeros, have the same sum: what new
\* events that carry no opening fee do to the fees charged so far.
LEMMA SumPadded ==
  ASSUME NEW n \in Nat, NEW m \in Nat, n <= m, NEW f, NEW g, Summable(f, n),
         \A i \in 1..n : g[i] = f[i],
         \A i \in (n + 1)..m : g[i] = 0
  PROVE  SumUpTo(g, m) = SumUpTo(f, n)
<1> DEFINE Bad == {j \in 0..m : SumUpTo(g, j) # SumUpTo(f, Lesser(j, n))}
<1>1. SUFFICES ASSUME Bad # {} PROVE FALSE
  <2>1. m \notin Bad
    OBVIOUS
  <2>2. Lesser(m, n) = n
    BY DEF Lesser
  <2>3. QED
    BY <2>1, <2>2
<1>2. PICK j \in Bad : \A i \in Bad : j <= i
  <2>1. Bad \in SUBSET Nat
    OBVIOUS
  <2>2. QED
    BY <1>1, <2>1, LeastNat
<1>3. j # 0
  <2>1. Lesser(0, n) = 0
    BY DEF Lesser
  <2>2. QED
    BY <1>2, <2>1, SumZero
<1>4. j - 1 \in 0..m /\ j - 1 \notin Bad /\ j - 1 \in Nat /\ (j - 1) + 1 = j /\ j \in 1..m
  BY <1>2, <1>3
<1>5. SumUpTo(g, j - 1) = SumUpTo(f, Lesser(j - 1, n))
  BY <1>4
<1>6. Summable(g, j)
  BY <1>4 DEF Summable
<1>7. SumUpTo(g, j - 1) \in Int /\ SumUpTo(g, j) = SumUpTo(g, j - 1) + g[j]
  <2>1. Summable(g, (j - 1) + 1)
    BY <1>4, <1>6
  <2>2. QED
    BY <1>4, <2>1, SumStep
<1>8. CASE j <= n
  <2>1. Lesser(j, n) = j /\ Lesser(j - 1, n) = j - 1
    BY <1>4, <1>8 DEF Lesser
  <2>2. Summable(f, (j - 1) + 1)
    BY <1>4, <1>8 DEF Summable
  <2>3. SumUpTo(f, j) = SumUpTo(f, j - 1) + f[j]
    BY <1>4, <2>2, SumStep
  <2>4. g[j] = f[j]
    BY <1>4, <1>8
  <2>5. QED
    BY <1>2, <1>5, <1>7, <2>1, <2>3, <2>4
<1>9. CASE j > n
  <2>1. Lesser(j, n) = n /\ Lesser(j - 1, n) = n
    BY <1>4, <1>9 DEF Lesser
  <2>2. g[j] = 0
    BY <1>4, <1>9
  <2>3. QED
    BY <1>2, <1>5, <1>7, <2>1, <2>2
<1>10. QED
  BY <1>4, <1>8, <1>9


(***************************************************************************)
(* The ledger.  An operation leaves it a ledger, and the double-entry      *)
(* balance moves by the fee of an opening fill and by nothing else.        *)
(***************************************************************************)

\* A ledger whose positions without lots carry no cost, and those with lots a mark.
SoundLedger(l) ==
  /\ l \in LedgerType
  /\ \A t \in Tokens : l.pos[t].qty = 0 => l.pos[t].cost = 0
  /\ \A t \in Tokens : l.pos[t].qty # 0 => l.pos[t].mark # NoMark

\* Cash and cost of what is held, less the profit taken so far.
Balance(l) == l.cash + BookValue(l) - l.realized

SoundPosition(p) == p \in Positions /\ (p.qty = 0 => p.cost = 0)

-----------------------------------------------------------------------------
(* Arithmetic *)

\* Dividing what was multiplied gives it back; a share of the cost is at most
\* the cost.
LEMMA ShareOfCost ==
  ASSUME NEW c \in Nat, NEW q \in Nat \ {0}, NEW k \in 0..q
  PROVE  /\ (c * k) \div q \in 0..c
         /\ k = q => (c * k) \div q = c
<1>1. c * k \in Nat /\ c * k <= c * q
  OBVIOUS
<1>2. (c * k) \div q \in Nat
  BY <1>1
<1>3. (c * k) \div q <= c
  BY <1>1, <1>2
<1>4. k = q => (c * k) \div q = c
  OBVIOUS
<1>5. QED
  BY <1>2, <1>3, <1>4

\* The absolute value of an integer is a natural number.
LEMMA AbsType ==
  ASSUME NEW x \in Int
  PROVE  /\ Abs(x) \in Nat
         /\ x # 0 => Abs(x) # 0
         /\ x >= 0 => Abs(x) = x
         /\ x < 0 => Abs(x) = -x
BY DEF Abs

\* A fill either adds, or meets a position of the other sign.
LEMMA ClosesOpposite ==
  ASSUME NEW p \in Positions, NEW s \in Int
  PROVE  /\ ~Adds(p, s) => \/ p.qty > 0 /\ s < 0
                           \/ p.qty < 0 /\ s > 0
         /\ Adds(p, s) => \/ p.qty >= 0 /\ s >= 0
                          \/ p.qty <= 0 /\ s <= 0
<1>1. p.qty \in Int
  BY DEF Positions
<1> DEFINE q == p.qty
<1>2. q \in Int
  BY <1>1
<1> HIDE DEF q
<1>3. ~(q * s >= 0) => (q > 0 /\ s < 0) \/ (q < 0 /\ s > 0)
  BY <1>2
<1>4. q * s >= 0 => (q >= 0 /\ s >= 0) \/ (q <= 0 /\ s <= 0)
  BY <1>2
<1>5. QED
  BY <1>3, <1>4 DEF Adds, q

\* A close releases no more than the cost, and all of it when it closes all lots.
LEMMA ReleasedWithin ==
  ASSUME NEW p \in Positions, NEW s \in Int, ~Adds(p, s)
  PROVE  /\ Closing(p, s) \in Nat
         /\ Released(p, s) \in 0..p.cost
         /\ Abs(s) >= Abs(p.qty) => Closing(p, s) = Abs(p.qty) /\ Released(p, s) = p.cost
         /\ Abs(s) < Abs(p.qty) => Closing(p, s) = Abs(s)
<1>1. p.qty \in Int /\ p.cost \in Nat /\ p.qty # 0
  BY ClosesOpposite DEF Positions
<1>2. Abs(p.qty) \in Nat \ {0} /\ Abs(s) \in Nat
  BY <1>1, AbsType
<1>3. Closing(p, s) \in 0..Abs(p.qty)
  BY <1>2 DEF Closing, Lesser
<1>4. /\ Abs(s) >= Abs(p.qty) => Closing(p, s) = Abs(p.qty)
      /\ Abs(s) < Abs(p.qty) => Closing(p, s) = Abs(s)
  BY <1>2 DEF Closing, Lesser
<1>5. /\ Released(p, s) \in 0..p.cost
      /\ Closing(p, s) = Abs(p.qty) => Released(p, s) = p.cost
  BY <1>1, <1>2, <1>3, ShareOfCost DEF Released
<1>6. QED
  BY <1>3, <1>4, <1>5, <1>2

-----------------------------------------------------------------------------
(* One fill against one position *)

\* Adding: the book value rises by what the lots cost.
LEMMA AddingBooks ==
  ASSUME NEW p, SoundPosition(p), NEW s \in Int, NEW price \in Nat, NEW fee \in Nat, Adds(p, s)
  PROVE  /\ SoundPosition(FilledPosition(p, s, price))
         /\ Realized(p, s, price, fee) = 0
         /\ Book(FilledPosition(p, s, price)) = Book(p) + s * price
<1> DEFINE n == FilledPosition(p, s, price)
<1>1. p.qty \in Int /\ p.cost \in Nat /\ (p.qty = 0 => p.cost = 0)
  BY DEF SoundPosition, Positions
<1>2. /\ n.qty = p.qty + s /\ n.cost = p.cost + Abs(s) * price /\ n.mark = price
      /\ n = [qty |-> n.qty, cost |-> n.cost, mark |-> n.mark]
  BY DEF FilledPosition
<1>3. \/ p.qty >= 0 /\ s >= 0
      \/ p.qty <= 0 /\ s <= 0
  BY ClosesOpposite DEF SoundPosition
<1>4. Abs(s) * price \in Nat
  BY AbsType
<1>5. s >= 0 => Abs(s) * price = s * price
  BY AbsType
<1>6. s < 0 => Abs(s) * price = -(s * price)
  BY AbsType
<1>7. s = 0 => s * price = 0
  OBVIOUS
<1>8. s * price \in Int
  OBVIOUS
<1>9. n \in Positions
  BY <1>1, <1>2, <1>4 DEF Positions
<1>10. n.qty = 0 => n.cost = 0
  <2>1. n.qty = 0 => p.qty = 0 /\ s = 0
    BY <1>1, <1>2, <1>3
  <2>2. QED
    BY <2>1, <1>1, <1>2, <1>5, <1>7
<1>11. Book(n) = Book(p) + s * price
  <2> HIDE DEF n
  <2>1. Book(n) = IF n.qty < 0 THEN -n.cost ELSE n.cost
    BY DEF Book
  <2>2. Book(p) = IF p.qty < 0 THEN -p.cost ELSE p.cost
    BY DEF Book
  <2>3. QED
    BY <2>1, <2>2, <1>1, <1>2, <1>3, <1>4, <1>5, <1>6, <1>7, <1>8
<1>12. QED
  BY <1>9, <1>10, <1>11 DEF SoundPosition, Realized

\* Closing, partly, wholly or through zero: the book value falls by the cost
\* released, and the difference to the proceeds is the profit.
LEMMA ClosingBooks ==
  ASSUME NEW p, SoundPosition(p), NEW s \in Int, NEW price \in Nat, NEW fee \in Nat, ~Adds(p, s)
  PROVE  /\ SoundPosition(FilledPosition(p, s, price))
         /\ Realized(p, s, price, fee) \in Int
         /\ Book(FilledPosition(p, s, price))
              = Book(p) + s * price + Realized(p, s, price, fee) + fee
<1> DEFINE n == FilledPosition(p, s, price)
           q == p.qty
           c == p.cost
           k == Closing(p, s)
           r == Released(p, s)
<1>1. q \in Int /\ c \in Nat /\ p \in Positions
  BY DEF SoundPosition, Positions
<1>2. \/ q > 0 /\ s < 0
      \/ q < 0 /\ s > 0
  BY <1>1, ClosesOpposite
<1>3. /\ k \in Nat /\ r \in 0..c
      /\ Abs(s) >= Abs(q) => k = Abs(q) /\ r = c
      /\ Abs(s) < Abs(q) => k = Abs(s)
  BY <1>1, ReleasedWithin
<1>4. Realized(p, s, price, fee) = (IF q > 0 THEN price * k - r ELSE r - price * k) - fee
  BY DEF Realized
<1>5. /\ n.qty = q + s /\ n.mark = price
      /\ n.cost = IF Abs(s) > Abs(q) THEN (Abs(s) - Abs(q)) * price ELSE c - r
      /\ n = [qty |-> n.qty, cost |-> n.cost, mark |-> n.mark]
  BY DEF FilledPosition
<1>6. /\ Book(n) = IF n.qty < 0 THEN -n.cost ELSE n.cost
      /\ Book(p) = IF q < 0 THEN -c ELSE c
  BY DEF Book
<1>7. /\ Abs(s) = IF s < 0 THEN -s ELSE s
      /\ Abs(q) = IF q < 0 THEN -q ELSE q
  BY DEF Abs
<1> HIDE DEF n, q, c, k, r
<1> DEFINE gain == Realized(p, s, price, fee)
<1>8. gain \in Int
  BY <1>1, <1>3, <1>4
<1>9. n.qty \in Int /\ n.cost \in Nat
  <2>1. n.qty \in Int
    BY <1>1, <1>5
  <2>2. n.cost \in Nat
    BY <1>1, <1>3, <1>5, <1>7
  <2>3. QED
    BY <2>1, <2>2
<1>10. n \in Positions
  BY <1>1, <1>5, <1>9 DEF Positions
<1>11. n.qty = 0 => n.cost = 0
  BY <1>1, <1>2, <1>3, <1>5, <1>7
<1>12. Book(n) = Book(p) + s * price + gain + fee
  <2> HIDE DEF gain
  <2>0. gain = (IF q > 0 THEN price * k - r ELSE r - price * k) - fee
    BY <1>4 DEF gain
  <2>1. CASE q > 0 /\ s < 0 /\ -s > q
    <3>1. n.qty < 0 /\ n.cost = (-s - q) * price /\ k = q /\ r = c
      BY <2>1, <1>1, <1>3, <1>5, <1>7
    <3>2. (-s - q) * price = -(s * price) - q * price
      BY <1>1
    <3>3. price * q = q * price /\ q * price \in Int /\ s * price \in Int
      BY <1>1
    <3>4. QED
      BY <2>0, <2>1, <3>1, <3>2, <3>3, <1>1, <1>6
  <2>2. CASE q > 0 /\ s < 0 /\ -s <= q
    <3>1. n.qty >= 0 /\ n.cost = c - r /\ k = -s
      BY <2>2, <1>1, <1>3, <1>5, <1>7
    <3>2. price * (-s) = -(s * price) /\ s * price \in Int
      OBVIOUS
    <3>3. price * k = -(s * price)
      BY <3>1, <3>2
    <3>4. gain = -(s * price) - r - fee
      BY <2>0, <2>2, <3>2, <3>3
    <3>5. Book(n) = c - r /\ Book(p) = c
      BY <2>2, <3>1, <1>1, <1>6, <1>9
    <3>6. QED
      BY <3>2, <3>4, <3>5, <1>1, <1>3
  <2>3. CASE q < 0 /\ s > 0 /\ s > -q
    <3>1. n.qty > 0 /\ n.cost = (s + q) * price /\ k = -q /\ r = c
      BY <2>3, <1>1, <1>3, <1>5, <1>7
    <3>2. (s + q) * price = s * price + q * price
      BY <1>1
    <3>3. price * (-q) = -(q * price) /\ q * price \in Int /\ s * price \in Int
      BY <1>1
    <3>4. price * k = -(q * price)
      BY <3>1, <3>3
    <3>5. gain = c + q * price - fee
      BY <2>0, <2>3, <3>1, <3>3, <3>4, <1>1
    <3>6. Book(n) = s * price + q * price /\ Book(p) = -c
      BY <2>3, <3>1, <3>2, <1>1, <1>6, <1>9
    <3>7. QED
      BY <3>3, <3>5, <3>6, <1>1
  <2>4. CASE q < 0 /\ s > 0 /\ s <= -q
    <3>1. n.qty <= 0 /\ n.cost = c - r /\ k = s /\ (n.qty = 0 => n.cost = 0)
      BY <2>4, <1>1, <1>3, <1>5, <1>7
    <3>2. price * s = s * price /\ s * price \in Int
      OBVIOUS
    <3>3. price * k = s * price
      BY <3>1, <3>2
    <3>4. gain = r - s * price - fee
      BY <2>0, <2>4, <3>2, <3>3, <1>1, <1>3
    <3>5. Book(n) = r - c /\ Book(p) = -c
      BY <2>4, <3>1, <1>1, <1>3, <1>6, <1>9
    <3>6. QED
      BY <3>2, <3>4, <3>5, <1>1, <1>3
  <2>5. QED
    BY <1>1, <1>2, <2>1, <2>2, <2>3, <2>4
<1>13. QED
  BY <1>8, <1>10, <1>11, <1>12 DEF SoundPosition, n

-----------------------------------------------------------------------------
(* The ledger operations *)

\* The book value of a position is an integer.
LEMMA BookValueType ==
  ASSUME NEW p \in Positions
  PROVE  Book(p) \in Int
BY DEF Book, Positions

\* The worth of a position is an integer, marked or not.
LEMMA WorthType ==
  ASSUME NEW p \in Positions
  PROVE  Worth(p) \in Int
<1>1. p.qty \in Int /\ (p.mark \in Nat \/ p.mark = NoMark)
  BY DEF Positions
<1>2. p.mark # NoMark => p.qty * p.mark \in Int
  BY <1>1
<1>3. QED
  BY <1>2, BookValueType DEF Worth

\* Equity and book value of a ledger are integers.
LEMMA ValueType ==
  ASSUME NEW pos \in [Tokens -> Positions]
  PROVE  /\ Summable([t \in Tokens |-> Book(pos[t])], NumTokens)
         /\ Summable([t \in Tokens |-> Worth(pos[t])], NumTokens)
         /\ SumUpTo([t \in Tokens |-> Book(pos[t])], NumTokens) \in Int
         /\ SumUpTo([t \in Tokens |-> Worth(pos[t])], NumTokens) \in Int
<1>1. NumTokens \in Nat
  BY LedgerAssumption
<1>2. \A t \in Tokens : Book(pos[t]) \in Int /\ Worth(pos[t]) \in Int
  BY BookValueType, WorthType
<1>3. /\ Summable([t \in Tokens |-> Book(pos[t])], NumTokens)
      /\ Summable([t \in Tokens |-> Worth(pos[t])], NumTokens)
  BY <1>2 DEF Summable, Tokens
<1>4. QED
  BY <1>1, <1>3, SumInt

\* Replacing one position moves the book value by the difference.
LEMMA BookValueMoves ==
  ASSUME NEW l, l.pos \in [Tokens -> Positions], NEW t \in Tokens, NEW n \in Positions,
         NEW k, k.pos = [l.pos EXCEPT ![t] = n]
  PROVE  BookValue(k) = BookValue(l) + Book(n) - Book(l.pos[t])
<1> DEFINE f == [u \in Tokens |-> Book(l.pos[u])]
           g == [u \in Tokens |-> Book(k.pos[u])]
<1>1. k.pos \in [Tokens -> Positions]
  OBVIOUS
<1>2. Summable(f, NumTokens) /\ Summable(g, NumTokens) /\ NumTokens \in Nat
  BY <1>1, ValueType, LedgerAssumption
<1>3. \A u \in 1..NumTokens : u # t => f[u] = g[u]
  BY DEF Tokens
<1>4. f[t] = Book(l.pos[t]) /\ g[t] = Book(n)
  OBVIOUS
<1>5. t \in 1..NumTokens
  BY DEF Tokens
<1> HIDE DEF f, g
<1>6. SumUpTo(g, NumTokens) = SumUpTo(f, NumTokens) + g[t] - f[t]
  BY <1>2, <1>3, <1>5, SumPoint
<1>7. BookValue(l) = SumUpTo(f, NumTokens) /\ BookValue(k) = SumUpTo(g, NumTokens)
  BY DEF BookValue, f, g
<1>8. QED
  BY <1>4, <1>6, <1>7

\* Committing raises the peak and touches nothing else.
LEMMA CommitSound ==
  ASSUME NEW l, SoundLedger(l)
  PROVE  /\ SoundLedger(WithPeak(l))
         /\ Balance(WithPeak(l)) = Balance(l)
         /\ WithPeak(l).cash = l.cash
         /\ WithPeak(l).realized = l.realized
         /\ WithPeak(l).fees = l.fees
         /\ WithPeak(l).pos = l.pos
         /\ Equity(l) \in Int
<1> DEFINE m == WithPeak(l)
<1>1. l \in LedgerType
  BY DEF SoundLedger
<1>2. Equity(l) \in Int
  <2>1. l.cash \in Int /\ l.pos \in [Tokens -> Positions]
    BY <1>1 DEF LedgerType
  <2>2. SumUpTo([t \in Tokens |-> Worth(l.pos[t])], NumTokens) \in Int
    BY <2>1, ValueType
  <2>3. QED
    BY <2>1, <2>2 DEF Equity
<1>3. Greater(l.peak, Equity(l)) \in Nat
  BY <1>1, <1>2 DEF LedgerType, Greater
<1>4. /\ m \in LedgerType
      /\ m.cash = l.cash /\ m.realized = l.realized /\ m.fees = l.fees /\ m.pos = l.pos
  BY <1>1, <1>3 DEF LedgerType, WithPeak
<1>5. Balance(m) = Balance(l)
  BY <1>4 DEF Balance, BookValue
<1>6. QED
  BY <1>2, <1>4, <1>5 DEF SoundLedger

\* A fill moves the balance by the fee of an opening fill, and by nothing when it
\* closes; the ledger stays sound.
LEMMA FillBalances ==
  ASSUME NEW l, SoundLedger(l), NEW t \in Tokens, NEW side \in Sides, NEW size \in Nat,
         NEW price \in Nat, NEW fee \in Nat
  PROVE  LET m == ApplyFill(l, t, side, size, price, fee)
         IN  /\ SoundLedger(m)
             /\ Balance(m) = Balance(l)
                  - (IF Adds(l.pos[t], Signed(side, size)) THEN fee ELSE 0)
<1> DEFINE s == Signed(side, size)
           p == l.pos[t]
           n == FilledPosition(p, s, price)
           k == [cash     |-> l.cash + CashDelta(s, price, fee),
                 realized |-> l.realized + Realized(p, s, price, fee),
                 fees     |-> l.fees + fee,
                 peak     |-> l.peak,
                 pos      |-> [l.pos EXCEPT ![t] = n]]
<1>1. /\ l \in LedgerType /\ l.cash \in Int /\ l.realized \in Int /\ l.fees \in Nat
      /\ l.peak \in Nat /\ l.pos \in [Tokens -> Positions]
  BY DEF SoundLedger, LedgerType
<1>2. SoundPosition(p)
  BY <1>1 DEF SoundLedger, SoundPosition
<1>3. s \in Int
  BY DEF Signed
<1>4. /\ SoundPosition(n) /\ Realized(p, s, price, fee) \in Int
      /\ Book(n) = Book(p) + s * price + Realized(p, s, price, fee)
                    + (IF Adds(p, s) THEN 0 ELSE fee)
  <2>0. Book(p) \in Int /\ s * price \in Int
    BY <1>2, <1>3, BookValueType DEF SoundPosition
  <2>1. CASE Adds(p, s)
    BY <2>0, <2>1, <1>2, <1>3, AddingBooks
  <2>2. CASE ~Adds(p, s)
    BY <2>2, <1>2, <1>3, ClosingBooks
  <2>3. QED
    BY <2>1, <2>2
<1>5. n \in Positions /\ n.mark = price /\ price # NoMark
  BY <1>4 DEF SoundPosition, FilledPosition, NoMark
<1>6. CashDelta(s, price, fee) = -(s * price) - fee /\ s * price \in Int
  BY <1>3 DEF CashDelta
<1>7. Book(p) \in Int /\ Book(n) \in Int
  BY <1>2, <1>5, BookValueType DEF SoundPosition
<1>8. BookValue(l) \in Int /\ BookValue(k) = BookValue(l) + Book(n) - Book(p)
  <2> HIDE DEF n
  <2>1. BookValue(l) \in Int
    BY <1>1, ValueType DEF BookValue
  <2>2. k.pos = [l.pos EXCEPT ![t] = n]
    OBVIOUS
  <2>3. QED
    BY <1>1, <1>5, <2>1, <2>2, BookValueMoves
<1>9. SoundLedger(k)
  <2>1. k.pos \in [Tokens -> Positions]
    BY <1>1, <1>5
  <2>2. k \in LedgerType
    BY <1>1, <1>4, <1>6, <2>1 DEF LedgerType
  <2>3. \A u \in Tokens : (k.pos[u].qty = 0 => k.pos[u].cost = 0)
                          /\ (k.pos[u].qty # 0 => k.pos[u].mark # NoMark)
    <3>1. TAKE u \in Tokens
    <3>2. CASE u = t
      <4>1. k.pos[u] = n
        BY <3>2, <1>1
      <4> HIDE DEF n
      <4>2. QED
        BY <4>1, <1>4, <1>5 DEF SoundPosition
    <3>3. CASE u # t
      <4>1. k.pos[u] = l.pos[u]
        BY <3>3, <1>1
      <4>2. QED
        BY <4>1 DEF SoundLedger
    <3>4. QED
      BY <3>2, <3>3
  <2>4. QED
    BY <2>2, <2>3 DEF SoundLedger
<1>10. Balance(k) = Balance(l) - (IF Adds(p, s) THEN fee ELSE 0)
  <2> DEFINE r == Realized(p, s, price, fee)
             a == IF Adds(p, s) THEN 0 ELSE fee
             d == IF Adds(p, s) THEN fee ELSE 0
             v == s * price
  <2>1. Balance(k) = k.cash + BookValue(k) - k.realized
    BY DEF Balance
  <2>2. k.cash = l.cash - v - fee /\ k.realized = l.realized + r
    BY <1>1, <1>6
  <2>3. Balance(l) = l.cash + BookValue(l) - l.realized
    BY DEF Balance
  <2>4. a \in Int /\ d \in Int /\ fee = a + d
    OBVIOUS
  <2>5. v \in Int /\ r \in Int /\ Book(n) = Book(p) + v + r + a
    BY <1>4, <1>6
  <2> HIDE DEF r, a, d, v, n, k, p
  <2>6. BookValue(k) = BookValue(l) + v + r + a
    BY <1>7, <1>8, <2>4, <2>5
  <2>7. Balance(k) = Balance(l) - d
    BY <1>1, <1>8, <2>1, <2>2, <2>3, <2>4, <2>5, <2>6
  <2>8. QED
    BY <2>7 DEF d
<1>11. ApplyFill(l, t, side, size, price, fee) = WithPeak(k)
  BY Zenon DEF ApplyFill
<1> HIDE DEF k, s, p
<1>12. QED
  BY <1>9, <1>10, <1>11, CommitSound DEF s, p

\* A mark moves nothing but the mark and the peak.
LEMMA MarkBalances ==
  ASSUME NEW l, SoundLedger(l), NEW t \in Tokens, NEW price \in Nat
  PROVE  /\ SoundLedger(ApplyMark(l, t, price))
         /\ Balance(ApplyMark(l, t, price)) = Balance(l)
<1> DEFINE p == l.pos[t]
           n == [qty |-> p.qty, cost |-> p.cost, mark |-> price]
           k == [l EXCEPT !.pos[t] = n]
<1>1. /\ l \in LedgerType /\ l.pos \in [Tokens -> Positions]
      /\ l.cash \in Int /\ l.realized \in Int
  BY DEF SoundLedger, LedgerType
<1>2. p \in Positions /\ (p.qty = 0 => p.cost = 0)
  BY <1>1 DEF SoundLedger
<1>3. n \in Positions /\ Book(n) = Book(p) /\ price # NoMark
  BY <1>2 DEF Positions, Book, NoMark
<1>4. /\ k \in LedgerType /\ k.cash = l.cash /\ k.realized = l.realized
      /\ k.pos = [l.pos EXCEPT ![t] = n]
  BY <1>1, <1>3 DEF LedgerType
<1>5. BookValue(k) = BookValue(l)
  <2>1. Book(p) \in Int /\ BookValue(l) \in Int
    BY <1>1, <1>2, BookValueType, ValueType DEF BookValue
  <2> HIDE DEF n, k
  <2>2. BookValue(k) = BookValue(l) + Book(n) - Book(p)
    BY <1>1, <1>3, <1>4, BookValueMoves
  <2>3. QED
    BY <2>1, <2>2, <1>3
<1>6. \A u \in Tokens : (k.pos[u].qty = 0 => k.pos[u].cost = 0)
                        /\ (k.pos[u].qty # 0 => k.pos[u].mark # NoMark)
  <2>1. TAKE u \in Tokens
  <2>2. CASE u = t
    BY <2>2, <1>1, <1>2, <1>3, <1>4
  <2>3. CASE u # t
    <3>1. k.pos[u] = l.pos[u]
      BY <2>3, <1>1, <1>4
    <3>2. QED
      BY <3>1 DEF SoundLedger
  <2>4. QED
    BY <2>2, <2>3
<1>7. SoundLedger(k) /\ Balance(k) = Balance(l)
  BY <1>4, <1>5, <1>6 DEF SoundLedger, Balance
<1>8. ApplyMark(l, t, price) = WithPeak(k)
  BY <1>1 DEF ApplyMark
<1> HIDE DEF k
<1>9. QED
  BY <1>7, <1>8, CommitSound

\* A fresh ledger is sound and holds the starting cash.
LEMMA FreshSound ==
  SoundLedger(FreshLedger) /\ Balance(FreshLedger) = StartingCash
<1>1. /\ FreshLedger \in LedgerType /\ FreshLedger.cash = StartingCash
      /\ FreshLedger.realized = 0
      /\ FreshLedger.pos = [t \in Tokens |-> EmptyPosition]
  BY LedgerAssumption
     DEF FreshLedger, LedgerType, Positions, EmptyPosition, NoMark
<1>2. SoundLedger(FreshLedger)
  BY <1>1 DEF SoundLedger, EmptyPosition
<1> DEFINE g == [t \in Tokens |-> Book(FreshLedger.pos[t])]
<1>3. BookValue(FreshLedger) = 0
  <2>1. \A t \in 1..NumTokens : g[t] = 0
    BY <1>1 DEF Tokens, EmptyPosition, Book
  <2>2. NumTokens \in Nat /\ 0 <= NumTokens
    BY LedgerAssumption
  <2>3. Summable(g, 0)
    BY DEF Summable
  <2> HIDE DEF g
  <2>4. SumUpTo(g, NumTokens) = SumUpTo(g, 0)
    BY <2>1, <2>2, <2>3, SumPadded
  <2>5. QED
    BY <2>4, SumZero DEF BookValue, g
<1>4. Balance(FreshLedger) = StartingCash
  BY <1>1, <1>3, LedgerAssumption DEF Balance
<1>5. QED
  BY <1>2, <1>4

-----------------------------------------------------------------------------
(* What one operation does to the fields of a ledger *)

\* Equity is read from cash and positions; raising the peak does not move it.
LEMMA CommitEffect ==
  ASSUME NEW l, SoundLedger(l)
  PROVE  /\ Equity(WithPeak(l)) = Equity(l)
         /\ WithPeak(l).peak = Greater(l.peak, Equity(l))
<1>1. WithPeak(l).cash = l.cash /\ WithPeak(l).pos = l.pos
  BY CommitSound
<1>2. WithPeak(l).peak = Greater(l.peak, Equity(l))
  BY DEF WithPeak, SoundLedger, LedgerType
<1>3. QED
  BY <1>1, <1>2 DEF Equity

\* The ledger a fill hands to _commit.
Uncommitted(l, t, s, price, fee) ==
  [cash     |-> l.cash + CashDelta(s, price, fee),
   realized |-> l.realized + Realized(l.pos[t], s, price, fee),
   fees     |-> l.fees + fee,
   peak     |-> l.peak,
   pos      |-> [l.pos EXCEPT ![t] = FilledPosition(l.pos[t], s, price)]]

\* A ledger that differs from a sound one in the peak alone is sound.
LEMMA SoundBelowPeak ==
  ASSUME NEW l, l = [cash |-> l.cash, realized |-> l.realized, fees |-> l.fees,
                     peak |-> l.peak, pos |-> l.pos],
         l.peak \in Nat, SoundLedger(WithPeak(l))
  PROVE  SoundLedger(l)
<1>1. /\ WithPeak(l).cash = l.cash /\ WithPeak(l).realized = l.realized
      /\ WithPeak(l).fees = l.fees /\ WithPeak(l).pos = l.pos
  BY DEF WithPeak
<1>2. /\ l.cash \in Int /\ l.realized \in Int /\ l.fees \in Nat
      /\ l.pos \in [Tokens -> Positions]
  BY <1>1 DEF SoundLedger, LedgerType
<1>3. l \in LedgerType
  BY <1>2 DEF LedgerType
<1>4. QED
  BY <1>1, <1>3 DEF SoundLedger

\* apply_fill commits a sound ledger.
LEMMA FillCommits ==
  ASSUME NEW l, SoundLedger(l), NEW t \in Tokens, NEW side \in Sides, NEW size \in Nat,
         NEW price \in Nat, NEW fee \in Nat
  PROVE  LET k == Uncommitted(l, t, Signed(side, size), price, fee)
         IN  SoundLedger(k) /\ ApplyFill(l, t, side, size, price, fee) = WithPeak(k)
<1> DEFINE k == Uncommitted(l, t, Signed(side, size), price, fee)
           m == ApplyFill(l, t, side, size, price, fee)
<1>1. SoundLedger(m)
  BY FillBalances
<1>2. m = WithPeak(k)
  BY Zenon DEF ApplyFill, Uncommitted
<1>3. k.peak \in Nat
  BY DEF SoundLedger, LedgerType, Uncommitted
<1>4. k = [cash |-> k.cash, realized |-> k.realized, fees |-> k.fees,
           peak |-> k.peak, pos |-> k.pos]
  BY DEF Uncommitted
<1> HIDE DEF k, m
<1>5. SoundLedger(k)
  BY <1>1, <1>2, <1>3, <1>4, SoundBelowPeak
<1>6. QED
  BY <1>2, <1>5 DEF k, m

\* A fill raises the peak to the equity it leaves.
LEMMA FillPeak ==
  ASSUME NEW l, SoundLedger(l), NEW t \in Tokens, NEW side \in Sides, NEW size \in Nat,
         NEW price \in Nat, NEW fee \in Nat,
         NEW m, m = ApplyFill(l, t, side, size, price, fee)
  PROVE  SoundLedger(m) /\ m.peak = Greater(l.peak, Equity(m))
<1> DEFINE k == Uncommitted(l, t, Signed(side, size), price, fee)
<1>1. SoundLedger(k) /\ m = WithPeak(k)
  BY FillCommits
<1>2. k.peak = l.peak
  BY DEF Uncommitted
<1> HIDE DEF k
<1>3. QED
  BY <1>1, <1>2, CommitSound, CommitEffect

\* apply_fill, field by field.
LEMMA FillEffect ==
  ASSUME NEW l, SoundLedger(l), NEW t \in Tokens, NEW side \in Sides, NEW size \in Nat,
         NEW price \in Nat, NEW fee \in Nat,
         NEW m, m = ApplyFill(l, t, side, size, price, fee)
  PROVE  /\ m.cash = l.cash - Signed(side, size) * price - fee
         /\ m.realized = l.realized + Realized(l.pos[t], Signed(side, size), price, fee)
         /\ m.fees = l.fees + fee
         /\ m.pos = [l.pos EXCEPT ![t] = FilledPosition(l.pos[t], Signed(side, size), price)]
<1> DEFINE s == Signed(side, size)
           k == Uncommitted(l, t, s, price, fee)
<1>1. SoundLedger(k) /\ m = WithPeak(k)
  BY FillCommits
<1>2. l.cash \in Int /\ s \in Int
  BY DEF SoundLedger, LedgerType, Signed
<1>3. /\ k.cash = l.cash + CashDelta(s, price, fee)
      /\ k.realized = l.realized + Realized(l.pos[t], s, price, fee)
      /\ k.fees = l.fees + fee
      /\ k.pos = [l.pos EXCEPT ![t] = FilledPosition(l.pos[t], s, price)]
  BY DEF Uncommitted
<1>4. l.cash + CashDelta(s, price, fee) = l.cash - s * price - fee
  BY <1>2 DEF CashDelta
<1> HIDE DEF k, s
<1>5. m.cash = k.cash /\ m.realized = k.realized /\ m.fees = k.fees /\ m.pos = k.pos
  BY <1>1, CommitSound
<1>6. QED
  BY <1>3, <1>4, <1>5 DEF s

\* mark commits a sound ledger that differs in the mark of one token.
LEMMA MarkCommits ==
  ASSUME NEW l, SoundLedger(l), NEW t \in Tokens, NEW price \in Nat
  PROVE  \E k : /\ SoundLedger(k) /\ ApplyMark(l, t, price) = WithPeak(k)
                /\ k.cash = l.cash /\ k.realized = l.realized /\ k.fees = l.fees
                /\ k.peak = l.peak
                /\ k.pos = [l.pos EXCEPT ![t] = [qty |-> l.pos[t].qty, cost |-> l.pos[t].cost,
                                                 mark |-> price]]
<1> DEFINE n == [qty |-> l.pos[t].qty, cost |-> l.pos[t].cost, mark |-> price]
           k == [l EXCEPT !.pos[t] = n]
           m == ApplyMark(l, t, price)
<1>1. SoundLedger(m)
  BY MarkBalances
<1>2. /\ l.peak \in Nat
      /\ l = [cash |-> l.cash, realized |-> l.realized, fees |-> l.fees,
              peak |-> l.peak, pos |-> l.pos]
      /\ l.pos \in [Tokens -> Positions]
  BY DEF SoundLedger, LedgerType
<1>3. m = WithPeak(k)
  BY <1>2 DEF ApplyMark
<1>4. /\ k.cash = l.cash /\ k.realized = l.realized /\ k.fees = l.fees /\ k.peak = l.peak
      /\ k.pos = [l.pos EXCEPT ![t] = n]
      /\ k = [cash |-> k.cash, realized |-> k.realized, fees |-> k.fees,
              peak |-> k.peak, pos |-> k.pos]
  <2> HIDE DEF n
  <2>1. QED
    BY <1>2
<1> HIDE DEF k, m, n
<1>5. SoundLedger(k)
  BY <1>1, <1>2, <1>3, <1>4, SoundBelowPeak
<1>6. QED
  BY <1>3, <1>4, <1>5 DEF m, n

\* A mark raises the peak to the equity it leaves.
LEMMA MarkPeak ==
  ASSUME NEW l, SoundLedger(l), NEW t \in Tokens, NEW price \in Nat,
         NEW m, m = ApplyMark(l, t, price)
  PROVE  SoundLedger(m) /\ m.peak = Greater(l.peak, Equity(m))
<1> DEFINE n == [qty |-> l.pos[t].qty, cost |-> l.pos[t].cost, mark |-> price]
<1>1. PICK k : /\ SoundLedger(k) /\ m = WithPeak(k)
               /\ k.cash = l.cash /\ k.realized = l.realized /\ k.fees = l.fees
               /\ k.peak = l.peak
               /\ k.pos = [l.pos EXCEPT ![t] = n]
  BY MarkCommits
<1> HIDE DEF n
<1>2. SoundLedger(WithPeak(k)) /\ WithPeak(k).peak = Greater(k.peak, Equity(k))
  BY <1>1, CommitSound, CommitEffect
<1>3. Equity(WithPeak(k)) = Equity(k)
  BY <1>1, CommitEffect
<1>4. QED
  BY <1>1, <1>2, <1>3

\* mark, field by field.
LEMMA MarkEffect ==
  ASSUME NEW l, SoundLedger(l), NEW t \in Tokens, NEW price \in Nat,
         NEW m, m = ApplyMark(l, t, price)
  PROVE  /\ m.cash = l.cash /\ m.realized = l.realized /\ m.fees = l.fees
         /\ m.pos = [l.pos EXCEPT ![t] = [qty |-> l.pos[t].qty, cost |-> l.pos[t].cost,
                                          mark |-> price]]
<1> DEFINE n == [qty |-> l.pos[t].qty, cost |-> l.pos[t].cost, mark |-> price]
<1>1. PICK k : /\ SoundLedger(k) /\ m = WithPeak(k)
               /\ k.cash = l.cash /\ k.realized = l.realized /\ k.fees = l.fees
               /\ k.pos = [l.pos EXCEPT ![t] = n]
  BY MarkCommits
<1> HIDE DEF n
<1>2. m.cash = k.cash /\ m.realized = k.realized /\ m.fees = k.fees /\ m.pos = k.pos
  BY <1>1, CommitSound
<1>3. QED
  BY <1>1, <1>2 DEF n

\* One close of flatten(), field by field: the position is gone, cash moves by
\* its lots at the mark, no fee is charged.
LEMMA CloseEffect ==
  ASSUME NEW l, SoundLedger(l), NEW t \in Tokens, NEW marks, marks[t] \in Nat,
         NEW m, m = CloseOne(l, t, marks)
  PROVE  /\ m.pos[t].qty = 0 /\ m.pos[t].mark = marks[t]
         /\ \A u \in Tokens : u # t => m.pos[u] = l.pos[u]
         /\ m.cash = l.cash + l.pos[t].qty * marks[t]
         /\ m.fees = l.fees
<1> DEFINE p == l.pos[t]
           side == CloseSide(p)
           size == Abs(p.qty)
           s == Signed(side, size)
<1>1. /\ p.qty \in Int /\ l.cash \in Int /\ l.fees \in Nat
      /\ l.pos \in [Tokens -> Positions]
  BY DEF SoundLedger, LedgerType, Positions
<1>2. side \in Sides /\ size \in Nat
  BY <1>1, AbsType DEF CloseSide, Sides
<1>3. s = -p.qty
  <2>1. /\ Abs(p.qty) = IF p.qty < 0 THEN -p.qty ELSE p.qty
        /\ side = IF p.qty > 0 THEN "SELL" ELSE "BUY"
        /\ s = IF side = "BUY" THEN Abs(p.qty) ELSE -Abs(p.qty)
    BY Zenon DEF Abs, CloseSide, Signed
  <2> HIDE DEF s, side, p
  <2>2. QED
    BY <1>1, <2>1
<1>4. m = ApplyFill(l, t, side, size, marks[t], 0)
  BY Zenon DEF CloseOne
<1> HIDE DEF s, size, side
<1>5. /\ m.cash = l.cash - s * marks[t] - 0
      /\ m.fees = l.fees + 0
      /\ m.pos = [l.pos EXCEPT ![t] = FilledPosition(p, s, marks[t])]
  <2>1. 0 \in Nat
    OBVIOUS
  <2>2. QED
    BY <1>2, <1>4, <2>1, FillEffect DEF s
<1>6. /\ FilledPosition(p, s, marks[t]).qty = p.qty + s
      /\ FilledPosition(p, s, marks[t]).mark = marks[t]
  BY DEF FilledPosition
<1>7. l.cash - s * marks[t] - 0 = l.cash + p.qty * marks[t]
  <2> HIDE DEF p
  <2>1. QED
    BY <1>1, <1>3
<1>8. m.pos[t].qty = 0 /\ m.pos[t].mark = marks[t]
  <2> HIDE DEF p
  <2>1. m.pos[t] = FilledPosition(p, s, marks[t])
    BY <1>1, <1>5
  <2>2. p.qty + s = 0
    BY <1>1, <1>3
  <2>3. QED
    BY <1>6, <2>1, <2>2
<1>9. \A u \in Tokens : u # t => m.pos[u] = l.pos[u]
  BY <1>1, <1>5
<1>10. m.fees = l.fees
  BY <1>1, <1>5
<1>11. QED
  BY <1>5, <1>7, <1>8, <1>9, <1>10 DEF p

\* A ledger without lots is all cash.
LEMMA NothingOpenIsCash ==
  ASSUME NEW l, SoundLedger(l), \A t \in Tokens : l.pos[t].qty = 0
  PROVE  Equity(l) = l.cash
<1> DEFINE f == [t \in Tokens |-> Worth(l.pos[t])]
<1>1. ASSUME NEW t \in Tokens PROVE Worth(l.pos[t]) = 0
  <2>1. l.pos[t].qty = 0 /\ l.pos[t].cost = 0 /\ l.pos[t].mark \in Nat \cup {NoMark}
    BY DEF SoundLedger, LedgerType, Positions
  <2>2. QED
    BY <2>1 DEF Worth, Book, NoMark
<1>2. \A t \in 1..NumTokens : f[t] = 0
  BY <1>1 DEF Tokens
<1>3. NumTokens \in Nat /\ 0 <= NumTokens /\ Summable(f, 0)
  BY LedgerAssumption DEF Summable
<1>4. Equity(l) = l.cash + SumUpTo(f, NumTokens)
  BY DEF Equity
<1> HIDE DEF f
<1>5. SumUpTo(f, NumTokens) = SumUpTo(f, 0)
  BY <1>2, <1>3, SumPadded
<1>6. SumUpTo(f, NumTokens) = 0
  BY <1>5, SumZero
<1>7. l.cash \in Int
  BY DEF SoundLedger, LedgerType
<1>8. QED
  BY <1>4, <1>6, <1>7

-----------------------------------------------------------------------------
(* The closing run of flatten() *)

RunFunction(r, l, order, marks, n) ==
  r = [i \in 0..n |-> IF i = 0 THEN l ELSE CloseOne(r[i - 1], order[i], marks)]

\* The recursion equation of the closing run has a solution.
LEMMA RunExists ==
  ASSUME NEW n \in Nat, NEW l, NEW order, NEW marks
  PROVE  \E r : RunFunction(r, l, order, marks, n)
<1> DEFINE Bad == {m \in 0..n : ~ \E r : RunFunction(r, l, order, marks, m)}
<1>1. SUFFICES ASSUME Bad # {} PROVE FALSE
  OBVIOUS
<1>2. PICK m \in Bad : \A k \in Bad : m <= k
  <2>1. Bad \in SUBSET Nat
    OBVIOUS
  <2>2. QED
    BY <1>1, <2>1, LeastNat
<1>3. m # 0
  <2>1. RunFunction([i \in 0..0 |-> l], l, order, marks, 0)
    BY DEF RunFunction
  <2>2. QED
    BY <2>1
<1>4. m - 1 \in 0..n /\ m - 1 \notin Bad
  BY <1>2, <1>3
<1>5. PICK q : RunFunction(q, l, order, marks, m - 1)
  BY <1>4
<1> DEFINE r == [i \in 0..m |-> IF i = m THEN CloseOne(q[m - 1], order[m], marks) ELSE q[i]]
<1>6. ASSUME NEW i \in 0..m
      PROVE  r[i] = IF i = 0 THEN l ELSE CloseOne(r[i - 1], order[i], marks)
  <2>1. CASE i = m
    <3>1. m - 1 \in 0..m /\ m - 1 # m
      BY <1>3
    <3>2. r[m - 1] = q[m - 1]
      BY <3>1
    <3>3. QED
      BY <2>1, <3>2, <1>3
  <2>2. CASE i # m
    <3>1. i \in 0..(m - 1)
      BY <2>2
    <3>2. q[i] = IF i = 0 THEN l ELSE CloseOne(q[i - 1], order[i], marks)
      BY <1>5, <3>1 DEF RunFunction
    <3>3. i # 0 => r[i - 1] = q[i - 1]
      BY <3>1
    <3>4. QED
      BY <2>2, <3>2, <3>3
  <2>3. QED
    BY <2>1, <2>2
<1>7. RunFunction(r, l, order, marks, m)
  BY <1>6, Zenon DEF RunFunction
<1>8. QED
  BY <1>2, <1>7

\* FlattenRun starts at the ledger and closes one token after the other.
LEMMA RunSteps ==
  ASSUME NEW l, NEW order, NEW marks, Len(order) \in Nat
  PROVE  LET run == FlattenRun(l, order, marks)
         IN  /\ run[0] = l
             /\ \A i \in 1..Len(order) : run[i] = CloseOne(run[i - 1], order[i], marks)
<1> DEFINE run == CHOOSE r : r = [i \in 0..Len(order) |->
                    IF i = 0 THEN l ELSE CloseOne(r[i - 1], order[i], marks)]
<1>1. FlattenRun(l, order, marks) = run
  BY DEF FlattenRun
<1>2. RunFunction(run, l, order, marks, Len(order))
  <2>1. \E r : RunFunction(r, l, order, marks, Len(order))
    BY RunExists
  <2>2. QED
    BY <2>1, Zenon DEF RunFunction
<1> HIDE DEF run
<1>3. \A i \in 0..Len(order) :
        run[i] = IF i = 0 THEN l ELSE CloseOne(run[i - 1], order[i], marks)
  BY <1>2, Zenon DEF RunFunction
<1>4. QED
  BY <1>1, <1>3

\* Closing a position without fee keeps the ledger sound and in balance.
LEMMA CloseBalances ==
  ASSUME NEW l, SoundLedger(l), NEW t \in Tokens, NEW marks, marks[t] \in Nat
  PROVE  /\ SoundLedger(CloseOne(l, t, marks))
         /\ Balance(CloseOne(l, t, marks)) = Balance(l)
<1> DEFINE p == l.pos[t]
<1>1. p.qty \in Int /\ l.cash \in Int /\ l.realized \in Int
  BY DEF SoundLedger, LedgerType, Positions
<1>2. Abs(p.qty) \in Nat /\ CloseSide(p) \in Sides
  BY <1>1, AbsType DEF CloseSide, Sides
<1>3. Balance(l) \in Int
  <2>1. BookValue(l) \in Int
    BY ValueType DEF BookValue, SoundLedger, LedgerType
  <2>2. QED
    BY <1>1, <2>1 DEF Balance
<1> HIDE DEF p
<1>4. LET m == ApplyFill(l, t, CloseSide(p), Abs(p.qty), marks[t], 0)
      IN  SoundLedger(m) /\ Balance(m) = Balance(l)
  BY <1>2, <1>3, FillBalances
<1>5. QED
  BY <1>4 DEF CloseOne, p

\* So does the whole run, at every one of its steps.
LEMMA RunBalances ==
  ASSUME NEW l, SoundLedger(l), NEW order \in Seq(Tokens), NEW marks,
         \A i \in 1..Len(order) : marks[order[i]] \in Nat,
         NEW n \in 0..Len(order)
  PROVE  /\ SoundLedger(FlattenRun(l, order, marks)[n])
         /\ Balance(FlattenRun(l, order, marks)[n]) = Balance(l)
<1> DEFINE run == FlattenRun(l, order, marks)
           Good(i) == SoundLedger(run[i]) /\ Balance(run[i]) = Balance(l)
           Bad == {i \in 0..Len(order) : ~Good(i)}
<1>0. Len(order) \in Nat
  OBVIOUS
<1>1. run[0] = l /\ \A i \in 1..Len(order) : run[i] = CloseOne(run[i - 1], order[i], marks)
  BY <1>0, RunSteps
<1> HIDE DEF run
<1>2. SUFFICES ASSUME Bad # {} PROVE FALSE
  BY DEF run
<1>3. PICK m \in Bad : \A k \in Bad : m <= k
  <2>1. Bad \in SUBSET Nat
    BY <1>0
  <2>2. QED
    BY <1>2, <2>1, LeastNat
<1>4. m # 0
  BY <1>1, <1>3
<1>5. m - 1 \in 0..Len(order) /\ m - 1 \notin Bad /\ m \in 1..Len(order)
  BY <1>0, <1>3, <1>4
<1>6. Good(m - 1)
  BY <1>5
<1>7. order[m] \in Tokens /\ marks[order[m]] \in Nat
  BY <1>5
<1>8. Good(m)
  BY <1>1, <1>5, <1>6, <1>7, CloseBalances
<1>9. QED
  BY <1>3, <1>8

\* An enumeration of a finite set has its elements, and leaves none out.
LEMMA EnumerationIs ==
  ASSUME NEW S, IsFiniteSet(S), NEW q \in SetToSeqs(S)
  PROVE  /\ q \in Seq(S) /\ Len(q) \in Nat /\ DOMAIN q = 1..Len(q) /\ Len(q) = Cardinality(S)
         /\ \A i \in 1..Len(q) : q[i] \in S
         /\ \A x \in S : \E i \in 1..Len(q) : q[i] = x
<1> DEFINE n == Cardinality(S)
<1>1. n \in Nat
  BY FS_CardinalityType
<1>2. q \in [1..n -> S] /\ \A i, j \in 1..n : i # j => q[i] # q[j]
  BY DEF SetToSeqs
<1>3. n = Cardinality(S)
  OBVIOUS
<1> HIDE DEF n
<1>4. Len(q) = n /\ q \in Seq(S) /\ q \in Injection(1..n, S)
  BY <1>1, <1>2 DEF Injection, IsInjective
<1>5. Cardinality(1..n) = n
  BY <1>1, FS_Interval
<1>6. q \in Surjection(1..n, S)
  BY <1>3, <1>4, <1>5, FS_Injection
<1>7. QED
  BY <1>1, <1>2, <1>3, <1>4, <1>6 DEF Surjection

\* Any set of tokens is finite.
LEMMA FiniteTokens ==
  ASSUME NEW S \in SUBSET Tokens
  PROVE  IsFiniteSet(S)
<1>1. IsFiniteSet(Tokens)
  <2>1. NumTokens \in Int
    BY LedgerAssumption
  <2>2. QED
    BY <2>1, FS_Interval DEF Tokens
<1>2. QED
  BY <1>1, FS_Subset

\* A flatten visits the open tokens, and every one of them.
LEMMA OrderOfOpen ==
  ASSUME NEW l, NEW order \in SetToSeqs(OpenTokens(l))
  PROVE  /\ order \in Seq(Tokens)
         /\ \A i \in 1..Len(order) : order[i] \in OpenTokens(l)
         /\ \A t \in OpenTokens(l) : \E i \in 1..Len(order) : order[i] = t
<1>1. OpenTokens(l) \in SUBSET Tokens
  BY DEF OpenTokens
<1>2. IsFiniteSet(OpenTokens(l))
  BY <1>1, FiniteTokens
<1>3. QED
  BY <1>1, <1>2, EnumerationIs

\* A flatten of a sound ledger leaves no lot, whatever the order of the closes.
LEMMA FlattenClears ==
  ASSUME NEW l, SoundLedger(l), NEW order \in SetToSeqs(OpenTokens(l)), NEW marks,
         \A t \in OpenTokens(l) : marks[t] \in Nat,
         NEW m, m = FlattenRun(l, order, marks)[Len(order)]
  PROVE  SoundLedger(m) /\ \A t \in Tokens : m.pos[t].qty = 0
<1> DEFINE run == FlattenRun(l, order, marks)
           n == Len(order)
<1>1. /\ order \in Seq(Tokens) /\ n \in Nat
      /\ \A i \in 1..n : order[i] \in OpenTokens(l)
      /\ \A t \in OpenTokens(l) : \E i \in 1..n : order[i] = t
  BY OrderOfOpen
<1>2. \A i \in 1..n : order[i] \in Tokens /\ marks[order[i]] \in Nat
  BY <1>1 DEF OpenTokens
<1>3. run[0] = l /\ \A i \in 1..n : run[i] = CloseOne(run[i - 1], order[i], marks)
  BY <1>1, RunSteps
<1>4. \A i \in 0..n : SoundLedger(run[i])
  BY <1>1, <1>2, RunBalances
<1>5. m = run[n]
  OBVIOUS
<1> HIDE DEF run, n
<1> DEFINE Cleared(i) == \A t \in Tokens : (t \in OpenTokens(l) => \E j \in 1..i : order[j] = t)
                                              => run[i].pos[t].qty = 0
           Bad == {i \in 0..n : ~Cleared(i)}
<1>6. Cleared(0)
  <2>1. ASSUME NEW t \in Tokens, t \in OpenTokens(l) => \E j \in 1..0 : order[j] = t
        PROVE  run[0].pos[t].qty = 0
    <3>1. t \notin OpenTokens(l)
      BY <2>1
    <3>2. QED
      BY <3>1, <1>3 DEF OpenTokens
  <2>2. QED
    BY <2>1
<1>7. ASSUME NEW i \in 1..n, Cleared(i - 1) PROVE Cleared(i)
  <2> DEFINE k == run[i - 1]
             u == order[i]
  <2>1. SoundLedger(k) /\ u \in Tokens /\ marks[u] \in Nat /\ run[i] = CloseOne(k, u, marks)
    BY <1>1, <1>2, <1>3, <1>4
  <2>2. run[i].pos[u].qty = 0 /\ \A t \in Tokens : t # u => run[i].pos[t] = k.pos[t]
    BY <2>1, CloseEffect
  <2>3. ASSUME NEW t \in Tokens, t \in OpenTokens(l) => \E j \in 1..i : order[j] = t
        PROVE  run[i].pos[t].qty = 0
    <3>1. CASE t = u
      BY <3>1, <2>2
    <3>2. CASE t # u
      <4>1. ASSUME t \in OpenTokens(l) PROVE \E j \in 1..(i - 1) : order[j] = t
        <5>1. PICK j \in 1..i : order[j] = t
          BY <2>3, <4>1
        <5>2. j # i
          BY <5>1, <3>2
        <5>3. j \in 1..(i - 1)
          BY <5>2, <1>1
        <5>4. QED
          BY <5>1, <5>3
      <4>2. k.pos[t].qty = 0
        BY <4>1, <1>7
      <4>3. QED
        BY <4>2, <3>2, <2>2
    <3>3. QED
      BY <3>1, <3>2
  <2>4. QED
    BY <2>3
<1> HIDE DEF Cleared
<1>8. Bad = {}
  <2>1. SUFFICES ASSUME Bad # {} PROVE FALSE
    OBVIOUS
  <2>2. PICK i \in Bad : \A k \in Bad : i <= k
    <3>1. Bad \in SUBSET Nat
      BY <1>1
    <3>2. QED
      BY <2>1, <3>1, LeastNat
  <2>3. i # 0
    BY <1>6, <2>2
  <2>4. i - 1 \in 0..n /\ i - 1 \notin Bad /\ i \in 1..n
    BY <1>1, <2>2, <2>3
  <2>5. QED
    BY <1>7, <2>2, <2>4
<1>9. Cleared(n) /\ SoundLedger(run[n])
  BY <1>1, <1>4, <1>8
<1>10. QED
  BY <1>1, <1>5, <1>9 DEF Cleared


(***************************************************************************)
(* The allocator: sums over sets of markets, the rooms, and what a         *)
(* reservation does to the exposures.  Facts about sums over a set are     *)
(* proved by taking a counterexample of least cardinality.                 *)
(***************************************************************************)

\* A non-empty set of naturals has an element that no smaller natural is in.
LEMMA LeastIn ==
  ASSUME NEW T \in SUBSET Nat, T # {}
  PROVE  \E n \in Nat : n \in T /\ \A m \in Nat : m < n => m \notin T
<1>1. PICK n \in T : \A m \in T : n <= m
  BY LeastNat
<1>2. ASSUME NEW m \in Nat, m < n PROVE m \notin T
  BY <1>1, <1>2
<1>3. QED
  BY <1>1, <1>2

-----------------------------------------------------------------------------
(* The recursive function behind a sum over a set exists and is unique *)

SetSum(f, S) == MapThenSumSet(LAMBDA x : f[x], S)

\* p sums f over every subset of D, taking the elements in the order CHOOSE takes them.
SetSumFunction(p, f, D) ==
  p = [s \in SUBSET D |-> IF s = {} THEN 0
                          ELSE LET x == CHOOSE x \in s : TRUE IN f[x] + p[s \ {x}]]

IntOn(f, S) == \A x \in S : f[x] \in Int

\* The same for the subsets of at most n elements.
SmallSumFunction(p, f, D, n) ==
  \A s \in SUBSET D : Cardinality(s) <= n =>
    /\ p[s] \in Int
    /\ p[s] = IF s = {} THEN 0 ELSE LET x == CHOOSE x \in s : TRUE IN f[x] + p[s \ {x}]

\* What taking an element out of a finite set does to its size.
LEMMA SmallerByOne ==
  ASSUME NEW s, IsFiniteSet(s), NEW x \in s
  PROVE  /\ Cardinality(s) \in Nat
         /\ Cardinality(s \ {x}) \in Nat
         /\ Cardinality(s) = Cardinality(s \ {x}) + 1
         /\ IsFiniteSet(s \ {x})
<1>1. IsFiniteSet(s \ {x}) /\ Cardinality(s \ {x}) = Cardinality(s) - 1
  BY FS_RemoveElement
<1>2. Cardinality(s) \in Nat /\ Cardinality(s \ {x}) \in Nat
  BY <1>1, FS_CardinalityType
<1>3. QED
  BY <1>1, <1>2

\* A sum function exists for subsets of any size.
LEMMA SmallSumExists ==
  ASSUME NEW D, IsFiniteSet(D), NEW f, IntOn(f, D), NEW n \in Nat
  PROVE  \E p : SmallSumFunction(p, f, D, n)
<1> DEFINE Bad == {k \in Nat : ~ \E p : SmallSumFunction(p, f, D, k)}
<1>1. SUFFICES ASSUME Bad # {} PROVE FALSE
  OBVIOUS
<1>2. PICK k \in Nat : k \in Bad /\ \A j \in Nat : j < k => j \notin Bad
  <2>1. Bad \in SUBSET Nat
    OBVIOUS
  <2>2. QED
    BY <1>1, <2>1, LeastIn
<1>3. k # 0
  <2>1. SUFFICES SmallSumFunction([s \in SUBSET D |-> 0], f, D, 0)
    BY <1>2
  <2>2. ASSUME NEW s \in SUBSET D, Cardinality(s) <= 0 PROVE s = {}
    <3>1. ASSUME NEW x \in s PROVE FALSE
      <4>1. /\ Cardinality(s \ {x}) \in Nat
            /\ Cardinality(s) = Cardinality(s \ {x}) + 1
        BY SmallerByOne, FS_Subset
      <4>2. QED
        BY <4>1, <2>2
    <3>2. QED
      BY <3>1
  <2>3. QED
    BY <2>2 DEF SmallSumFunction
<1>4. k - 1 \in Nat /\ k - 1 \notin Bad
  BY <1>2, <1>3
<1>5. PICK q : SmallSumFunction(q, f, D, k - 1)
  BY <1>4
<1> DEFINE r == [s \in SUBSET D |-> IF s = {} THEN 0
                                    ELSE LET x == CHOOSE x \in s : TRUE IN f[x] + q[s \ {x}]]
<1>6. ASSUME NEW s \in SUBSET D, Cardinality(s) <= k, s # {}
      PROVE  LET x == CHOOSE x \in s : TRUE
             IN  /\ x \in s
                 /\ r[s] = f[x] + q[s \ {x}]
                 /\ Cardinality(s \ {x}) <= k - 1
                 /\ s \ {x} \in SUBSET D
                 /\ r[s] \in Int
  <2> DEFINE x == CHOOSE x \in s : TRUE
  <2>1. x \in s
    BY <1>6
  <2>2. r[s] = f[x] + q[s \ {x}]
    BY <1>6
  <2>3. Cardinality(s \ {x}) <= k - 1 /\ s \ {x} \in SUBSET D
    <3> HIDE DEF x
    <3>1. /\ Cardinality(s \ {x}) \in Nat
          /\ Cardinality(s) = Cardinality(s \ {x}) + 1
      BY <2>1, SmallerByOne, FS_Subset
    <3>2. QED
      BY <3>1, <1>4, <1>6
  <2>4. q[s \ {x}] \in Int
    BY <1>5, <2>3 DEF SmallSumFunction
  <2>5. f[x] \in Int
    BY <2>1 DEF IntOn
  <2>6. QED
    BY <2>1, <2>2, <2>3, <2>4, <2>5
<1>7. ASSUME NEW s \in SUBSET D, Cardinality(s) <= k - 1 PROVE r[s] = q[s]
  BY <1>5, <1>7 DEF SmallSumFunction
<1>8. SmallSumFunction(r, f, D, k)
  <2>1. ASSUME NEW s \in SUBSET D, Cardinality(s) <= k
        PROVE  /\ r[s] \in Int
               /\ r[s] = IF s = {} THEN 0 ELSE LET x == CHOOSE x \in s : TRUE IN f[x] + r[s \ {x}]
    <3>1. CASE s = {}
      BY <3>1
    <3>2. CASE s # {}
      <4> DEFINE x == CHOOSE x \in s : TRUE
      <4>1. /\ r[s] = f[x] + q[s \ {x}]
            /\ Cardinality(s \ {x}) <= k - 1
            /\ s \ {x} \in SUBSET D
            /\ r[s] \in Int
        BY <1>6, <2>1, <3>2
      <4>2. r[s \ {x}] = q[s \ {x}]
        BY <1>7, <4>1
      <4> HIDE DEF r
      <4>3. QED
        BY <3>2, <4>1, <4>2
    <3>3. QED
      BY <3>1, <3>2
  <2>2. QED
    BY <2>1, Zenon DEF SmallSumFunction
<1>9. QED
  BY <1>2, <1>8

\* An integer function satisfies the recursion equation on all subsets.
LEMMA SetSumExists ==
  ASSUME NEW D, IsFiniteSet(D), NEW f, IntOn(f, D)
  PROVE  \E p \in [SUBSET D -> Int] : SetSumFunction(p, f, D)
<1>1. Cardinality(D) \in Nat
  BY FS_CardinalityType
<1>2. PICK q : SmallSumFunction(q, f, D, Cardinality(D))
  BY <1>1, SmallSumExists
<1>3. ASSUME NEW s \in SUBSET D PROVE Cardinality(s) <= Cardinality(D)
  BY FS_Subset
<1> DEFINE p == [s \in SUBSET D |-> q[s]]
<1>4. p \in [SUBSET D -> Int]
  BY <1>2, <1>3 DEF SmallSumFunction
<1>5. ASSUME NEW s \in SUBSET D
      PROVE  p[s] = IF s = {} THEN 0 ELSE LET x == CHOOSE x \in s : TRUE IN f[x] + p[s \ {x}]
  <2>1. q[s] = IF s = {} THEN 0 ELSE LET x == CHOOSE x \in s : TRUE IN f[x] + q[s \ {x}]
    BY <1>2, <1>3 DEF SmallSumFunction
  <2>2. \A x : p[s \ {x}] = q[s \ {x}]
    OBVIOUS
  <2>3. QED
    BY <2>1, <2>2
<1>6. SetSumFunction(p, f, D)
  BY <1>5, Zenon DEF SetSumFunction
<1>7. QED
  BY <1>4, <1>6

\* Two solutions of the recursion equation, for a set and for a larger one, agree
\* on the subsets of the smaller.
LEMMA SetSumUnique ==
  ASSUME NEW D, IsFiniteSet(D), NEW E \in SUBSET D, NEW f, NEW p, NEW q,
         SetSumFunction(p, f, D), SetSumFunction(q, f, E), NEW s \in SUBSET E
  PROVE  p[s] = q[s]
<1> DEFINE Bad == {k \in Nat : \E t \in SUBSET E : Cardinality(t) = k /\ p[t] # q[t]}
<1>1. SUFFICES ASSUME p[s] # q[s] PROVE FALSE
  OBVIOUS
<1>2. s \in SUBSET D /\ IsFiniteSet(s)
  BY FS_Subset
<1>3. Cardinality(s) \in Bad
  BY <1>1, <1>2, FS_CardinalityType
<1>4. PICK k \in Nat : k \in Bad /\ \A j \in Nat : j < k => j \notin Bad
  <2>1. Bad \in SUBSET Nat
    OBVIOUS
  <2>2. QED
    BY <1>3, <2>1, LeastIn
<1>5. PICK t \in SUBSET E : Cardinality(t) = k /\ p[t] # q[t]
  BY <1>4
<1>6. t \in SUBSET D
  OBVIOUS
<1> DEFINE x == CHOOSE x \in t : TRUE
<1>7. /\ p[t] = IF t = {} THEN 0 ELSE f[x] + p[t \ {x}]
      /\ q[t] = IF t = {} THEN 0 ELSE f[x] + q[t \ {x}]
  BY <1>6, Zenon DEF SetSumFunction
<1>8. t # {} /\ x \in t
  BY <1>5, <1>7
<1> HIDE DEF x
<1>9. p[t \ {x}] # q[t \ {x}]
  BY <1>5, <1>7, <1>8
<1>10. /\ Cardinality(t \ {x}) \in Nat
       /\ Cardinality(t) = Cardinality(t \ {x}) + 1
  BY <1>6, <1>8, SmallerByOne, FS_Subset
<1>11. Cardinality(t \ {x}) \in Bad
  BY <1>9, <1>10
<1>12. Cardinality(t \ {x}) < k
  BY <1>5, <1>10
<1>13. QED
  BY <1>4, <1>10, <1>11, <1>12

\* SetSum is the value of any solution.
LEMMA SetSumIs ==
  ASSUME NEW D, IsFiniteSet(D), NEW f, IntOn(f, D), NEW p, SetSumFunction(p, f, D),
         NEW S \in SUBSET D
  PROVE  SetSum(f, S) = p[S]
<1> DEFINE q == CHOOSE q : q = [s \in SUBSET S |-> IF s = {} THEN 0
                                   ELSE LET x == CHOOSE x \in s : TRUE IN f[x] + q[s \ {x}]]
<1>1. SetSum(f, S) = q[S]
  BY DEF SetSum, MapThenSumSet, MapThenFoldSet
<1>2. SetSumFunction(q, f, S)
  <2>1. IsFiniteSet(S) /\ IntOn(f, S)
    BY FS_Subset DEF IntOn
  <2>2. \E r : SetSumFunction(r, f, S)
    BY <2>1, SetSumExists
  <2>3. QED
    BY <2>2, Zenon DEF SetSumFunction
<1> HIDE DEF q
<1>3. p[S] = q[S]
  BY <1>2, SetSumUnique
<1>4. QED
  BY <1>1, <1>3

\* The sum over no elements.
LEMMA SetSumEmpty ==
  ASSUME NEW f
  PROVE  SetSum(f, {}) = 0
<1>1. IsFiniteSet({}) /\ IntOn(f, {})
  BY FS_EmptySet DEF IntOn
<1>2. PICK p \in [SUBSET {} -> Int] : SetSumFunction(p, f, {})
  BY <1>1, SetSumExists
<1>3. p[{}] = 0
  BY <1>2 DEF SetSumFunction
<1>4. QED
  BY <1>1, <1>2, <1>3, SetSumIs

\* A sum of integers is an integer.
LEMMA SetSumInt ==
  ASSUME NEW S, IsFiniteSet(S), NEW f, IntOn(f, S)
  PROVE  SetSum(f, S) \in Int
<1>1. PICK p \in [SUBSET S -> Int] : SetSumFunction(p, f, S)
  BY SetSumExists
<1>2. SetSum(f, S) = p[S]
  BY <1>1, SetSumIs
<1>3. QED
  BY <1>1, <1>2

\* Any element may be taken out first.
LEMMA SetSumRemove ==
  ASSUME NEW S, IsFiniteSet(S), NEW f, IntOn(f, S), NEW y \in S
  PROVE  SetSum(f, S) = f[y] + SetSum(f, S \ {y})
<1>1. PICK p \in [SUBSET S -> Int] : SetSumFunction(p, f, S)
  BY SetSumExists
<1> DEFINE Bad == {k \in Nat : \E t \in SUBSET S : Cardinality(t) = k
                                  /\ \E z \in t : p[t] # f[z] + p[t \ {z}]}
<1>2. Bad = {}
  <2>1. SUFFICES ASSUME Bad # {} PROVE FALSE
    OBVIOUS
  <2>2. PICK k \in Nat : k \in Bad /\ \A j \in Nat : j < k => j \notin Bad
    <3>1. Bad \in SUBSET Nat
      OBVIOUS
    <3>2. QED
      BY <2>1, <3>1, LeastIn
  <2>3. PICK t \in SUBSET S, z \in S : z \in t /\ Cardinality(t) = k /\ p[t] # f[z] + p[t \ {z}]
    BY <2>2
  <2> DEFINE x == CHOOSE x \in t : TRUE
  <2>4. x \in t
    BY <2>3
  <2>5. p[t] = f[x] + p[t \ {x}]
    BY <1>1, <2>3, Zenon DEF SetSumFunction
  <2> HIDE DEF x
  <2>6. x # z
    BY <2>3, <2>5
  <2>7. /\ Cardinality(t \ {x}) \in Nat
        /\ Cardinality(t) = Cardinality(t \ {x}) + 1
    BY <2>4, SmallerByOne, FS_Subset
  <2>8. /\ Cardinality(t \ {z}) \in Nat
        /\ Cardinality(t) = Cardinality(t \ {z}) + 1
    BY <2>3, SmallerByOne, FS_Subset
  <2>9. k \in Nat /\ Cardinality(t) = k /\ z \in t
    BY <2>2, <2>3
  <2>10. p[t \ {x}] = f[z] + p[(t \ {x}) \ {z}]
    <3>1. Cardinality(t \ {x}) \notin Bad
      <4>1. Cardinality(t \ {x}) < k
        BY <2>9, <2>7
      <4>2. QED
        BY <2>2, <2>7, <4>1
    <3>2. t \ {x} \in SUBSET S /\ z \in t \ {x}
      BY <2>6, <2>9
    <3>3. QED
      BY <3>1, <3>2, <2>7
  <2>11. p[t \ {z}] = f[x] + p[(t \ {z}) \ {x}]
    <3>1. Cardinality(t \ {z}) \notin Bad
      <4>1. Cardinality(t \ {z}) < k
        BY <2>9, <2>8
      <4>2. QED
        BY <2>2, <2>8, <4>1
    <3>2. t \ {z} \in SUBSET S /\ x \in t \ {z}
      BY <2>4, <2>6
    <3>3. QED
      BY <3>1, <3>2, <2>8
  <2>12. (t \ {x}) \ {z} = (t \ {z}) \ {x}
    OBVIOUS
  <2>13. f[x] \in Int /\ f[z] \in Int /\ p[(t \ {x}) \ {z}] \in Int
    <3>1. (t \ {x}) \ {z} \in SUBSET S
      OBVIOUS
    <3>2. QED
      BY <1>1, <2>3, <2>4, <3>1 DEF IntOn
  <2> DEFINE r == p[(t \ {x}) \ {z}]
  <2>14. p[t] = f[x] + (f[z] + r) /\ p[t \ {z}] = f[x] + r
    BY <2>5, <2>10, <2>11, <2>12
  <2> HIDE DEF r
  <2>15. QED
    BY <2>3, <2>13, <2>14 DEF r
<1>3. p[S] = f[y] + p[S \ {y}]
  <2>1. Cardinality(S) \in Nat
    BY FS_CardinalityType
  <2>2. QED
    BY <1>2, <2>1
<1>4. SetSum(f, S) = p[S]
  BY <1>1, SetSumIs
<1>5. SetSum(f, S \ {y}) = p[S \ {y}]
  BY <1>1, SetSumIs
<1>6. QED
  BY <1>3, <1>4, <1>5

\* A sum of naturals is a natural number.
LEMMA SetSumNat ==
  ASSUME NEW S, IsFiniteSet(S), NEW f, \A x \in S : f[x] \in Nat
  PROVE  SetSum(f, S) \in Nat
<1>1. IntOn(f, S)
  BY DEF IntOn
<1> DEFINE Bad == {k \in Nat : \E t \in SUBSET S : Cardinality(t) = k /\ SetSum(f, t) \notin Nat}
<1>2. SUFFICES ASSUME SetSum(f, S) \notin Nat PROVE FALSE
  OBVIOUS
<1>3. Cardinality(S) \in Bad
  BY <1>2, FS_CardinalityType
<1>4. PICK k \in Nat : k \in Bad /\ \A j \in Nat : j < k => j \notin Bad
  <2>1. Bad \in SUBSET Nat
    OBVIOUS
  <2>2. QED
    BY <1>3, <2>1, LeastIn
<1>5. PICK t \in SUBSET S : Cardinality(t) = k /\ SetSum(f, t) \notin Nat
  BY <1>4
<1>6. IsFiniteSet(t) /\ IntOn(f, t)
  BY <1>1, FS_Subset DEF IntOn
<1>7. t # {}
  BY <1>5, SetSumEmpty
<1>8. PICK x \in t : TRUE
  BY <1>7
<1>9. SetSum(f, t) = f[x] + SetSum(f, t \ {x})
  BY <1>6, SetSumRemove
<1>10. /\ Cardinality(t \ {x}) \in Nat
       /\ Cardinality(t) = Cardinality(t \ {x}) + 1
  BY SmallerByOne, FS_Subset
<1>11. Cardinality(t \ {x}) \notin Bad
  <2>1. Cardinality(t \ {x}) < k
    BY <1>5, <1>10
  <2>2. QED
    BY <1>4, <1>10, <2>1
<1>12. SetSum(f, t \ {x}) \in Nat
  BY <1>10, <1>11
<1>13. QED
  BY <1>5, <1>9, <1>12

\* A sum depends on the summands alone.
LEMMA SetSumSame ==
  ASSUME NEW S, IsFiniteSet(S), NEW f, IntOn(f, S), NEW g, \A x \in S : f[x] = g[x]
  PROVE  SetSum(f, S) = SetSum(g, S)
<1>1. PICK p \in [SUBSET S -> Int] : SetSumFunction(p, f, S)
  BY SetSumExists
<1>2. IntOn(g, S)
  BY DEF IntOn
<1>3. ASSUME NEW s \in SUBSET S
      PROVE  p[s] = IF s = {} THEN 0 ELSE LET x == CHOOSE x \in s : TRUE IN g[x] + p[s \ {x}]
  <2> DEFINE x == CHOOSE x \in s : TRUE
  <2>1. p[s] = IF s = {} THEN 0 ELSE f[x] + p[s \ {x}]
    BY <1>1, Zenon DEF SetSumFunction
  <2>2. s # {} => f[x] = g[x]
    OBVIOUS
  <2>3. QED
    BY <2>1, <2>2
<1>4. SetSumFunction(p, g, S)
  <2>1. p = [s \in SUBSET S |-> p[s]]
    BY <1>1
  <2>2. QED
    BY <1>3, <2>1, Zenon DEF SetSumFunction
<1>5. SetSum(f, S) = p[S]
  BY <1>1, SetSumIs
<1>6. SetSum(g, S) = p[S]
  BY <1>2, <1>4, SetSumIs
<1>7. QED
  BY <1>5, <1>6

\* An element that was not in the set adds its summand.
LEMMA SetSumAdd ==
  ASSUME NEW S, IsFiniteSet(S), NEW y, y \notin S, NEW f, IntOn(f, S), f[y] \in Int
  PROVE  SetSum(f, S \cup {y}) = SetSum(f, S) + f[y]
<1>1. IsFiniteSet(S \cup {y}) /\ IntOn(f, S \cup {y})
  BY FS_AddElement DEF IntOn
<1>2. SetSum(f, S \cup {y}) = f[y] + SetSum(f, (S \cup {y}) \ {y})
  BY <1>1, SetSumRemove
<1>3. SetSum(f, (S \cup {y}) \ {y}) = SetSum(f, S)
  <2>1. (S \cup {y}) \ {y} = S
    OBVIOUS
  <2>2. QED
    BY <2>1, Zenon
<1>4. SetSum(f, S) \in Int
  BY SetSumInt
<1>5. QED
  BY <1>2, <1>3, <1>4

\* When one summand changes, the sum changes by as much.
LEMMA SetSumPoint ==
  ASSUME NEW S, IsFiniteSet(S), NEW f, IntOn(f, S), NEW g, NEW y \in S, g[y] \in Int,
         \A x \in S \ {y} : g[x] = f[x]
  PROVE  SetSum(g, S) = SetSum(f, S) + (g[y] - f[y])
<1>1. IsFiniteSet(S \ {y}) /\ IntOn(f, S \ {y}) /\ IntOn(g, S)
  BY FS_RemoveElement DEF IntOn
<1>2. SetSum(f, S \ {y}) = SetSum(g, S \ {y})
  BY <1>1, SetSumSame
<1>3. SetSum(f, S) = f[y] + SetSum(f, S \ {y})
  BY SetSumRemove
<1>4. SetSum(g, S) = g[y] + SetSum(g, S \ {y})
  BY <1>1, SetSumRemove
<1>5. SetSum(f, S \ {y}) \in Int /\ f[y] \in Int
  BY <1>1, SetSumInt DEF IntOn
<1>6. QED
  BY <1>2, <1>3, <1>4, <1>5

\* The sum over two disjoint sets is the sum of their sums.
LEMMA SetSumUnion ==
  ASSUME NEW S, IsFiniteSet(S), NEW T, IsFiniteSet(T), S \cap T = {},
         NEW f, IntOn(f, S \cup T)
  PROVE  SetSum(f, S \cup T) = SetSum(f, S) + SetSum(f, T)
<1> DEFINE Bad == {k \in Nat : \E U \in SUBSET T :
                     Cardinality(U) = k /\ SetSum(f, S \cup U) # SetSum(f, S) + SetSum(f, U)}
<1>1. SUFFICES ASSUME Bad # {} PROVE FALSE
  <2>1. Cardinality(T) \in Nat
    BY FS_CardinalityType
  <2>2. QED
    BY <2>1
<1>2. PICK k \in Nat : k \in Bad /\ \A j \in Nat : j < k => j \notin Bad
  <2>1. Bad \in SUBSET Nat
    OBVIOUS
  <2>2. QED
    BY <1>1, <2>1, LeastIn
<1>3. PICK U \in SUBSET T :
        Cardinality(U) = k /\ SetSum(f, S \cup U) # SetSum(f, S) + SetSum(f, U)
  BY <1>2
<1>4. IsFiniteSet(U) /\ IntOn(f, U) /\ IntOn(f, S)
  BY FS_Subset DEF IntOn
<1>5. SetSum(f, S) \in Int
  BY <1>4, SetSumInt
<1>6. U # {}
  <2>1. SUFFICES ASSUME U = {} PROVE FALSE
    OBVIOUS
  <2>2. SetSum(f, U) = 0
    BY <2>1, SetSumEmpty
  <2>3. S \cup U = S
    BY <2>1
  <2>4. SetSum(f, S \cup U) = SetSum(f, S)
    BY <2>3, Zenon
  <2>5. QED
    BY <1>3, <1>5, <2>2, <2>4
<1>7. PICK y \in U : TRUE
  BY <1>6
<1> DEFINE V == U \ {y}
<1>8. Cardinality(V) \in Nat /\ Cardinality(V) < k /\ IsFiniteSet(V)
  <2>1. /\ Cardinality(V) \in Nat /\ IsFiniteSet(V)
        /\ Cardinality(U) = Cardinality(V) + 1
    BY <1>4, SmallerByOne
  <2> HIDE DEF V
  <2>2. QED
    BY <1>3, <2>1
<1>9. SetSum(f, S \cup V) = SetSum(f, S) + SetSum(f, V)
  <2>1. V \in SUBSET T
    OBVIOUS
  <2>2. Cardinality(V) \notin Bad
    <3> HIDE DEF Bad, V
    <3>1. QED
      BY <1>2, <1>8
  <2> HIDE DEF V
  <2>3. QED
    BY <1>8, <2>1, <2>2
<1>10. SetSum(f, U) = f[y] + SetSum(f, V)
  BY <1>4, SetSumRemove
<1>11. IsFiniteSet(S \cup U) /\ IntOn(f, S \cup U)
  BY <1>4, FS_Union DEF IntOn
<1>12. SetSum(f, S \cup U) = f[y] + SetSum(f, (S \cup U) \ {y})
  BY <1>11, SetSumRemove
<1>13. SetSum(f, (S \cup U) \ {y}) = SetSum(f, S \cup V)
  <2>1. (S \cup U) \ {y} = S \cup V
    OBVIOUS
  <2>2. QED
    BY <2>1, Zenon
<1>14. SetSum(f, V) \in Int /\ f[y] \in Int
  <2>1. IntOn(f, V)
    BY <1>4 DEF IntOn
  <2>2. QED
    BY <1>4, <1>8, <2>1, SetSumInt DEF IntOn
<1> HIDE DEF V
<1>15. QED
  BY <1>3, <1>5, <1>9, <1>10, <1>12, <1>13, <1>14

\* Fewer natural summands give no larger sum.
LEMMA SetSumSubset ==
  ASSUME NEW S, IsFiniteSet(S), NEW T \in SUBSET S, NEW f, \A x \in S : f[x] \in Nat
  PROVE  SetSum(f, T) <= SetSum(f, S)
<1>1. IsFiniteSet(T) /\ IsFiniteSet(S \ T)
  BY FS_Subset
<1>2. SetSum(f, T) \in Nat /\ SetSum(f, S \ T) \in Nat
  BY <1>1, SetSumNat
<1>3. SetSum(f, T \cup (S \ T)) = SetSum(f, T) + SetSum(f, S \ T)
  <2>1. IntOn(f, T \cup (S \ T))
    BY DEF IntOn
  <2>2. QED
    BY <1>1, <2>1, SetSumUnion
<1>4. SetSum(f, T \cup (S \ T)) = SetSum(f, S)
  <2>1. T \cup (S \ T) = S
    OBVIOUS
  <2>2. QED
    BY <2>1, Zenon
<1>5. QED
  BY <1>2, <1>3, <1>4

\* Summands that are zero may be left out.
LEMMA SetSumZero ==
  ASSUME NEW S, IsFiniteSet(S), NEW f, \A x \in S : f[x] = 0
  PROVE  SetSum(f, S) = 0
<1> DEFINE Bad == {k \in Nat : \E U \in SUBSET S : Cardinality(U) = k /\ SetSum(f, U) # 0}
<1>1. SUFFICES ASSUME Bad # {} PROVE FALSE
  <2>1. Cardinality(S) \in Nat
    BY FS_CardinalityType
  <2>2. QED
    BY <2>1
<1>2. PICK k \in Nat : k \in Bad /\ \A j \in Nat : j < k => j \notin Bad
  <2>1. Bad \in SUBSET Nat
    OBVIOUS
  <2>2. QED
    BY <1>1, <2>1, LeastIn
<1>3. PICK U \in SUBSET S : Cardinality(U) = k /\ SetSum(f, U) # 0
  BY <1>2
<1>4. IsFiniteSet(U) /\ IntOn(f, U) /\ U # {}
  <2>1. U # {}
    BY <1>3, SetSumEmpty, Zenon
  <2>2. QED
    BY <2>1, FS_Subset DEF IntOn
<1>5. PICK y \in U : TRUE
  BY <1>4
<1>6. Cardinality(U \ {y}) \in Nat /\ Cardinality(U \ {y}) < k
  <2>1. /\ Cardinality(U \ {y}) \in Nat
        /\ Cardinality(U) = Cardinality(U \ {y}) + 1
    BY <1>4, SmallerByOne
  <2>2. QED
    BY <1>3, <2>1
<1>7. SetSum(f, U \ {y}) = 0
  BY <1>2, <1>6
<1>8. SetSum(f, U) = f[y] + SetSum(f, U \ {y})
  BY <1>4, SetSumRemove
<1>9. QED
  BY <1>3, <1>7, <1>8

-----------------------------------------------------------------------------
(* Notionals of sets of markets *)

NatBook(book) == \A n \in Markets : book[n].notional \in Nat

Notionals(book) == [n \in Markets |-> book[n].notional]

LEMMA FiniteMarkets ==
  ASSUME NEW S \in SUBSET Markets
  PROVE  IsFiniteSet(S)
  BY LimitsAssumption, FS_Subset

LEMMA NotionalIsSum ==
  ASSUME NEW book, NatBook(book), NEW S \in SUBSET Markets
  PROVE  NotionalOf(book, S) = SetSum(Notionals(book), S)
<1> DEFINE f == [n \in S |-> book[n].notional]
<1>1. NotionalOf(book, S) = SetSum(f, S)
  BY DEF NotionalOf, SetSum, MapThenSumSet, MapThenFoldSet
<1>2. IsFiniteSet(S)
  BY FiniteMarkets
<1>3. IntOn(f, S) /\ \A x \in S : f[x] = Notionals(book)[x]
  BY DEF IntOn, NatBook, Notionals
<1> HIDE DEF f
<1>4. SetSum(f, S) = SetSum(Notionals(book), S)
  BY <1>2, <1>3, SetSumSame
<1>5. QED
  BY <1>1, <1>4

LEMMA NotionalNat ==
  ASSUME NEW book, NatBook(book), NEW S \in SUBSET Markets
  PROVE  NotionalOf(book, S) \in Nat
<1>1. \A x \in S : Notionals(book)[x] \in Nat
  BY DEF NatBook, Notionals
<1>2. SetSum(Notionals(book), S) \in Nat
  BY <1>1, FiniteMarkets, SetSumNat
<1>3. QED
  BY <1>2, NotionalIsSum

\* The notional of a set depends on the notionals of its members.
LEMMA NotionalSame ==
  ASSUME NEW book, NatBook(book), NEW other, NatBook(other), NEW S \in SUBSET Markets,
         \A n \in S : book[n].notional = other[n].notional
  PROVE  NotionalOf(book, S) = NotionalOf(other, S)
<1>1. IntOn(Notionals(book), S) /\ \A n \in S : Notionals(book)[n] = Notionals(other)[n]
  BY DEF IntOn, NatBook, Notionals
<1>2. SetSum(Notionals(book), S) = SetSum(Notionals(other), S)
  BY <1>1, FiniteMarkets, SetSumSame
<1>3. QED
  BY <1>2, NotionalIsSum

\* One more market adds its notional.
LEMMA NotionalAdd ==
  ASSUME NEW book, NatBook(book), NEW S \in SUBSET Markets, NEW m \in Markets \ S
  PROVE  NotionalOf(book, S \cup {m}) = NotionalOf(book, S) + book[m].notional
<1>1. IntOn(Notionals(book), S) /\ Notionals(book)[m] \in Int
  BY DEF IntOn, NatBook, Notionals
<1>2. SetSum(Notionals(book), S \cup {m}) = SetSum(Notionals(book), S) + Notionals(book)[m]
  BY <1>1, FiniteMarkets, SetSumAdd
<1>3. NotionalOf(book, S \cup {m}) = SetSum(Notionals(book), S \cup {m})
  BY NotionalIsSum
<1>4. NotionalOf(book, S) = SetSum(Notionals(book), S)
  BY NotionalIsSum
<1>5. Notionals(book)[m] = book[m].notional
  BY DEF Notionals
<1>6. QED
  BY <1>2, <1>3, <1>4, <1>5

\* When the notional of one member changes, so does that of the set.
LEMMA NotionalPoint ==
  ASSUME NEW book, NatBook(book), NEW other, NatBook(other), NEW S \in SUBSET Markets, NEW m \in S,
         \A n \in S \ {m} : other[n].notional = book[n].notional
  PROVE  NotionalOf(other, S) = NotionalOf(book, S) + (other[m].notional - book[m].notional)
<1> DEFINE f == Notionals(book)
           g == Notionals(other)
<1>1. IntOn(f, S) /\ g[m] \in Int /\ \A n \in S \ {m} : g[n] = f[n]
  BY DEF IntOn, NatBook, Notionals
<1>2. f[m] = book[m].notional /\ g[m] = other[m].notional
  BY DEF Notionals
<1>3. NotionalOf(other, S) = SetSum(g, S) /\ NotionalOf(book, S) = SetSum(f, S)
  BY NotionalIsSum
<1>4. IsFiniteSet(S)
  BY FiniteMarkets
<1> HIDE DEF f, g
<1>5. SetSum(g, S) = SetSum(f, S) + (g[m] - f[m])
  BY <1>1, <1>4, SetSumPoint
<1>6. QED
  BY <1>2, <1>3, <1>5

\* Fewer markets have no larger notional.
LEMMA NotionalSubset ==
  ASSUME NEW book, NatBook(book), NEW S \in SUBSET Markets, NEW T \in SUBSET S
  PROVE  NotionalOf(book, T) <= NotionalOf(book, S)
<1>1. \A n \in S : Notionals(book)[n] \in Nat
  BY DEF NatBook, Notionals
<1>2. SetSum(Notionals(book), T) <= SetSum(Notionals(book), S)
  BY <1>1, FiniteMarkets, SetSumSubset
<1>3. NotionalOf(book, S) = SetSum(Notionals(book), S)
  BY NotionalIsSum
<1>4. NotionalOf(book, T) = SetSum(Notionals(book), T)
  <2>1. T \in SUBSET Markets
    OBVIOUS
  <2>2. QED
    BY <2>1, NotionalIsSum
<1>5. QED
  BY <1>2, <1>3, <1>4

\* Markets that are not open have no notional.
LEMMA NotionalZero ==
  ASSUME NEW book, NEW S \in SUBSET Markets, \A n \in S : book[n].notional = 0, NatBook(book)
  PROVE  NotionalOf(book, S) = 0
<1>1. \A n \in S : Notionals(book)[n] = 0
  BY DEF Notionals
<1>2. SetSum(Notionals(book), S) = 0
  BY <1>1, FiniteMarkets, SetSumZero
<1>3. QED
  BY <1>2, NotionalIsSum

-----------------------------------------------------------------------------
(* Caps *)

CapStep(c, i, g, labels) ==
  IF Regimes[i].id \in labels THEN (c * Regimes[i].scale[g.id]) \div 100 ELSE c

CapFunction(p, g, labels, n) ==
  p = [i \in 0..n |-> IF i = 0 THEN g.cap
                      ELSE IF Regimes[i].id \in labels
                           THEN (p[i - 1] * Regimes[i].scale[g.id]) \div 100
                      ELSE p[i - 1]]

LEMMA CapStepInt ==
  ASSUME NEW c \in Int, NEW i \in 1..Len(Regimes), NEW g \in Groups, NEW labels
  PROVE  CapStep(c, i, g, labels) \in Int
<1>1. i \in DOMAIN Regimes
  BY AllocatorAssumption
<1>2. Regimes[i].scale[g.id] \in Int
  BY <1>1, AllocatorAssumption
<1> DEFINE s == Regimes[i].scale[g.id]
<1> HIDE DEF s
<1>3. (c * s) \div 100 \in Int
  BY <1>2 DEF s
<1>4. QED
  BY <1>3 DEF CapStep, s

\* The caps a group passes through, regime after regime, exist.
LEMMA CapExists ==
  ASSUME NEW n \in 0..Len(Regimes), NEW g \in Groups, NEW labels
  PROVE  \E p \in [0..n -> Int] : CapFunction(p, g, labels, n)
<1>0. Len(Regimes) \in Nat
  BY AllocatorAssumption
<1> DEFINE Bad == {m \in 0..n : ~ \E p \in [0..m -> Int] : CapFunction(p, g, labels, m)}
<1>1. SUFFICES ASSUME Bad # {} PROVE FALSE
  BY <1>0
<1>2. PICK m \in Bad : \A k \in Bad : m <= k
  <2>1. Bad \in SUBSET Nat
    OBVIOUS
  <2>2. QED
    BY <1>1, <2>1, LeastNat
<1>3. m # 0
  <2>1. CapFunction([i \in 0..0 |-> g.cap], g, labels, 0)
    BY DEF CapFunction
  <2>2. [i \in 0..0 |-> g.cap] \in [0..0 -> Int]
    BY AllocatorAssumption
  <2>3. QED
    BY <2>1, <2>2
<1>4. m - 1 \in 0..n /\ m - 1 \notin Bad
  BY <1>2, <1>3
<1>5. PICK q \in [0..(m - 1) -> Int] : CapFunction(q, g, labels, m - 1)
  BY <1>4
<1> DEFINE r == [i \in 0..m |-> IF i = m THEN CapStep(q[m - 1], m, g, labels) ELSE q[i]]
<1>6. r \in [0..m -> Int]
  <2>1. q[m - 1] \in Int /\ m \in 1..Len(Regimes)
    BY <1>0, <1>3, <1>4
  <2>2. CapStep(q[m - 1], m, g, labels) \in Int
    BY <2>1, CapStepInt
  <2>3. QED
    BY <1>4, <2>2
<1>7. ASSUME NEW i \in 0..m
      PROVE  r[i] = IF i = 0 THEN g.cap ELSE CapStep(r[i - 1], i, g, labels)
  <2>1. CASE i = m
    <3>1. m - 1 \in 0..m /\ m - 1 # m
      BY <1>3
    <3>2. r[m - 1] = q[m - 1]
      BY <3>1
    <3>3. QED
      BY <2>1, <3>2, <1>3
  <2>2. CASE i # m
    <3>1. i \in 0..(m - 1)
      BY <2>2
    <3>2. q[i] = IF i = 0 THEN g.cap ELSE CapStep(q[i - 1], i, g, labels)
      BY <1>5, <3>1, Zenon DEF CapFunction, CapStep
    <3>3. i # 0 => r[i - 1] = q[i - 1]
      BY <3>1
    <3>4. r[i] = q[i]
      BY <2>2
    <3> HIDE DEF r
    <3>5. QED
      BY <3>2, <3>3, <3>4
  <2>3. QED
    BY <2>1, <2>2
<1>8. CapFunction(r, g, labels, m)
  BY <1>7, Zenon DEF CapFunction, CapStep
<1>9. QED
  BY <1>2, <1>6, <1>8

\* What every configuration in the repository has: a regime never loosens a cap.
ScalesTighten == \A i \in DOMAIN Regimes, g \in Groups : Regimes[i].scale[g.id] \in 0..100

\* A percentage of a cap is at most the cap.
LEMMA PercentOf ==
  ASSUME NEW c \in Nat, NEW s \in 0..100
  PROVE  (c * s) \div 100 \in 0..c
<1>1. c * s \in Nat /\ c * s <= c * 100
  OBVIOUS
<1>2. QED
  BY <1>1

\* All caps are integers, and none is above the configured one.
LEMMA CapRange ==
  ASSUME NEW g \in Groups, NEW labels, NEW q, CapFunction(q, g, labels, Len(Regimes)),
         NEW i \in 0..Len(Regimes)
  PROVE  q[i] \in Int /\ (ScalesTighten => q[i] \in 0..g.cap)
<1> DEFINE Good(c) == c \in Int /\ (ScalesTighten => c \in 0..g.cap)
           Bad == {j \in 0..Len(Regimes) : ~Good(q[j])}
<1>0. Len(Regimes) \in Nat /\ DOMAIN Regimes = 1..Len(Regimes) /\ g.cap \in Nat
  BY AllocatorAssumption
<1>1. SUFFICES ASSUME Bad # {} PROVE FALSE
  OBVIOUS
<1>2. PICK j \in Bad : \A k \in Bad : j <= k
  <2>1. Bad \in SUBSET Nat
    BY <1>0
  <2>2. QED
    BY <1>1, <2>1, LeastNat
<1>3. q[j] = IF j = 0 THEN g.cap ELSE CapStep(q[j - 1], j, g, labels)
  BY Zenon DEF CapFunction, CapStep
<1>4. j # 0
  BY <1>0, <1>2, <1>3
<1>5. j - 1 \in 0..Len(Regimes) /\ j - 1 \notin Bad /\ j \in 1..Len(Regimes)
  BY <1>0, <1>2, <1>4
<1>6. Good(q[j - 1])
  BY <1>5
<1> DEFINE c == q[j - 1]
<1> HIDE DEF c
<1>7. Good(CapStep(c, j, g, labels))
  <2>1. CapStep(c, j, g, labels) \in Int
    BY <1>5, <1>6, CapStepInt DEF c
  <2>2. ASSUME ScalesTighten PROVE CapStep(c, j, g, labels) \in 0..g.cap
    <3> DEFINE s == Regimes[j].scale[g.id]
    <3>1. s \in 0..100
      BY <1>0, <1>5, <2>2 DEF ScalesTighten
    <3>2. c \in 0..g.cap
      BY <1>6, <2>2 DEF c
    <3> HIDE DEF s
    <3>3. (c * s) \div 100 \in 0..c
      BY <1>0, <3>1, <3>2, PercentOf
    <3>4. CapStep(c, j, g, labels) \in {c, (c * s) \div 100}
      BY DEF CapStep, s
    <3>5. QED
      BY <1>0, <3>2, <3>3, <3>4
  <2>3. QED
    BY <2>1, <2>2
<1>8. Good(q[j])
  BY <1>3, <1>4, <1>7 DEF c
<1>9. QED
  BY <1>2, <1>8

\* A scaled cap is an integer; a tightening regime never raises it.
LEMMA ScaledCapRange ==
  ASSUME NEW g \in Groups, NEW labels
  PROVE  /\ ScaledCap(g, labels) \in Int
         /\ ScalesTighten => ScaledCap(g, labels) \in 0..g.cap
<1> DEFINE q == CHOOSE q : q = [i \in 0..Len(Regimes) |-> IF i = 0 THEN g.cap
                      ELSE IF Regimes[i].id \in labels
                           THEN (q[i - 1] * Regimes[i].scale[g.id]) \div 100
                      ELSE q[i - 1]]
<1>1. ScaledCap(g, labels) = q[Len(Regimes)]
  BY DEF ScaledCap
<1>2. Len(Regimes) \in 0..Len(Regimes)
  BY AllocatorAssumption
<1>3. \E p : CapFunction(p, g, labels, Len(Regimes))
  BY <1>2, CapExists
<1>4. CapFunction(q, g, labels, Len(Regimes))
  BY <1>3, Zenon DEF CapFunction
<1> HIDE DEF q
<1>5. QED
  BY <1>1, <1>2, <1>4, CapRange

-----------------------------------------------------------------------------
(* Rooms *)

\* A non-empty set of naturals has a minimum.
LEMMA MinIs ==
  ASSUME NEW S \in SUBSET Nat, S # {}
  PROVE  Min(S) \in S /\ \A y \in S : Min(S) <= y
<1>1. \E x \in S : \A y \in S : x <= y
  BY LeastNat
<1>2. QED
  BY <1>1 DEF Min

SoundExposures(x) ==
  /\ NatBook(x.book)
  /\ \A k \in Categories : x.category[k] \in Nat
  /\ x.total \in Nat

SoundCandidate(c) == c.market \in Markets /\ c.intended \in Nat

LEMMA GreaterThanZero ==
  ASSUME NEW a \in Int
  PROVE  /\ Greater(0, a) \in Nat
         /\ Greater(0, a) > 0 => Greater(0, a) = a
         /\ a <= Greater(0, a)
  BY DEF Greater

\* A market that may join a group finds fewer markets than the group may have, and
\* takes no more than what the scaled cap leaves.
LEMMA GroupRoomIs ==
  ASSUME NEW book, NatBook(book), NEW c, NEW g \in Groups
  PROVE  LET members == Members(book, c.market, g)
             labels  == c.labels \cup LabelsOf(book, members)
         IN  /\ GroupRoom(book, c, g) \in Nat
             /\ GroupRoom(book, c, g) > 0 =>
                  /\ Cardinality(members) < g.maxMarkets
                  /\ GroupRoom(book, c, g) = ScaledCap(g, labels) - NotionalOf(book, members)
<1> DEFINE members == Members(book, c.market, g)
           labels  == c.labels \cup LabelsOf(book, members)
           cap     == ScaledCap(g, labels)
           used    == NotionalOf(book, members)
<1>1. members \in SUBSET Markets
  BY DEF Members, OpenMarkets
<1>2. used \in Nat /\ Cardinality(members) \in Nat
  BY <1>1, NotionalNat, FiniteMarkets, FS_CardinalityType
<1>3. cap \in Int /\ g.maxMarkets \in Nat
  BY ScaledCapRange, AllocatorAssumption
<1>4. GroupRoom(book, c, g) = IF Cardinality(members) >= g.maxMarkets THEN 0
                              ELSE Greater(0, cap - used)
  BY DEF GroupRoom
<1> HIDE DEF members, labels, cap, used
<1>5. cap - used \in Int
  BY <1>2, <1>3
<1>6. /\ Greater(0, cap - used) \in Nat
      /\ Greater(0, cap - used) > 0 => Greater(0, cap - used) = cap - used
  BY <1>5, GreaterThanZero
<1>7. /\ GroupRoom(book, c, g) \in Nat
      /\ GroupRoom(book, c, g) > 0 => /\ Cardinality(members) < g.maxMarkets
                                      /\ GroupRoom(book, c, g) = cap - used
  BY <1>2, <1>3, <1>4, <1>6
<1>8. QED
  BY <1>7 DEF members, labels, cap, used

\* What correlated markets already hold and the new order stay together within the
\* correlated cap; without any, the order may be as large as intended.
LEMMA CorrelatedRoomIs ==
  ASSUME NEW book, NatBook(book), NEW c, SoundCandidate(c)
  PROVE  LET used == NotionalOf(book, {n \in OpenMarkets(book) : Correlated(c.market, n)})
         IN  /\ CorrelatedRoom(book, c) \in Nat
             /\ used \in Nat
             /\ CorrelatedRoom(book, c) > 0 /\ used > 0 =>
                  CorrelatedRoom(book, c) + used = MaxCorrelatedExposure
<1> DEFINE used == NotionalOf(book, {n \in OpenMarkets(book) : Correlated(c.market, n)})
<1>1. {n \in OpenMarkets(book) : Correlated(c.market, n)} \in SUBSET Markets
  BY DEF OpenMarkets
<1>2. used \in Nat
  BY <1>1, NotionalNat
<1>3. CorrelatedRoom(book, c) = IF used = 0 THEN c.intended
                                ELSE Greater(0, MaxCorrelatedExposure - used)
  BY DEF CorrelatedRoom
<1>4. MaxCorrelatedExposure \in Nat /\ c.intended \in Nat
  BY LimitsAssumption DEF SoundCandidate
<1> HIDE DEF used
<1>5. MaxCorrelatedExposure - used \in Int
  BY <1>2, <1>4
<1>6. /\ Greater(0, MaxCorrelatedExposure - used) \in Nat
      /\ Greater(0, MaxCorrelatedExposure - used) > 0 =>
           Greater(0, MaxCorrelatedExposure - used) = MaxCorrelatedExposure - used
  BY <1>5, GreaterThanZero
<1>7. /\ CorrelatedRoom(book, c) \in Nat
      /\ used \in Nat
      /\ CorrelatedRoom(book, c) > 0 /\ used > 0 =>
           CorrelatedRoom(book, c) + used = MaxCorrelatedExposure
  BY <1>2, <1>3, <1>4, <1>6
<1>8. QED
  BY <1>7 DEF used

\* The room is the least of all rooms.
LEMMA RoomIs ==
  ASSUME NEW x, SoundExposures(x), NEW c, SoundCandidate(c)
  PROVE  /\ Room(x, c) \in Nat
         /\ Room(x, c) <= c.intended
         /\ Room(x, c) > 0 =>
              /\ ~Concentrated(x, c.market)
              /\ Room(x, c) <= MaxOrderNotional
              /\ x.category[Category[c.market]] + Room(x, c) <= MaxCategoryExposure
              /\ x.total + Room(x, c) <= MaxTotalExposure
              /\ Room(x, c) <= CorrelatedRoom(x.book, c)
              /\ \A g \in Groups : Joins(c.market, g) => Room(x, c) <= GroupRoom(x.book, c, g)
<1> DEFINE category == x.category[Category[c.market]]
           byCategory == Greater(0, MaxCategoryExposure - category)
           byTotal == Greater(0, MaxTotalExposure - x.total)
           correlated == CorrelatedRoom(x.book, c)
           groups == {GroupRoom(x.book, c, g) : g \in {h \in Groups : Joins(c.market, h)}}
           rooms == {c.intended, MaxOrderNotional, byCategory, byTotal, correlated} \cup groups
<1>1. c.intended \in Nat /\ MaxOrderNotional \in Nat
  BY LimitsAssumption DEF SoundCandidate
<1>2. category \in Nat /\ x.total \in Nat /\ MaxCategoryExposure \in Nat /\ MaxTotalExposure \in Nat
  BY LimitsAssumption DEF SoundExposures, SoundCandidate, Categories
<1>3. /\ byCategory \in Nat
      /\ byCategory > 0 => byCategory = MaxCategoryExposure - category
  <2> HIDE DEF category
  <2>1. MaxCategoryExposure - category \in Int
    BY <1>2
  <2>2. QED
    BY <2>1, GreaterThanZero
<1>4. /\ byTotal \in Nat
      /\ byTotal > 0 => byTotal = MaxTotalExposure - x.total
  <2>1. MaxTotalExposure - x.total \in Int
    BY <1>2
  <2>2. QED
    BY <2>1, GreaterThanZero
<1>5. correlated \in Nat
  BY CorrelatedRoomIs DEF SoundExposures
<1>6. groups \in SUBSET Nat
  BY GroupRoomIs DEF SoundExposures
<1>7. Room(x, c) = IF Concentrated(x, c.market) THEN 0 ELSE Min(rooms)
  BY Zenon DEF Room
<1>8. \A g \in Groups : Joins(c.market, g) => GroupRoom(x.book, c, g) \in groups
  OBVIOUS
<1> HIDE DEF category, byCategory, byTotal, correlated, groups
<1>9. rooms \in SUBSET Nat /\ rooms # {}
  BY <1>1, <1>3, <1>4, <1>5, <1>6
<1>10. Min(rooms) \in Nat /\ \A y \in rooms : Min(rooms) <= y
  BY <1>9, MinIs
<1>11. /\ c.intended \in rooms /\ MaxOrderNotional \in rooms /\ byCategory \in rooms
       /\ byTotal \in rooms /\ correlated \in rooms /\ groups \subseteq rooms
  OBVIOUS
<1> DEFINE r == Min(rooms)
<1>12. /\ r \in Nat /\ r <= c.intended /\ r <= MaxOrderNotional /\ r <= byCategory
       /\ r <= byTotal /\ r <= correlated
       /\ \A g \in Groups : Joins(c.market, g) => r <= GroupRoom(x.book, c, g)
  BY <1>8, <1>10, <1>11
<1> HIDE DEF r, rooms
<1>13. r > 0 => category + r <= MaxCategoryExposure /\ x.total + r <= MaxTotalExposure
  BY <1>2, <1>3, <1>4, <1>12
<1>14. CASE Concentrated(x, c.market)
  <2>1. Room(x, c) = 0
    BY <1>7, <1>14
  <2>2. QED
    BY <1>1, <2>1
<1>15. CASE ~Concentrated(x, c.market)
  <2>1. Room(x, c) = r
    BY <1>7, <1>15 DEF r
  <2>2. QED
    BY <1>12, <1>13, <1>15, <2>1 DEF category, correlated
<1>16. QED
  BY <1>14, <1>15

\* What is placed is the whole room, or nothing when the room is not worth an order.
LEMMA PlaceIs ==
  ASSUME NEW x, SoundExposures(x), NEW c, SoundCandidate(c)
  PROVE  /\ Place(x, c) \in Nat
         /\ Place(x, c) <= c.intended
         /\ Place(x, c) > 0 => /\ Place(x, c) = Room(x, c)
                               /\ Place(x, c) * 100 >= c.intended * MinAllocatePct
<1>1. Room(x, c) \in Nat /\ Room(x, c) <= c.intended
  BY RoomIs
<1>2. c.intended \in Nat /\ MinAllocatePct \in Nat
  BY AllocatorAssumption DEF SoundCandidate
<1>3. c.intended * MinAllocatePct \in Nat /\ Room(x, c) * 100 \in Nat
  BY <1>1, <1>2
<1> DEFINE worth == c.intended * MinAllocatePct
<1>4. Place(x, c) = IF Room(x, c) * 100 < worth THEN 0 ELSE Room(x, c)
  BY DEF Place
<1> HIDE DEF worth
<1>5. worth \in Nat
  BY <1>3 DEF worth
<1>6. QED
  BY <1>1, <1>2, <1>4, <1>5 DEF worth

-----------------------------------------------------------------------------
(* Reservations *)

ExposureSet(L) ==
  [book : [Markets -> [notional : Nat, labels : SUBSET L]], category : [Categories -> Nat],
   total : Nat, concurrent : SUBSET Markets]

LEMMA ExposureSetSound ==
  ASSUME NEW L, NEW x \in ExposureSet(L)
  PROVE  SoundExposures(x)
  BY DEF ExposureSet, SoundExposures, NatBook

\* A reservation adds its notional to the market, its category and the total, and
\* counts the market; nothing else moves.
LEMMA ReserveIs ==
  ASSUME NEW L, NEW x \in ExposureSet(L), NEW c, c.market \in Markets, c.labels \in SUBSET L,
         NEW k \in Nat \ {0}, NEW y, y = Reserve(x, c, k)
  PROVE  /\ y \in ExposureSet(L)
         /\ y.book[c.market].notional = x.book[c.market].notional + k
         /\ y.book[c.market].labels = x.book[c.market].labels \cup c.labels
         /\ \A n \in Markets \ {c.market} : y.book[n] = x.book[n]
         /\ y.category[Category[c.market]] = x.category[Category[c.market]] + k
         /\ \A g \in Categories \ {Category[c.market]} : y.category[g] = x.category[g]
         /\ y.total = x.total + k
         /\ y.concurrent = x.concurrent \cup {c.market}
<1> DEFINE m == c.market
           g == Category[m]
           entry == [notional |-> x.book[m].notional + k, labels |-> x.book[m].labels \cup c.labels]
<1>1. m \in Markets /\ g \in Categories
  BY DEF Categories
<1>2. /\ x.book \in [Markets -> [notional : Nat, labels : SUBSET L]]
      /\ x.category \in [Categories -> Nat] /\ x.total \in Nat /\ x.concurrent \in SUBSET Markets
  BY DEF ExposureSet
<1>3. entry \in [notional : Nat, labels : SUBSET L]
  BY <1>1, <1>2
<1>4. y = [book |-> [x.book EXCEPT ![m] = entry],
           category |-> [x.category EXCEPT ![g] = @ + k],
           total |-> x.total + k,
           concurrent |-> x.concurrent \cup {m}]
  BY DEF Reserve, ExposureSet
<1>5. entry.notional = x.book[m].notional + k /\ entry.labels = x.book[m].labels \cup c.labels
  OBVIOUS
<1> HIDE DEF entry, m, g
<1>6. /\ y.book = [x.book EXCEPT ![m] = entry] /\ y.category = [x.category EXCEPT ![g] = @ + k]
      /\ y.total = x.total + k /\ y.concurrent = x.concurrent \cup {m}
  BY <1>4
<1>7. /\ y.book \in [Markets -> [notional : Nat, labels : SUBSET L]]
      /\ y.book[m] = entry
      /\ \A n \in Markets \ {m} : y.book[n] = x.book[n]
  BY <1>1, <1>2, <1>3, <1>6
<1>8. /\ y.category \in [Categories -> Nat]
      /\ y.category[g] = x.category[g] + k
      /\ \A h \in Categories \ {g} : y.category[h] = x.category[h]
  BY <1>1, <1>2, <1>6
<1>9. y.total \in Nat /\ y.concurrent \in SUBSET Markets
  BY <1>1, <1>2, <1>6
<1>10. y = [book |-> y.book, category |-> y.category, total |-> y.total, concurrent |-> y.concurrent]
  BY <1>4
<1>11. y \in ExposureSet(L)
  BY <1>7, <1>8, <1>9, <1>10 DEF ExposureSet
<1>12. QED
  BY <1>5, <1>6, <1>7, <1>8, <1>11 DEF m, g

LEMMA ReserveNothing ==
  ASSUME NEW x, NEW c
  PROVE  Reserve(x, c, 0) = x
  BY DEF Reserve

\* The exposures a call passes through.
RankedCandidates(ranked, L) ==
  /\ Len(ranked) \in Nat /\ DOMAIN ranked = 1..Len(ranked)
  /\ \A i \in 1..Len(ranked) : SoundCandidate(ranked[i]) /\ ranked[i].labels \in SUBSET L

SeenFunction(p, x, ranked, n) ==
  p = [i \in 0..n |-> IF i = 0 THEN x
                      ELSE Reserve(p[i - 1], ranked[i], Place(p[i - 1], ranked[i]))]

\* One turn of the loop leaves well-formed exposures.
LEMMA TurnSound ==
  ASSUME NEW L, NEW x \in ExposureSet(L), NEW c, SoundCandidate(c), c.labels \in SUBSET L
  PROVE  /\ Place(x, c) \in Nat
         /\ Reserve(x, c, Place(x, c)) \in ExposureSet(L)
<1>1. Place(x, c) \in Nat
  BY ExposureSetSound, PlaceIs
<1>2. CASE Place(x, c) = 0
  BY <1>2, ReserveNothing
<1>3. CASE Place(x, c) # 0
  <2>1. Place(x, c) \in Nat \ {0} /\ c.market \in Markets
    BY <1>1, <1>3 DEF SoundCandidate
  <2>2. QED
    BY <1>1, <2>1, ReserveIs
<1>4. QED
  BY <1>2, <1>3

LEMMA SeenExists ==
  ASSUME NEW L, NEW x \in ExposureSet(L), NEW ranked, RankedCandidates(ranked, L),
         NEW n \in 0..Len(ranked)
  PROVE  \E p \in [0..n -> ExposureSet(L)] : SeenFunction(p, x, ranked, n)
<1>0. Len(ranked) \in Nat
  BY DEF RankedCandidates
<1> DEFINE Bad == {m \in 0..n : ~ \E p \in [0..m -> ExposureSet(L)] : SeenFunction(p, x, ranked, m)}
<1>1. SUFFICES ASSUME Bad # {} PROVE FALSE
  BY <1>0
<1>2. PICK m \in Bad : \A k \in Bad : m <= k
  <2>1. Bad \in SUBSET Nat
    OBVIOUS
  <2>2. QED
    BY <1>1, <2>1, LeastNat
<1>3. m # 0
  <2>1. SeenFunction([i \in 0..0 |-> x], x, ranked, 0)
    BY DEF SeenFunction
  <2>2. [i \in 0..0 |-> x] \in [0..0 -> ExposureSet(L)]
    OBVIOUS
  <2>3. QED
    BY <2>1, <2>2
<1>4. m - 1 \in 0..n /\ m - 1 \notin Bad
  BY <1>2, <1>3
<1>5. PICK q \in [0..(m - 1) -> ExposureSet(L)] : SeenFunction(q, x, ranked, m - 1)
  BY <1>4
<1> DEFINE last == Reserve(q[m - 1], ranked[m], Place(q[m - 1], ranked[m]))
           r == [i \in 0..m |-> IF i = m THEN last ELSE q[i]]
<1>6. last \in ExposureSet(L)
  <2>1. q[m - 1] \in ExposureSet(L) /\ m \in 1..Len(ranked)
    BY <1>0, <1>3, <1>4
  <2>2. SoundCandidate(ranked[m]) /\ ranked[m].labels \in SUBSET L
    BY <2>1 DEF RankedCandidates
  <2>3. QED
    BY <2>1, <2>2, TurnSound
<1>7. ASSUME NEW i \in 0..m
      PROVE  r[i] = IF i = 0 THEN x ELSE Reserve(r[i - 1], ranked[i], Place(r[i - 1], ranked[i]))
  <2>1. CASE i = m
    <3>1. m - 1 \in 0..m /\ m - 1 # m
      BY <1>3
    <3>2. r[m - 1] = q[m - 1]
      BY <3>1
    <3>3. r[m] = last
      BY <1>3
    <3> HIDE DEF r
    <3>4. QED
      BY <2>1, <3>2, <3>3, <1>3, Zenon
  <2>2. CASE i # m
    <3>1. i \in 0..(m - 1)
      BY <2>2
    <3>2. q[i] = IF i = 0 THEN x ELSE Reserve(q[i - 1], ranked[i], Place(q[i - 1], ranked[i]))
      BY <1>5, <3>1, Zenon DEF SeenFunction
    <3>3. i # 0 => r[i - 1] = q[i - 1]
      BY <3>1
    <3>4. r[i] = q[i]
      BY <2>2
    <3> HIDE DEF r
    <3>5. QED
      BY <3>2, <3>3, <3>4, Zenon
  <2>3. QED
    BY <2>1, <2>2
<1>8. r \in [0..m -> ExposureSet(L)]
  BY <1>4, <1>6
<1>9. SeenFunction(r, x, ranked, m)
  BY <1>7, Zenon DEF SeenFunction
<1>10. QED
  BY <1>2, <1>8, <1>9

LEMMA SeenSound ==
  ASSUME NEW L, NEW x \in ExposureSet(L), NEW ranked, RankedCandidates(ranked, L),
         NEW q, SeenFunction(q, x, ranked, Len(ranked)), NEW i \in 0..Len(ranked)
  PROVE  q[i] \in ExposureSet(L)
<1>0. Len(ranked) \in Nat
  BY DEF RankedCandidates
<1> DEFINE Bad == {j \in 0..Len(ranked) : q[j] \notin ExposureSet(L)}
<1>1. SUFFICES ASSUME Bad # {} PROVE FALSE
  OBVIOUS
<1>2. PICK j \in Bad : \A k \in Bad : j <= k
  <2>1. Bad \in SUBSET Nat
    BY <1>0
  <2>2. QED
    BY <1>1, <2>1, LeastNat
<1>3. q[j] = IF j = 0 THEN x ELSE Reserve(q[j - 1], ranked[j], Place(q[j - 1], ranked[j]))
  BY Zenon DEF SeenFunction
<1>4. j # 0
  BY <1>2, <1>3
<1>5. j - 1 \in 0..Len(ranked) /\ j - 1 \notin Bad /\ j \in 1..Len(ranked)
  BY <1>0, <1>2, <1>4
<1>6. q[j - 1] \in ExposureSet(L)
  BY <1>5
<1>7. SoundCandidate(ranked[j]) /\ ranked[j].labels \in SUBSET L
  BY <1>5 DEF RankedCandidates
<1>8. Reserve(q[j - 1], ranked[j], Place(q[j - 1], ranked[j])) \in ExposureSet(L)
  BY <1>6, <1>7, TurnSound
<1>9. QED
  BY <1>2, <1>3, <1>4, <1>8

\* A call allocates a natural notional to every candidate, never more than it intended.
LEMMA AllocateAllIs ==
  ASSUME NEW L, NEW x \in ExposureSet(L), NEW ranked, RankedCandidates(ranked, L),
         NEW i \in 1..Len(ranked)
  PROVE  /\ AllocateAll(x, ranked)[i] \in Nat
         /\ AllocateAll(x, ranked)[i] <= ranked[i].intended
<1> DEFINE q == CHOOSE q : q = [j \in 0..Len(ranked) |-> IF j = 0 THEN x
                      ELSE Reserve(q[j - 1], ranked[j], Place(q[j - 1], ranked[j]))]
<1>0. Len(ranked) \in Nat /\ DOMAIN ranked = 1..Len(ranked)
  BY DEF RankedCandidates
<1>1. AllocateAll(x, ranked) = [j \in DOMAIN ranked |-> Place(q[j - 1], ranked[j])]
  BY DEF AllocateAll
<1>2. \E p : SeenFunction(p, x, ranked, Len(ranked))
  <2>1. Len(ranked) \in 0..Len(ranked)
    BY <1>0
  <2>2. QED
    BY <2>1, SeenExists
<1>3. SeenFunction(q, x, ranked, Len(ranked))
  BY <1>2, Zenon DEF SeenFunction
<1> HIDE DEF q
<1>4. i - 1 \in 0..Len(ranked) /\ i \in DOMAIN ranked
  BY <1>0
<1>5. q[i - 1] \in ExposureSet(L)
  BY <1>3, <1>4, SeenSound
<1>6. SoundCandidate(ranked[i])
  BY DEF RankedCandidates
<1>7. Place(q[i - 1], ranked[i]) \in Nat /\ Place(q[i - 1], ranked[i]) <= ranked[i].intended
  BY <1>5, <1>6, ExposureSetSound, PlaceIs
<1>8. QED
  BY <1>1, <1>4, <1>7


=============================================================================
