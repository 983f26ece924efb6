---------------------------- MODULE OutputsProofs ----------------------------
(***************************************************************************)
(* What a reader finds in the tables of Outputs, for any tokens, prices,   *)
(* orders and process starts, with a crash between any two commits.  The   *)
(* inductive invariant says, for every effect an operation still owes,     *)
(* what its absence from the tables looks like meanwhile.                  *)
(***************************************************************************)
EXTENDS Outputs, RulesProofs

-----------------------------------------------------------------------------
(* Selecting rows of a table *)

SelectFunction(f, rows, places, n) ==
    f = [k \in 0..n |-> IF k = 0 THEN <<>>
                        ELSE IF k \in places THEN Append(f[k - 1], rows[k]) ELSE f[k - 1]]

\* The recursion of Select has a solution.
LEMMA SelectExists ==
  ASSUME NEW n \in Nat, NEW rows, NEW places
  PROVE  \E f : SelectFunction(f, rows, places, n)
<1> DEFINE Bad == {m \in 0..n : ~ \E f : SelectFunction(f, rows, places, m)}
<1>1. SUFFICES ASSUME Bad # {} PROVE FALSE
  OBVIOUS
<1>2. PICK m \in Bad : \A k \in Bad : m <= k
  <2>1. Bad \in SUBSET Nat
    OBVIOUS
  <2>2. QED
    BY <1>1, <2>1, LeastNat
<1>3. m # 0
  <2>1. SelectFunction([i \in 0..0 |-> <<>>], rows, places, 0)
    BY DEF SelectFunction
  <2>2. QED
    BY <2>1
<1>4. m - 1 \in 0..n /\ m - 1 \notin Bad
  BY <1>2, <1>3
<1>5. PICK q : SelectFunction(q, rows, places, m - 1)
  BY <1>4
<1> DEFINE last == IF m \in places THEN Append(q[m - 1], rows[m]) ELSE q[m - 1]
           r == [i \in 0..m |-> IF i = m THEN last ELSE q[i]]
<1>6. ASSUME NEW i \in 0..m
      PROVE  r[i] = IF i = 0 THEN <<>>
                    ELSE IF i \in places THEN Append(r[i - 1], rows[i]) ELSE r[i - 1]
  <2>1. CASE i = m
    <3>1. m - 1 \in 0..m /\ m - 1 # m
      BY <1>3
    <3>2. r[m - 1] = q[m - 1]
      BY <3>1
    <3>3. QED
      BY <2>1, <3>2, <1>3
  <2>2. CASE i # m
    <3>1. i \in 0..(m - 1)
      BY <2>2
    <3>2. q[i] = IF i = 0 THEN <<>>
                 ELSE IF i \in places THEN Append(q[i - 1], rows[i]) ELSE q[i - 1]
      BY <1>5, <3>1 DEF SelectFunction
    <3>3. i # 0 => r[i - 1] = q[i - 1]
      BY <3>1
    <3>4. QED
      BY <2>2, <3>2, <3>3
  <2>3. QED
    BY <2>1, <2>2
<1>7. SelectFunction(r, rows, places, m)
  BY <1>6, Zenon DEF SelectFunction
<1>8. QED
  BY <1>2, <1>7

\* What Select returns is the value of that solution at the last row.
LEMMA SelectIs ==
  ASSUME NEW rows, NEW places, Len(rows) \in Nat
  PROVE  \E f : /\ SelectFunction(f, rows, places, Len(rows))
                /\ Select(rows, places) = f[Len(rows)]
<1> DEFINE f == CHOOSE f : f = [k \in 0..Len(rows) |-> IF k = 0 THEN <<>>
                         ELSE IF k \in places THEN Append(f[k - 1], rows[k]) ELSE f[k - 1]]
<1>1. Select(rows, places) = f[Len(rows)]
  BY DEF Select
<1>2. SelectFunction(f, rows, places, Len(rows))
  <2>1. \E g : SelectFunction(g, rows, places, Len(rows))
    BY SelectExists
  <2>2. QED
    BY <2>1, Zenon DEF SelectFunction
<1> HIDE DEF f
<1>3. QED
  BY <1>1, <1>2

\* A value of the solution.
LEMMA SelectStep ==
  ASSUME NEW f, NEW rows, NEW places, NEW n \in Nat, SelectFunction(f, rows, places, n)
  PROVE  /\ f[0] = <<>>
         /\ \A k \in 1..n : f[k] = IF k \in places THEN Append(f[k - 1], rows[k]) ELSE f[k - 1]
<1>1. \A k \in 0..n : f[k] = IF k = 0 THEN <<>>
                      ELSE IF k \in places THEN Append(f[k - 1], rows[k]) ELSE f[k - 1]
  BY Zenon DEF SelectFunction
<1>2. QED
  BY <1>1

\* Two selections that agree on the first rows agree in what they return of them.
LEMMA SelectAgrees ==
  ASSUME NEW n \in Nat, NEW m \in Nat, n <= m, NEW rows, NEW more, NEW places, NEW others,
         NEW f, NEW g, SelectFunction(f, rows, places, n), SelectFunction(g, more, others, m),
         \A i \in 1..n : rows[i] = more[i] /\ (i \in places <=> i \in others)
  PROVE  f[n] = g[n]
<1> DEFINE Bad == {i \in 0..n : f[i] # g[i]}
<1>1. SUFFICES ASSUME Bad # {} PROVE FALSE
  OBVIOUS
<1>2. PICK i \in Bad : \A k \in Bad : i <= k
  <2>1. Bad \in SUBSET Nat
    OBVIOUS
  <2>2. QED
    BY <1>1, <2>1, LeastNat
<1>3. /\ f[0] = <<>> /\ g[0] = <<>>
      /\ \A k \in 1..n : f[k] = IF k \in places THEN Append(f[k - 1], rows[k]) ELSE f[k - 1]
      /\ \A k \in 1..m : g[k] = IF k \in others THEN Append(g[k - 1], more[k]) ELSE g[k - 1]
  BY SelectStep
<1>4. i # 0
  BY <1>2, <1>3
<1>5. i - 1 \in 0..n /\ i - 1 \notin Bad /\ i \in 1..n /\ i \in 1..m
  BY <1>2, <1>4
<1>6. f[i - 1] = g[i - 1]
  BY <1>5
<1>7. f[i] = g[i]
  BY <1>3, <1>5, <1>6
<1>8. QED
  BY <1>2, <1>7

\* Nothing is selected from an empty table.
LEMMA SelectEmpty ==
  ASSUME NEW rows, rows = <<>>, NEW places
  PROVE  Select(rows, places) = <<>>
<1>1. Len(rows) = 0
  OBVIOUS
<1>2. PICK f : SelectFunction(f, rows, places, 0) /\ Select(rows, places) = f[0]
  BY <1>1, SelectIs
<1>3. QED
  BY <1>2, SelectStep

\* A row written last is selected last, if its place is one of those asked for.
LEMMA SelectAppend ==
  ASSUME NEW S, NEW rows \in Seq(S), NEW row, NEW places, NEW others,
         \A i \in 1..Len(rows) : i \in places <=> i \in others
  PROVE  Select(Append(rows, row), others)
           = IF Len(rows) + 1 \in others THEN Append(Select(rows, places), row) ELSE Select(rows, places)
<1> DEFINE n == Len(rows)
           more == Append(rows, row)
<1>1. n \in Nat /\ Len(more) = n + 1 /\ more[n + 1] = row /\ \A i \in 1..n : more[i] = rows[i]
  OBVIOUS
<1>2. PICK f : SelectFunction(f, rows, places, n) /\ Select(rows, places) = f[n]
  BY <1>1, SelectIs
<1>3. PICK g : SelectFunction(g, more, others, n + 1) /\ Select(more, others) = g[n + 1]
  <2>1. Len(more) \in Nat
    BY <1>1
  <2> HIDE DEF more
  <2>2. QED
    BY <1>1, <2>1, SelectIs
<1> HIDE DEF n, more
<1>4. f[n] = g[n]
  BY <1>1, <1>2, <1>3, SelectAgrees DEF n
<1>5. g[n + 1] = IF n + 1 \in others THEN Append(g[n], more[n + 1]) ELSE g[n]
  <2>1. n + 1 \in 1..(n + 1) /\ n + 1 \in Nat /\ (n + 1) - 1 = n
    BY <1>1
  <2>2. \A k \in 1..(n + 1) : g[k] = IF k \in others THEN Append(g[k - 1], more[k]) ELSE g[k - 1]
    BY <1>3, <2>1, SelectStep
  <2>3. QED
    BY <2>1, <2>2
<1>6. QED
  BY <1>1, <1>2, <1>3, <1>4, <1>5 DEF n, more

\* What is selected has the type of the rows.
LEMMA SelectType ==
  ASSUME NEW S, NEW rows \in Seq(S), NEW places
  PROVE  Select(rows, places) \in Seq(S)
<1> DEFINE n == Len(rows)
<1>1. n \in Nat /\ \A i \in 1..n : rows[i] \in S
  OBVIOUS
<1>2. PICK f : SelectFunction(f, rows, places, n) /\ Select(rows, places) = f[n]
  BY <1>1, SelectIs
<1> DEFINE Bad == {i \in 0..n : f[i] \notin Seq(S)}
<1>3. SUFFICES ASSUME Bad # {} PROVE FALSE
  BY <1>1, <1>2
<1> HIDE DEF n
<1>4. PICK i \in Bad : \A k \in Bad : i <= k
  <2>1. Bad \in SUBSET Nat
    BY <1>1
  <2>2. QED
    BY <1>3, <2>1, LeastNat
<1>5. /\ f[0] = <<>>
      /\ \A k \in 1..n : f[k] = IF k \in places THEN Append(f[k - 1], rows[k]) ELSE f[k - 1]
  BY <1>1, <1>2, SelectStep
<1>6. i # 0
  <2>1. <<>> \in Seq(S)
    OBVIOUS
  <2>2. QED
    BY <1>4, <1>5, <2>1
<1>7. i - 1 \in 0..n /\ i - 1 \notin Bad /\ i \in 1..n
  BY <1>1, <1>4, <1>6
<1>8. f[i - 1] \in Seq(S) /\ rows[i] \in S
  BY <1>1, <1>7
<1>9. f[i] \in Seq(S)
  <2>1. Append(f[i - 1], rows[i]) \in Seq(S)
    BY <1>8
  <2>2. f[i] = Append(f[i - 1], rows[i]) \/ f[i] = f[i - 1]
    BY <1>5, <1>7
  <2>3. QED
    BY <1>8, <2>1, <2>2
<1>10. QED
  BY <1>4, <1>9

\* A selection of no place is empty.
LEMMA SelectNone ==
  ASSUME NEW S, NEW rows \in Seq(S), NEW places, \A i \in 1..Len(rows) : i \notin places
  PROVE  Select(rows, places) = <<>>
<1> DEFINE n == Len(rows)
<1>1. n \in Nat
  OBVIOUS
<1>2. PICK f : SelectFunction(f, rows, places, n) /\ Select(rows, places) = f[n]
  BY <1>1, SelectIs
<1> DEFINE Bad == {i \in 0..n : f[i] # <<>>}
<1>3. SUFFICES ASSUME Bad # {} PROVE FALSE
  BY <1>1, <1>2
<1>0. \A i \in 1..n : i \notin places
  OBVIOUS
<1> HIDE DEF n
<1>4. PICK i \in Bad : \A k \in Bad : i <= k
  <2>1. Bad \in SUBSET Nat
    BY <1>1
  <2>2. QED
    BY <1>3, <2>1, LeastNat
<1>5. /\ f[0] = <<>>
      /\ \A k \in 1..n : f[k] = IF k \in places THEN Append(f[k - 1], rows[k]) ELSE f[k - 1]
  BY <1>1, <1>2, SelectStep
<1>6. i # 0
  BY <1>4, <1>5
<1>7. i - 1 \in 0..n /\ i - 1 \notin Bad /\ i \in 1..n
  BY <1>1, <1>4, <1>6
<1>8. f[i] = <<>>
  BY <1>0, <1>5, <1>7
<1>9. QED
  BY <1>4, <1>8

\* A selection of every place is the table.
LEMMA SelectAll ==
  ASSUME NEW S, NEW rows \in Seq(S), NEW places, \A i \in 1..Len(rows) : i \in places
  PROVE  Select(rows, places) = rows
<1> DEFINE n == Len(rows)
<1>1. n \in Nat /\ rows = SubSeq(rows, 1, n) /\ \A i \in 1..n : rows[i] \in S
  OBVIOUS
<1>2. PICK f : SelectFunction(f, rows, places, n) /\ Select(rows, places) = f[n]
  BY <1>1, SelectIs
<1> DEFINE Same(i) == /\ f[i] \in Seq(S) /\ Len(f[i]) = i
                      /\ \A j \in 1..i : f[i][j] = rows[j]
           Bad == {i \in 0..n : ~Same(i)}
<1>3. ASSUME Bad # {} PROVE FALSE
  <2>0. \A i \in 1..n : i \in places
    OBVIOUS
  <2> HIDE DEF n
  <2>4. PICK i \in Bad : \A k \in Bad : i <= k
    <3>1. Bad \in SUBSET Nat
      BY <1>1
    <3>2. QED
      BY <1>3, <3>1, LeastNat
  <2>5. /\ f[0] = <<>>
        /\ \A k \in 1..n : f[k] = IF k \in places THEN Append(f[k - 1], rows[k]) ELSE f[k - 1]
    BY <1>1, <1>2, SelectStep
  <2>6. i # 0
    <3>1. <<>> \in Seq(S) /\ Len(<<>>) = 0
      OBVIOUS
    <3>2. Same(0)
      BY <2>5, <3>1
    <3>3. QED
      BY <2>4, <3>2
  <2>7. i - 1 \in 0..n /\ i - 1 \notin Bad /\ i \in 1..n
    BY <1>1, <2>4, <2>6
  <2>8. Same(i - 1)
    BY <2>7
  <2>9. f[i] = Append(f[i - 1], rows[i]) /\ rows[i] \in S
    BY <1>1, <2>0, <2>5, <2>7
  <2>10. Same(i)
    BY <2>7, <2>8, <2>9
  <2>11. QED
    BY <2>4, <2>10
<1>4. n \in 0..n /\ n \notin Bad
  BY <1>1, <1>3
<1>5. Same(n)
  BY <1>4
<1>6. QED
  BY <1>2, <1>5

-----------------------------------------------------------------------------
(* Replaying rows *)

Booked(l, row) == ApplyFill(l, row.token, row.side, row.size, row.price, 0)

ReplayFunction(b, rows, n) ==
    b = [k \in 0..n |-> IF k = 0 THEN FreshLedger ELSE Booked(b[k - 1], rows[k])]

\* The recursion of ReplayedTo has a solution.
LEMMA ReplayExists ==
  ASSUME NEW n \in Nat, NEW rows
  PROVE  \E b : ReplayFunction(b, rows, n)
<1> DEFINE Bad == {m \in 0..n : ~ \E b : ReplayFunction(b, rows, m)}
<1>1. SUFFICES ASSUME Bad # {} PROVE FALSE
  OBVIOUS
<1>2. PICK m \in Bad : \A k \in Bad : m <= k
  <2>1. Bad \in SUBSET Nat
    OBVIOUS
  <2>2. QED
    BY <1>1, <2>1, LeastNat
<1>3. m # 0
  <2>1. ReplayFunction([i \in 0..0 |-> FreshLedger], rows, 0)
    BY DEF ReplayFunction
  <2>2. QED
    BY <2>1
<1>4. m - 1 \in 0..n /\ m - 1 \notin Bad
  BY <1>2, <1>3
<1>5. PICK q : ReplayFunction(q, rows, m - 1)
  BY <1>4
<1> DEFINE r == [i \in 0..m |-> IF i = m THEN Booked(q[m - 1], rows[m]) ELSE q[i]]
<1>6. ASSUME NEW i \in 0..m
      PROVE  r[i] = IF i = 0 THEN FreshLedger ELSE Booked(r[i - 1], rows[i])
  <2>1. CASE i = m
    <3>1. m - 1 \in 0..m /\ m - 1 # m
      BY <1>3
    <3>2. r[m - 1] = q[m - 1]
      BY <3>1
    <3>3. QED
      BY <2>1, <3>2, <1>3
  <2>2. CASE i # m
    <3>1. i \in 0..(m - 1)
      BY <2>2
    <3>2. q[i] = IF i = 0 THEN FreshLedger ELSE Booked(q[i - 1], rows[i])
      BY <1>5, <3>1 DEF ReplayFunction
    <3>3. i # 0 => r[i - 1] = q[i - 1]
      BY <3>1
    <3>4. QED
      BY <2>2, <3>2, <3>3
  <2>3. QED
    BY <2>1, <2>2
<1>7. ReplayFunction(r, rows, m)
  BY <1>6, Zenon DEF ReplayFunction
<1>8. QED
  BY <1>2, <1>7

\* What ReplayedTo returns is the value of that solution.
LEMMA ReplayIs ==
  ASSUME NEW rows, NEW n \in Nat
  PROVE  \E b : ReplayFunction(b, rows, n) /\ ReplayedTo(rows, n) = b[n]
<1> DEFINE b == CHOOSE b : b = [k \in 0..n |-> IF k = 0 THEN FreshLedger
                     ELSE ApplyFill(b[k - 1], rows[k].token, rows[k].side, rows[k].size, rows[k].price, 0)]
<1>1. ReplayedTo(rows, n) = b[n]
  BY DEF ReplayedTo
<1>2. ReplayFunction(b, rows, n)
  <2>1. \E g : ReplayFunction(g, rows, n)
    BY ReplayExists
  <2>2. QED
    BY <2>1, Zenon DEF ReplayFunction, Booked
<1> HIDE DEF b
<1>3. QED
  BY <1>1, <1>2

LEMMA ReplayValues ==
  ASSUME NEW b, NEW rows, NEW n \in Nat, ReplayFunction(b, rows, n)
  PROVE  b[0] = FreshLedger /\ \A k \in 1..n : b[k] = Booked(b[k - 1], rows[k])
<1>1. \A k \in 0..n : b[k] = IF k = 0 THEN FreshLedger ELSE Booked(b[k - 1], rows[k])
  BY Zenon DEF ReplayFunction
<1>2. QED
  BY <1>1

\* Lists that begin with the same rows replay to the same ledger so far.
LEMMA ReplayAgrees ==
  ASSUME NEW n \in Nat, NEW m \in Nat, n <= m, NEW rows, NEW more,
         NEW b, NEW c, ReplayFunction(b, rows, n), ReplayFunction(c, more, m),
         \A i \in 1..n : rows[i] = more[i]
  PROVE  b[n] = c[n]
<1> DEFINE Bad == {i \in 0..n : b[i] # c[i]}
<1>1. SUFFICES ASSUME Bad # {} PROVE FALSE
  OBVIOUS
<1>2. PICK i \in Bad : \A k \in Bad : i <= k
  <2>1. Bad \in SUBSET Nat
    OBVIOUS
  <2>2. QED
    BY <1>1, <2>1, LeastNat
<1>3. /\ b[0] = FreshLedger /\ c[0] = FreshLedger
      /\ \A k \in 1..n : b[k] = Booked(b[k - 1], rows[k])
      /\ \A k \in 1..m : c[k] = Booked(c[k - 1], more[k])
  BY ReplayValues
<1>4. i # 0
  BY <1>2, <1>3
<1>5. i - 1 \in 0..n /\ i - 1 \notin Bad /\ i \in 1..n /\ i \in 1..m
  BY <1>2, <1>4
<1>6. b[i - 1] = c[i - 1]
  BY <1>5
<1>7. b[i] = c[i]
  BY <1>3, <1>5, <1>6
<1>8. QED
  BY <1>2, <1>7

\* No row replays to the fresh ledger.
LEMMA ReplayNone ==
  ASSUME NEW rows
  PROVE  ReplayedTo(rows, 0) = FreshLedger
<1>1. PICK b : ReplayFunction(b, rows, 0) /\ ReplayedTo(rows, 0) = b[0]
  BY ReplayIs
<1>2. QED
  BY <1>1, ReplayValues

\* One more row is one more fill.
LEMMA ReplayNext ==
  ASSUME NEW rows, NEW n \in Nat
  PROVE  ReplayedTo(rows, n + 1) = Booked(ReplayedTo(rows, n), rows[n + 1])
<1>1. PICK b : ReplayFunction(b, rows, n) /\ ReplayedTo(rows, n) = b[n]
  BY ReplayIs
<1>2. PICK c : ReplayFunction(c, rows, n + 1) /\ ReplayedTo(rows, n + 1) = c[n + 1]
  BY ReplayIs
<1>3. b[n] = c[n]
  BY <1>1, <1>2, ReplayAgrees
<1>4. n + 1 \in 1..(n + 1) /\ n + 1 \in Nat /\ (n + 1) - 1 = n
  OBVIOUS
<1>5. c[n + 1] = Booked(c[n], rows[n + 1])
  <2>1. \A k \in 1..(n + 1) : c[k] = Booked(c[k - 1], rows[k])
    BY <1>2, <1>4, ReplayValues
  <2>2. QED
    BY <2>1, <1>4
<1>6. QED
  BY <1>1, <1>2, <1>3, <1>5

\* A replay depends on the rows replayed alone.
LEMMA ReplayPrefix ==
  ASSUME NEW rows, NEW more, NEW n \in Nat, \A i \in 1..n : rows[i] = more[i]
  PROVE  ReplayedTo(rows, n) = ReplayedTo(more, n)
<1>1. PICK b : ReplayFunction(b, rows, n) /\ ReplayedTo(rows, n) = b[n]
  BY ReplayIs
<1>2. PICK c : ReplayFunction(c, more, n) /\ ReplayedTo(more, n) = c[n]
  BY ReplayIs
<1>3. QED
  BY <1>1, <1>2, ReplayAgrees

\* A row that a fill or a flatten can write.
Bookable(row) ==
    row.token \in Tokens /\ row.side \in Sides /\ row.size \in Nat /\ row.price \in Nat

\* A replay of rows is a sound ledger.
LEMMA ReplaySound ==
  ASSUME NEW n \in Nat, NEW rows, \A i \in 1..n : Bookable(rows[i])
  PROVE  SoundLedger(ReplayedTo(rows, n))
<1> DEFINE Bad == {i \in 0..n : ~SoundLedger(ReplayedTo(rows, i))}
<1>1. SUFFICES ASSUME Bad # {} PROVE FALSE
  OBVIOUS
<1>2. PICK i \in Bad : \A k \in Bad : i <= k
  <2>1. Bad \in SUBSET Nat
    OBVIOUS
  <2>2. QED
    BY <1>1, <2>1, LeastNat
<1>3. i # 0
  BY <1>2, ReplayNone, FreshSound
<1>4. i - 1 \in 0..n /\ i - 1 \notin Bad /\ i \in 1..n /\ i - 1 \in Nat /\ (i - 1) + 1 = i
  BY <1>2, <1>3
<1> DEFINE l == ReplayedTo(rows, i - 1)
           m == ReplayedTo(rows, i)
<1>5. SoundLedger(l) /\ Bookable(rows[i])
  BY <1>4
<1>6. m = Booked(l, rows[i])
  BY <1>4, ReplayNext
<1> HIDE DEF l, m
<1>7. SoundLedger(m)
  BY <1>5, <1>6, FillPeak DEF Bookable, Booked
<1>8. QED
  BY <1>2, <1>7 DEF m

-----------------------------------------------------------------------------
(* Books *)

\* A fill does the same to two ledgers with the same book.
LEMMA SameBookFill ==
  ASSUME NEW l, SoundLedger(l), NEW a, SoundLedger(a), NEW made \in Int, SameBookBut(a, l, made),
         NEW t \in Tokens, NEW side \in Sides, NEW size \in Nat, NEW price \in Nat,
         NEW b, b = ApplyFill(a, t, side, size, price, 0),
         NEW m, m = ApplyFill(l, t, side, size, price, 0)
  PROVE  SoundLedger(b) /\ SoundLedger(m) /\ SameBookBut(b, m, made)
<1> DEFINE s == Signed(side, size)
           p == l.pos[t]
           q == a.pos[t]
           x == FilledPosition(p, s, price)
           y == FilledPosition(q, s, price)
<1>0. 0 \in Nat
  OBVIOUS
<1>1. /\ m.cash = l.cash - s * price - 0
      /\ m.realized = l.realized + Realized(p, s, price, 0)
      /\ m.pos = [l.pos EXCEPT ![t] = x]
  BY <1>0, FillEffect
<1>2. /\ b.cash = a.cash - s * price - 0
      /\ b.realized = a.realized + Realized(q, s, price, 0)
      /\ b.pos = [a.pos EXCEPT ![t] = y]
  BY <1>0, FillEffect
<1>3. l.pos \in [Tokens -> Positions] /\ a.pos \in [Tokens -> Positions]
  BY DEF SoundLedger, LedgerType
<1>4. /\ q.qty = p.qty /\ q.cost = p.cost
      /\ l.cash = a.cash + made /\ l.realized = a.realized + made
  BY DEF SameBookBut
<1> HIDE DEF s, p, q
<1>5. Realized(q, s, price, 0) = Realized(p, s, price, 0)
  BY <1>4 DEF Realized, Adds, Closing, Released
<1>6. y.qty = x.qty /\ y.cost = x.cost
  BY <1>4 DEF FilledPosition, Adds, Closing, Released
<1> HIDE DEF x, y
<1>9. SoundLedger(b) /\ SoundLedger(m)
  BY <1>0, FillPeak
<1>7. m.cash = b.cash + made /\ m.realized = b.realized + made
  <2> DEFINE paid == s * price
             gain == Realized(q, s, price, 0)
  <2>1. /\ a.cash \in Int /\ a.realized \in Int /\ l.cash \in Int /\ l.realized \in Int
    BY DEF SoundLedger, LedgerType
  <2>2. s \in Int
    BY DEF s, Signed
  <2>3. SoundPosition(q)
    BY <1>3 DEF q, SoundLedger, SoundPosition
  <2>4. paid \in Int
    BY <2>2
  <2>5. gain \in Int
    BY <1>0, <2>2, <2>3, ClosingBooks DEF Realized
  <2> HIDE DEF paid, gain
  <2>6. /\ m.cash = l.cash - paid - 0 /\ b.cash = a.cash - paid - 0
        /\ m.realized = l.realized + gain /\ b.realized = a.realized + gain
    BY <1>1, <1>2, <1>5 DEF paid, gain
  <2>7. QED
    BY <1>4, <2>1, <2>4, <2>5, <2>6
<1>8. ASSUME NEW u \in Tokens PROVE b.pos[u].qty = m.pos[u].qty /\ b.pos[u].cost = m.pos[u].cost
  <2>1. CASE u = t
    BY <1>1, <1>2, <1>3, <1>6, <2>1
  <2>2. CASE u # t
    <3>1. b.pos[u] = a.pos[u] /\ m.pos[u] = l.pos[u]
      BY <1>1, <1>2, <1>3, <2>2
    <3>2. QED
      BY <3>1 DEF SameBookBut
  <2>3. QED
    BY <2>1, <2>2
<1>10. QED
  BY <1>7, <1>8, <1>9 DEF SameBookBut

\* A mark leaves the book as it is.
LEMMA SameBookMark ==
  ASSUME NEW l, SoundLedger(l), NEW a, NEW made, SameBookBut(a, l, made), NEW t \in Tokens, NEW price \in Nat,
         NEW m, m = ApplyMark(l, t, price)
  PROVE  SoundLedger(m) /\ SameBookBut(a, m, made)
<1> DEFINE n == [qty |-> l.pos[t].qty, cost |-> l.pos[t].cost, mark |-> price]
<1>1. m.cash = l.cash /\ m.realized = l.realized /\ m.pos = [l.pos EXCEPT ![t] = n]
  BY MarkEffect
<1>2. l.pos \in [Tokens -> Positions]
  BY DEF SoundLedger, LedgerType
<1>3. \A u \in Tokens : m.pos[u].qty = l.pos[u].qty /\ m.pos[u].cost = l.pos[u].cost
  BY <1>1, <1>2
<1> HIDE DEF n
<1>4. SoundLedger(m)
  BY MarkPeak
<1>5. QED
  BY <1>1, <1>3, <1>4 DEF SameBookBut

MarkFunction(f, l, price, n) ==
    f = [t \in 0..n |-> IF t = 0 THEN l ELSE ApplyMark(f[t - 1], t, price)]

\* The recursion of Marked has a solution.
LEMMA MarkExists ==
  ASSUME NEW n \in Nat, NEW l, NEW price
  PROVE  \E f : MarkFunction(f, l, price, n)
<1> DEFINE Bad == {m \in 0..n : ~ \E f : MarkFunction(f, l, price, m)}
<1>1. SUFFICES ASSUME Bad # {} PROVE FALSE
  OBVIOUS
<1>2. PICK m \in Bad : \A k \in Bad : m <= k
  <2>1. Bad \in SUBSET Nat
    OBVIOUS
  <2>2. QED
    BY <1>1, <2>1, LeastNat
<1>3. m # 0
  <2>1. MarkFunction([i \in 0..0 |-> l], l, price, 0)
    BY DEF MarkFunction
  <2>2. QED
    BY <2>1
<1>4. m - 1 \in 0..n /\ m - 1 \notin Bad
  BY <1>2, <1>3
<1>5. PICK q : MarkFunction(q, l, price, m - 1)
  BY <1>4
<1> DEFINE r == [i \in 0..m |-> IF i = m THEN ApplyMark(q[m - 1], m, price) ELSE q[i]]
<1>6. ASSUME NEW i \in 0..m
      PROVE  r[i] = IF i = 0 THEN l ELSE ApplyMark(r[i - 1], i, price)
  <2>1. CASE i = m
    <3>1. m - 1 \in 0..m /\ m - 1 # m
      BY <1>3
    <3>2. r[m - 1] = q[m - 1]
      BY <3>1
    <3>3. QED
      BY <2>1, <3>2, <1>3
  <2>2. CASE i # m
    <3>1. i \in 0..(m - 1)
      BY <2>2
    <3>2. q[i] = IF i = 0 THEN l ELSE ApplyMark(q[i - 1], i, price)
      BY <1>5, <3>1 DEF MarkFunction
    <3>3. i # 0 => r[i - 1] = q[i - 1]
      BY <3>1
    <3>4. QED
      BY <2>2, <3>2, <3>3
  <2>3. QED
    BY <2>1, <2>2
<1>7. MarkFunction(r, l, price, m)
  BY <1>6, Zenon DEF MarkFunction
<1>8. QED
  BY <1>2, <1>7

\* Marking every market at the end of a cycle leaves the book as it is.
LEMMA SameBookMarked ==
  ASSUME NEW l, SoundLedger(l), NEW a, NEW made, SameBookBut(a, l, made), NEW price \in Nat
  PROVE  SoundLedger(Marked(l, price)) /\ SameBookBut(a, Marked(l, price), made)
<1> DEFINE f == CHOOSE f : f = [t \in 0..NumTokens |-> IF t = 0 THEN l ELSE ApplyMark(f[t - 1], t, price)]
<1>0. NumTokens \in Nat
  BY LedgerAssumption
<1>1. Marked(l, price) = f[NumTokens]
  BY DEF Marked
<1>2. MarkFunction(f, l, price, NumTokens)
  <2>1. \E g : MarkFunction(g, l, price, NumTokens)
    BY <1>0, MarkExists
  <2>2. QED
    BY <2>1, Zenon DEF MarkFunction
<1> HIDE DEF f
<1>3. \A t \in 0..NumTokens : f[t] = IF t = 0 THEN l ELSE ApplyMark(f[t - 1], t, price)
  BY <1>2, Zenon DEF MarkFunction
<1> DEFINE Good(t) == SoundLedger(f[t]) /\ SameBookBut(a, f[t], made)
           Bad == {t \in 0..NumTokens : ~Good(t)}
<1>4. ASSUME Bad # {} PROVE FALSE
  <2>1. PICK t \in Bad : \A k \in Bad : t <= k
    <3>1. Bad \in SUBSET Nat
      BY <1>0
    <3>2. QED
      BY <1>4, <3>1, LeastNat
  <2>2. t # 0
    BY <1>0, <1>3, <2>1
  <2>3. t - 1 \in 0..NumTokens /\ t - 1 \notin Bad /\ t \in Tokens
    BY <1>0, <2>1, <2>2 DEF Tokens
  <2>4. SoundLedger(f[t - 1]) /\ SameBookBut(a, f[t - 1], made)
    BY <2>3
  <2>5. f[t] = ApplyMark(f[t - 1], t, price)
    BY <1>3, <2>1, <2>2
  <2> DEFINE before == f[t - 1]
             after == f[t]
  <2> HIDE DEF before, after
  <2>6. SoundLedger(before) /\ SameBookBut(a, before, made) /\ after = ApplyMark(before, t, price)
    BY <2>4, <2>5 DEF before, after
  <2>7. SoundLedger(after) /\ SameBookBut(a, after, made)
    BY <2>3, <2>6, SameBookMark
  <2>8. QED
    BY <2>1, <2>7 DEF after
<1>5. NumTokens \in 0..NumTokens /\ NumTokens \notin Bad
  BY <1>0, <1>4
<1>6. QED
  BY <1>1, <1>5

\* The rows of a flatten close the positions as they are when it begins: no close
\* touches the position of another token.
LEMMA FlattenBooks ==
  ASSUME NEW l, SoundLedger(l), NEW S, NEW rows \in Seq(S), \A i \in 1..Len(rows) : Bookable(rows[i]),
         NEW made \in Int, SameBookBut(Replayed(rows), l, made), NEW order \in SetToSeqs(OpenTokens(l)), NEW marks, NEW run,
         \A t \in OpenTokens(l) : marks[t] \in Nat,
         NEW closes, closes = [i \in DOMAIN order |->
              FlattenRow(run, order[i], CloseSide(l.pos[order[i]]), Abs(l.pos[order[i]].qty),
                         marks[order[i]])],
         NEW m, m = FlattenRun(l, order, marks)[Len(order)]
  PROVE  SoundLedger(m) /\ SameBookBut(Replayed(rows \o closes), m, made)
<1> DEFINE n == Len(order)
           k == Len(rows)
           all == rows \o closes
           ledgers == FlattenRun(l, order, marks)
<1>1. IsFiniteSet(OpenTokens(l)) /\ OpenTokens(l) \in SUBSET Tokens
  BY FiniteTokens DEF OpenTokens
<1>2. /\ order \in Seq(OpenTokens(l)) /\ n \in Nat /\ DOMAIN order = 1..n
      /\ \A i \in 1..n : order[i] \in OpenTokens(l) /\ order[i] \in Tokens
  BY <1>1, EnumerationIs
<1>3. \A i, j \in 1..n : i # j => order[i] # order[j]
  <2>1. order \in [1..Cardinality(OpenTokens(l)) -> OpenTokens(l)]
    BY DEF SetToSeqs
  <2>2. \A i, j \in 1..Cardinality(OpenTokens(l)) : i # j => order[i] # order[j]
    BY DEF SetToSeqs
  <2>3. n = Cardinality(OpenTokens(l))
    BY <1>1, EnumerationIs
  <2>4. QED
    BY <2>2, <2>3
<1>4. PICK T : closes \in Seq(T) /\ Len(closes) = n /\ k \in Nat
  <2>1. closes \in Seq({closes[i] : i \in 1..n}) /\ Len(closes) = n /\ k \in Nat
    BY <1>2
  <2>2. QED
    BY <2>1
<1>5. /\ Len(all) = k + n
      /\ \A i \in 1..k : all[i] = rows[i]
      /\ \A i \in 1..n : all[k + i] = closes[i]
  <2> HIDE DEF n
  <2>1. Len(closes) = n /\ n \in Nat
    BY <1>2, <1>4
  <2>2. QED
    BY <1>4, <2>1
<1>6. /\ ledgers[0] = l
      /\ \A i \in 1..n : ledgers[i] = CloseOne(ledgers[i - 1], order[i], marks)
  <2>1. Len(order) \in Nat
    BY <1>2
  <2>2. QED
    BY <2>1, RunSteps
<1>7. \A i \in 1..n : closes[i] = FlattenRow(run, order[i], CloseSide(l.pos[order[i]]),
                                               Abs(l.pos[order[i]].qty), marks[order[i]])
  BY <1>2
<1>8. \A i \in 1..n : Bookable(closes[i])
  <2>1. SUFFICES ASSUME NEW i \in 1..n PROVE Bookable(closes[i])
    OBVIOUS
  <2> DEFINE t == order[i]
             p == l.pos[t]
  <2>2. t \in Tokens /\ marks[t] \in Nat
    BY <1>2
  <2>3. p.qty \in Int
    BY <2>2 DEF SoundLedger, LedgerType, Positions
  <2>4. CloseSide(p) \in Sides /\ Abs(p.qty) \in Nat
    BY <2>3, AbsType DEF CloseSide, Sides
  <2> HIDE DEF t, p
  <2>5. closes[i] = FlattenRow(run, t, CloseSide(p), Abs(p.qty), marks[t])
    BY <1>7 DEF t, p
  <2>6. QED
    BY <2>2, <2>4, <2>5 DEF Bookable, FlattenRow
<1> HIDE DEF all, ledgers
<1>9. SoundLedger(ReplayedTo(all, k)) /\ SameBookBut(ReplayedTo(all, k), l, made)
  <2>1. ReplayedTo(rows, k) = ReplayedTo(all, k)
    BY <1>4, <1>5, ReplayPrefix
  <2>2. QED
    BY <1>4, <2>1, ReplaySound DEF Replayed
<1> DEFINE Good(i) == /\ SoundLedger(ledgers[i])
                      /\ SoundLedger(ReplayedTo(all, k + i))
                      /\ SameBookBut(ReplayedTo(all, k + i), ledgers[i], made)
                      /\ \A j \in (i + 1)..n : ledgers[i].pos[order[j]] = l.pos[order[j]]
           Bad == {i \in 0..n : ~Good(i)}
<1>10. ASSUME Bad # {} PROVE FALSE
  <2>1. PICK i \in Bad : \A j \in Bad : i <= j
    <3>1. Bad \in SUBSET Nat
      BY <1>2
    <3>2. QED
      BY <1>10, <3>1, LeastNat
  <2>2. k + 0 = k
    BY <1>4
  <2>3. i # 0
    BY <2>1, <2>2, <1>6, <1>9
  <2>4. i - 1 \in 0..n /\ i - 1 \notin Bad /\ i \in 1..n
    BY <1>2, <2>1, <2>3
  <2>5. Good(i - 1)
    BY <2>4
  <2> DEFINE t == order[i]
             before == ledgers[i - 1]
             after == ledgers[i]
             old == ReplayedTo(all, k + (i - 1))
             new == ReplayedTo(all, k + i)
             p == l.pos[t]
  <2>6. t \in Tokens /\ t \in OpenTokens(l) /\ marks[t] \in Nat
    BY <1>2, <2>4
  <2>7. after = CloseOne(before, t, marks)
    BY <1>6, <2>4
  <2>8. before.pos[t] = p
    <3>1. i \in ((i - 1) + 1)..n
      BY <2>4
    <3>2. QED
      BY <2>5, <3>1
  <2>9. SoundLedger(before) /\ SoundLedger(old) /\ SameBookBut(old, before, made)
    BY <2>5
  <2>10. new = Booked(old, all[k + i])
    <3>1. k + (i - 1) \in Nat /\ (k + (i - 1)) + 1 = k + i
      BY <1>4, <2>4
    <3>2. QED
      BY <3>1, ReplayNext
  <2>11. all[k + i] = FlattenRow(run, t, CloseSide(p), Abs(p.qty), marks[t])
    BY <1>5, <1>7, <2>4
  <2>12. /\ CloseSide(p) \in Sides /\ Abs(p.qty) \in Nat
         /\ \A u \in Tokens : u # t => after.pos[u] = before.pos[u]
    <3>1. p.qty \in Int
      BY <2>6 DEF SoundLedger, LedgerType, Positions
    <3>2. CloseSide(p) \in Sides /\ Abs(p.qty) \in Nat
      BY <3>1, AbsType DEF CloseSide, Sides
    <3> HIDE DEF t, before, after, p
    <3>3. QED
      BY <2>6, <2>7, <2>9, <3>2, CloseEffect
  <2>13. \A j \in (i + 1)..n : after.pos[order[j]] = l.pos[order[j]]
    <3>1. SUFFICES ASSUME NEW j \in (i + 1)..n PROVE after.pos[order[j]] = l.pos[order[j]]
      OBVIOUS
    <3>2. j \in ((i - 1) + 1)..n /\ j \in 1..n /\ j # i
      BY <2>4
    <3>3. order[j] \in Tokens /\ order[j] # t
      BY <1>2, <1>3, <2>4, <3>2
    <3>4. before.pos[order[j]] = l.pos[order[j]]
      BY <2>5, <3>2
    <3>5. QED
      BY <2>12, <3>3, <3>4
  <2> HIDE DEF t, before, after, old, new, p
  <2>14. after = ApplyFill(before, t, CloseSide(p), Abs(p.qty), marks[t], 0)
    BY <2>7, <2>8 DEF CloseOne
  <2>15. new = ApplyFill(old, t, CloseSide(p), Abs(p.qty), marks[t], 0)
    BY <2>10, <2>11 DEF Booked, FlattenRow
  <2> DEFINE side == CloseSide(p)
             size == Abs(p.qty)
             price == marks[t]
  <2>16. SoundLedger(new) /\ SoundLedger(after) /\ SameBookBut(new, after, made)
    <3>1. side \in Sides /\ size \in Nat /\ price \in Nat
      BY <2>6, <2>12
    <3>2. /\ after = ApplyFill(before, t, side, size, price, 0)
          /\ new = ApplyFill(old, t, side, size, price, 0)
      BY <2>14, <2>15
    <3> HIDE DEF side, size, price
    <3>3. QED
      BY <2>6, <2>9, <3>1, <3>2, SameBookFill
  <2>17. Good(i)
    BY <2>13, <2>16 DEF new, after
  <2>18. QED
    BY <2>1, <2>17
<1>11. n \in 0..n /\ n \notin Bad
  BY <1>2, <1>10
<1>12. Good(n)
  BY <1>11
<1>13. Replayed(all) = ReplayedTo(all, k + n) /\ m = ledgers[n]
  BY <1>5 DEF Replayed, ledgers
<1>14. QED
  BY <1>12, <1>13 DEF all

-----------------------------------------------------------------------------
(* Views of the tables: what one more row changes *)

\* The rows of a run grow by a row of that run.
LEMMA RowsOfAppend ==
  ASSUME NEW S, NEW rows \in Seq(S), NEW row, NEW run
  PROVE  RowsOf(Append(rows, row), run)
           = IF row.run = run THEN Append(RowsOf(rows, run), row) ELSE RowsOf(rows, run)
<1> DEFINE more == Append(rows, row)
           places == {i \in DOMAIN rows : rows[i].run = run}
           others == {i \in DOMAIN more : more[i].run = run}
<1>1. /\ \A i \in 1..Len(rows) : i \in places <=> i \in others
      /\ Len(rows) + 1 \in others <=> row.run = run
  OBVIOUS
<1>2. RowsOf(rows, run) = Select(rows, places) /\ RowsOf(more, run) = Select(more, others)
  BY DEF RowsOf
<1> HIDE DEF places, others
<1>3. Select(more, others)
        = IF Len(rows) + 1 \in others THEN Append(Select(rows, places), row) ELSE Select(rows, places)
  BY <1>1, SelectAppend
<1>4. QED
  BY <1>1, <1>2, <1>3

FilledGrow(d, e, row, run) ==
    FilledOrders(e, run)
      = IF row.run = run /\ row.filled > 0 THEN Append(FilledOrders(d, run), row) ELSE FilledOrders(d, run)

\* So do the filled orders,
LEMMA FilledAppend ==
  ASSUME NEW S, NEW d, d.orders \in Seq(S), NEW e, NEW row, e.orders = Append(d.orders, row), NEW run
  PROVE  FilledGrow(d, e, row, run)
<1> DEFINE rows == d.orders
           more == e.orders
           places == {i \in DOMAIN rows : rows[i].run = run /\ rows[i].filled > 0}
           others == {i \in DOMAIN more : more[i].run = run /\ more[i].filled > 0}
<1>0. rows \in Seq(S) /\ more = Append(rows, row)
  OBVIOUS
<1>2. FilledOrders(d, run) = Select(rows, places) /\ FilledOrders(e, run) = Select(more, others)
  BY DEF FilledOrders
<1> HIDE DEF rows, more
<1>1. /\ \A i \in 1..Len(rows) : i \in places <=> i \in others
      /\ Len(rows) + 1 \in others <=> row.run = run /\ row.filled > 0
  BY <1>0
<1> HIDE DEF places, others
<1>3. Select(more, others)
        = IF Len(rows) + 1 \in others THEN Append(Select(rows, places), row) ELSE Select(rows, places)
  BY <1>0, <1>1, SelectAppend
<1>4. QED
  BY <1>1, <1>2, <1>3 DEF FilledGrow

FillsGrow(d, e, row, run) ==
    FillEvents(e, run)
      = IF row.run = run /\ row.kind = "FILL" THEN Append(FillEvents(d, run), row) ELSE FillEvents(d, run)

\* the events of fills,
LEMMA FillEventsAppend ==
  ASSUME NEW S, NEW d, d.events \in Seq(S), NEW e, NEW row, e.events = Append(d.events, row), NEW run
  PROVE  FillsGrow(d, e, row, run)
<1> DEFINE rows == d.events
           more == e.events
           places == {i \in DOMAIN rows : rows[i].run = run /\ rows[i].kind = "FILL"}
           others == {i \in DOMAIN more : more[i].run = run /\ more[i].kind = "FILL"}
<1>0. rows \in Seq(S) /\ more = Append(rows, row)
  OBVIOUS
<1>2. FillEvents(d, run) = Select(rows, places) /\ FillEvents(e, run) = Select(more, others)
  BY DEF FillEvents
<1> HIDE DEF rows, more
<1>1. /\ \A i \in 1..Len(rows) : i \in places <=> i \in others
      /\ Len(rows) + 1 \in others <=> row.run = run /\ row.kind = "FILL"
  BY <1>0
<1> HIDE DEF places, others
<1>3. Select(more, others)
        = IF Len(rows) + 1 \in others THEN Append(Select(rows, places), row) ELSE Select(rows, places)
  BY <1>0, <1>1, SelectAppend
<1>4. QED
  BY <1>1, <1>2, <1>3 DEF FillsGrow

AllowedGrows(d, e, row, run) ==
    Allowed(e, run) = IF row.run = run /\ row.allowed THEN Append(Allowed(d, run), row) ELSE Allowed(d, run)

\* and the rows of what the risk engine allowed.
LEMMA AllowedAppend ==
  ASSUME NEW S, NEW d, d.risk \in Seq(S), NEW e, NEW row, e.risk = Append(d.risk, row), NEW run,
         row.allowed \in BOOLEAN
  PROVE  AllowedGrows(d, e, row, run)
<1> DEFINE rows == d.risk
           more == e.risk
           places == {i \in DOMAIN rows : rows[i].run = run /\ rows[i].allowed}
           others == {i \in DOMAIN more : more[i].run = run /\ more[i].allowed}
<1>0. rows \in Seq(S) /\ more = Append(rows, row)
  OBVIOUS
<1>2. Allowed(d, run) = Select(rows, places) /\ Allowed(e, run) = Select(more, others)
  BY DEF Allowed
<1> HIDE DEF rows, more
<1>1. /\ \A i \in 1..Len(rows) : i \in places <=> i \in others
      /\ Len(rows) + 1 \in others <=> row.run = run /\ row.allowed
  BY <1>0
<1> HIDE DEF places, others
<1>3. Select(more, others)
        = IF Len(rows) + 1 \in others THEN Append(Select(rows, places), row) ELSE Select(rows, places)
  BY <1>0, <1>1, SelectAppend
<1>4. QED
  BY <1>1, <1>2, <1>3 DEF AllowedGrows

\* An order whose id is in no row is a new row.
LEMMA SaveOrderAppends ==
  ASSUME NEW S, NEW rows \in Seq(S), NEW cid, \A i \in 1..Len(rows) : rows[i].cid # cid
  PROVE  Select(rows, {i \in DOMAIN rows : rows[i].cid # cid}) = rows
<1> DEFINE places == {i \in DOMAIN rows : rows[i].cid # cid}
<1>1. \A i \in 1..Len(rows) : i \in places
  OBVIOUS
<1> HIDE DEF places
<1>2. Select(rows, places) = rows
  BY <1>1, SelectAll
<1>3. QED
  BY <1>2 DEF places

\* The ids of one more row.
LEMMA CidsAppend ==
  ASSUME NEW S, NEW rows \in Seq(S), NEW row
  PROVE  /\ CidsOf(Append(rows, row)) = Append(CidsOf(rows), row.cid)
         /\ CidsOf(rows) \in Seq({rows[i].cid : i \in 1..Len(rows)})
<1>1. CidsOf(rows) \in Seq({rows[i].cid : i \in 1..Len(rows)}) /\ Len(CidsOf(rows)) = Len(rows)
  BY DEF CidsOf
<1> DEFINE a == CidsOf(Append(rows, row))
           b == Append(CidsOf(rows), row.cid)
           n == Len(rows) + 1
<1>2. DOMAIN a = 1..n /\ DOMAIN b = 1..n /\ a = [i \in 1..n |-> a[i]] /\ b = [i \in 1..n |-> b[i]]
  BY <1>1 DEF CidsOf
<1>3. ASSUME NEW i \in 1..n PROVE a[i] = b[i]
  BY <1>1 DEF CidsOf
<1> HIDE DEF a, b
<1>4. a = b
  BY <1>2, <1>3
<1>5. QED
  BY <1>1, <1>4 DEF a, b

\* A list follows itself, and what has one more entry.
LEMMA FollowsAppend ==
  ASSUME NEW S, NEW s \in Seq(S), NEW x
  PROVE  Follows(s, s) /\ Follows(s, Append(s, x))
<1>1. SubSeq(Append(s, x), 1, Len(s)) = SubSeq(s, 1, Len(s))
  OBVIOUS
<1>2. QED
  BY <1>1 DEF Follows, IsPrefix

-----------------------------------------------------------------------------
(* The invariant *)

Effects == {"feature", "risk", "fill", "order", "trade", "event", "snapshot", "signal", "decision",
            "trip", "flag", "reason", "clear", "unflag", "unreason", "sync flag", "sync reason",
            "resync", "publish", "feeds", "cycle", "probe"}

Causes == {NoReason, "STALE_CRITICAL_DATA", "RUNAWAY_REJECTS", "DRAWDOWN_EXCEEDED",
           "DAILY_LOSS_EXCEEDED", "POSITION_MISMATCH"}

Operation == [token : Tokens, lots : Lots \cup {0}, price : Prices \cup {1}, taken : BOOLEAN, cause : Causes]

Process == [up : BOOLEAN, serves : BOOLEAN, agenda : Seq(Effects), op : Operation, ledger : LedgerType,
            events : Nat, beside : Int, unsaved : Seq(Row), kill : Causes, marks : [Tokens -> Prices \cup {NoMark}],
            fresh : BOOLEAN]

StoredOrder == [run : 1..MaxRuns, cid : 0..MaxOrders, token : Tokens, size : {Max(Lots) + 1}, filled : Lots]

Snapshot == [run : 0..MaxRuns, ledger : LedgerType, events : Nat, beside : Int]

Tables == [signals : Nat, features : Nat, risk : Seq(Decision), orders : Seq(StoredOrder),
           trades : Seq(Row), events : Seq(Row), snapshot : Snapshot]

\* the memory of the process, and tables of the runs so far
Shape ==
    /\ proc \in Process /\ db \in Tables /\ runs \in 1..MaxRuns /\ orders \in 0..MaxOrders
    /\ db.snapshot.run <= runs
    /\ \A i \in 1..Len(db.orders) : db.orders[i].run <= runs /\ db.orders[i].cid <= orders
    /\ \A i \in 1..Len(db.trades) : db.trades[i].run <= runs
    /\ \A i \in 1..Len(db.events) : db.events[i].run <= runs
    /\ \A i \in 1..Len(db.risk) : db.risk[i].run <= runs

FilledCids(d, run) == CidsOf(FilledOrders(d, run))

TradeCids(d, run) == CidsOf(RowsOf(d.trades, run))

\* what every run leaves in the tables, wherever it was cut
Chained(d, run) ==
    /\ Follows(TradeCids(d, run), FilledCids(d, run))
    /\ Follows(FillEvents(d, run), RowsOf(d.trades, run))
    /\ Len(RowsOf(d.orders, run)) <= Len(Allowed(d, run))

\* the snapshot is a prefix of the events of its run
SnapshotReplays(d) ==
    LET rows == RowsOf(d.events, d.snapshot.run)
    IN  \E n \in 0..Len(rows) : SameBookBut(ReplayedTo(rows, n), d.snapshot.ledger, d.snapshot.beside)

\* the effects of a list, and the order of those that write a row of a trade
Owed(a) == {a[i] : i \in 1..Len(a)}

Rank(effect) ==
    CASE effect = "risk" -> 1 [] effect = "fill" -> 2 [] effect = "order" -> 3
      [] effect = "trade" -> 4 [] effect = "event" -> 5 [] effect = "snapshot" -> 6 [] OTHER -> 0

Ranked(a) ==
    \A i, j \in 1..Len(a) : i < j /\ Rank(a[i]) > 0 /\ Rank(a[j]) > 0 => Rank(a[i]) < Rank(a[j])

\* what a trade owes once it owes something
Debts(owed, lots) ==
    /\ "risk" \in owed => "fill" \in owed
    /\ "fill" \in owed => "order" \in owed
    /\ lots > 0 /\ "order" \in owed => "trade" \in owed
    /\ "trade" \in owed => "event" \in owed
    /\ lots = 0 => "event" \notin owed

\* an agenda without a trade, whose first n effects save the closes of a flatten
Quiet(a, n) ==
    /\ n <= Len(a)
    /\ \A i \in 1..Len(a) : /\ a[i] \notin {"fill", "order", "trade"}
                            /\ a[i] = "event" <=> i <= n

\* the row of the fill under way
TheFill == FillRow(runs, orders, proc.op.token, proc.op.lots, proc.op.price)

\* While a trade is written, each table misses what is owed to it and nothing else.
Trading ==
    LET owed == Owed(proc.agenda) IN
    /\ proc.op.lots \in Lots /\ proc.op.price \in Prices
    /\ Ranked(proc.agenda) /\ Debts(owed, proc.op.lots)
    /\ "fill" \in owed \/ "event" \notin owed => proc.unsaved = <<>>
    /\ "fill" \notin owed /\ "event" \in owed => proc.unsaved = <<TheFill>>
    /\ FilledCids(db, runs) = IF "order" \notin owed /\ "trade" \in owed THEN Append(TradeCids(db, runs), orders)
                              ELSE TradeCids(db, runs)
    /\ RowsOf(db.trades, runs) = IF "trade" \notin owed /\ "event" \in owed
                                 THEN Append(FillEvents(db, runs), TheFill) ELSE FillEvents(db, runs)
    /\ "order" \in owed /\ "fill" \notin owed =>
         orders > 0 /\ \A i \in 1..Len(db.orders) : db.orders[i].cid < orders
    /\ "order" \in owed /\ "risk" \notin owed => Len(RowsOf(db.orders, runs)) < Len(Allowed(db, runs))
    /\ "fill" \in owed => orders < MaxOrders

\* Otherwise only the closes of a flatten may be missing.
Resting ==
    /\ Quiet(proc.agenda, Len(proc.unsaved))
    /\ \A i \in 1..Len(proc.unsaved) : proc.unsaved[i].kind = "FLATTEN"
    /\ FilledCids(db, runs) = TradeCids(db, runs)
    /\ RowsOf(db.trades, runs) = FillEvents(db, runs)

\* The stored events and those still to be stored add up to the ledger.
Owing ==
    /\ SoundLedger(proc.ledger)
    /\ SameBookBut(Replayed(RowsOf(db.events, runs) \o proc.unsaved), proc.ledger, proc.beside)
    /\ \A i \in 1..Len(proc.unsaved) : proc.unsaved[i].run = runs
    /\ proc.op.taken => Trading
    /\ ~proc.op.taken => Resting

TablesInv ==
    /\ Shape
    /\ \A run \in 1..runs : Chained(db, run)
    /\ SnapshotReplays(db)
    /\ proc.up => Owing

-----------------------------------------------------------------------------
(* Agendas *)

\* The first effect of a trade is done; of those that write rows it came first.
LEMMA TakeRanked ==
  ASSUME NEW a \in Seq(Effects), a # <<>>, Ranked(a)
  PROVE  /\ Tail(a) \in Seq(Effects) /\ Ranked(Tail(a)) /\ Head(a) \in Owed(a)
         /\ \A e \in Owed(Tail(a)) : e \in Owed(a)
         /\ \A e \in Owed(a) : e # Head(a) => e \in Owed(Tail(a))
         /\ Rank(Head(a)) > 0 => /\ Head(a) \notin Owed(Tail(a))
                                 /\ \A e \in Owed(a) : Rank(e) = 0 \/ Rank(Head(a)) <= Rank(e)
<1> DEFINE b == Tail(a)
           n == Len(a)
<1>1. /\ n \in Nat /\ n >= 1 /\ b \in Seq(Effects) /\ Len(b) = n - 1 /\ Head(a) = a[1]
      /\ \A i \in 1..(n - 1) : b[i] = a[i + 1]
  OBVIOUS
<1>2. \A i, j \in 1..n : i < j /\ Rank(a[i]) > 0 /\ Rank(a[j]) > 0 => Rank(a[i]) < Rank(a[j])
  BY DEF Ranked
<1>3. \A e : Rank(e) \in Nat
  BY DEF Rank
<1> HIDE DEF b, n
<1>4. Ranked(b)
  <2>1. SUFFICES ASSUME NEW i \in 1..Len(b), NEW j \in 1..Len(b), i < j, Rank(b[i]) > 0, Rank(b[j]) > 0
                 PROVE  Rank(b[i]) < Rank(b[j])
    BY DEF Ranked
  <2>2. i + 1 \in 1..n /\ j + 1 \in 1..n /\ i + 1 < j + 1 /\ b[i] = a[i + 1] /\ b[j] = a[j + 1]
    BY <1>1, <2>1
  <2>3. QED
    BY <1>2, <2>1, <2>2
<1>5. Head(a) \in Owed(a)
  <2>1. 1 \in 1..n
    BY <1>1
  <2>2. QED
    BY <1>1, <2>1 DEF Owed, n
<1>6. \A e \in Owed(b) : \E i \in 1..(n - 1) : e = a[i + 1] /\ i + 1 \in 1..n
  <2>1. SUFFICES ASSUME NEW e \in Owed(b)
                 PROVE  \E i \in 1..(n - 1) : e = a[i + 1] /\ i + 1 \in 1..n
    OBVIOUS
  <2>2. PICK i \in 1..Len(b) : e = b[i]
    BY DEF Owed
  <2>3. i \in 1..(n - 1) /\ i + 1 \in 1..n
    BY <1>1, <2>2
  <2>4. e = a[i + 1]
    BY <1>1, <2>2, <2>3
  <2>5. QED
    BY <2>3, <2>4
<1>7. \A e \in Owed(b) : e \in Owed(a)
  BY <1>6 DEF Owed, n
<1>8. ASSUME NEW e \in Owed(a), e # Head(a) PROVE e \in Owed(b)
  <2>1. PICK i \in 1..n : e = a[i]
    BY DEF Owed, n
  <2>2. i # 1
    BY <1>1, <1>8, <2>1
  <2>3. i - 1 \in 1..(n - 1) /\ b[i - 1] = e
    BY <1>1, <2>1, <2>2
  <2>4. QED
    BY <1>1, <2>3 DEF Owed
<1>9. ASSUME Rank(Head(a)) > 0, Head(a) \in Owed(b) PROVE FALSE
  <2>1. PICK i \in 1..(n - 1) : Head(a) = a[i + 1] /\ i + 1 \in 1..n
    BY <1>6, <1>9
  <2>2. 1 \in 1..n /\ 1 < i + 1
    BY <1>1, <2>1
  <2>3. Rank(a[1]) < Rank(a[i + 1])
    BY <1>1, <1>2, <1>9, <2>1, <2>2
  <2>4. Rank(Head(a)) < Rank(Head(a))
    BY <1>1, <2>1, <2>3
  <2>5. QED
    BY <1>3, <2>4
<1>10. ASSUME Rank(Head(a)) > 0, NEW e \in Owed(a), Rank(e) # 0 PROVE Rank(Head(a)) <= Rank(e)
  <2>1. PICK i \in 1..n : e = a[i]
    BY DEF Owed, n
  <2>2. CASE i = 1
    BY <1>1, <1>3, <2>1, <2>2
  <2>3. CASE i # 1
    <3>1. 1 \in 1..n /\ 1 < i
      BY <1>1, <2>3
    <3>2. Rank(e) > 0
      BY <1>3, <1>10
    <3>3. Rank(a[1]) < Rank(a[i])
      BY <1>1, <1>2, <1>10, <2>1, <3>1, <3>2
    <3>4. QED
      BY <1>1, <1>3, <2>1, <3>3
  <2>4. QED
    BY <2>2, <2>3
<1>11. QED
  BY <1>1, <1>4, <1>5, <1>7, <1>8, <1>9, <1>10 DEF b

\* The first effect of an agenda without a trade is done.
LEMMA TakeQuiet ==
  ASSUME NEW a \in Seq(Effects), a # <<>>, NEW n \in Nat, Quiet(a, n)
  PROVE  /\ Tail(a) \in Seq(Effects) /\ Head(a) \notin {"fill", "order", "trade"}
         /\ Head(a) = "event" => n > 0 /\ Quiet(Tail(a), n - 1)
         /\ Head(a) # "event" => n = 0 /\ Quiet(Tail(a), n)
<1> DEFINE b == Tail(a)
           m == Len(a)
<1>1. /\ m \in Nat /\ m >= 1 /\ b \in Seq(Effects) /\ Len(b) = m - 1 /\ Head(a) = a[1]
      /\ \A i \in 1..(m - 1) : b[i] = a[i + 1] /\ i + 1 \in 1..m
  OBVIOUS
<1>2. /\ n <= m
      /\ \A i \in 1..m : a[i] \notin {"fill", "order", "trade"} /\ (a[i] = "event" <=> i <= n)
  BY DEF Quiet
<1> HIDE DEF b, m
<1>3. 1 \in 1..m
  BY <1>1
<1>4. Head(a) \notin {"fill", "order", "trade"} /\ (Head(a) = "event" <=> 1 <= n)
  BY <1>1, <1>2, <1>3
<1>5. \A i \in 1..(m - 1) : b[i] \notin {"fill", "order", "trade"} /\ (b[i] = "event" <=> i + 1 <= n)
  BY <1>1, <1>2
<1>6. Head(a) = "event" => n > 0 /\ Quiet(b, n - 1)
  BY <1>1, <1>2, <1>4, <1>5 DEF Quiet
<1>7. Head(a) # "event" => n = 0 /\ Quiet(b, n)
  BY <1>1, <1>2, <1>4, <1>5 DEF Quiet
<1>8. QED
  BY <1>1, <1>4, <1>6, <1>7 DEF b

\* Two parts of a trade, one after the other.
LEMMA JoinRanked ==
  ASSUME NEW a \in Seq(Effects), NEW b \in Seq(Effects), Ranked(a), Ranked(b),
         \A x \in Owed(a), y \in Owed(b) : Rank(x) = 0 \/ Rank(y) = 0 \/ Rank(x) < Rank(y)
  PROVE  /\ a \o b \in Seq(Effects) /\ Ranked(a \o b)
         /\ Owed(a \o b) = Owed(a) \cup Owed(b)
<1> DEFINE c == a \o b
           m == Len(a)
           n == Len(b)
<1>1. /\ m \in Nat /\ n \in Nat /\ c \in Seq(Effects) /\ Len(c) = m + n
      /\ \A i \in 1..m : c[i] = a[i]
      /\ \A i \in 1..n : c[m + i] = b[i]
      /\ \A i \in (m + 1)..(m + n) : c[i] = b[i - m]
  OBVIOUS
<1> HIDE DEF c, m, n
<1>2. \A i \in 1..m : a[i] \in Owed(a)
  BY DEF Owed, m
<1>3. \A i \in 1..n : b[i] \in Owed(b)
  BY DEF Owed, n
<1>4. Ranked(c)
  <2>1. SUFFICES ASSUME NEW i \in 1..Len(c), NEW j \in 1..Len(c), i < j, Rank(c[i]) > 0, Rank(c[j]) > 0
                 PROVE  Rank(c[i]) < Rank(c[j])
    BY DEF Ranked
  <2>2. CASE j <= m
    <3>1. i \in 1..m /\ j \in 1..m /\ c[i] = a[i] /\ c[j] = a[j]
      BY <1>1, <2>1, <2>2
    <3>2. QED
      BY <2>1, <3>1 DEF Ranked, m
  <2>3. CASE i <= m /\ j > m
    <3>1. i \in 1..m /\ j - m \in 1..n /\ c[i] = a[i] /\ c[j] = b[j - m]
      BY <1>1, <2>1, <2>3
    <3>2. c[i] \in Owed(a) /\ c[j] \in Owed(b)
      BY <1>2, <1>3, <3>1
    <3>3. QED
      BY <2>1, <3>2
  <2>4. CASE i > m
    <3>0. i \in (m + 1)..(m + n) /\ j \in (m + 1)..(m + n)
      BY <1>1, <2>1, <2>4
    <3>1. i - m \in 1..n /\ j - m \in 1..n /\ i - m < j - m /\ c[i] = b[i - m] /\ c[j] = b[j - m]
      BY <1>1, <2>1, <3>0
    <3>2. QED
      BY <2>1, <3>1 DEF Ranked, n
  <2>5. QED
    BY <1>1, <2>2, <2>3, <2>4
<1>5. Owed(c) = Owed(a) \cup Owed(b)
  <2>1. ASSUME NEW e \in Owed(c) PROVE e \in Owed(a) \cup Owed(b)
    <3>1. PICK i \in 1..(m + n) : e = c[i]
      BY <1>1 DEF Owed
    <3>2. CASE i <= m
      BY <1>1, <1>2, <3>1, <3>2
    <3>3. CASE i > m
      <4>1. i - m \in 1..n /\ c[i] = b[i - m]
        BY <1>1, <3>1, <3>3
      <4>2. QED
        BY <1>3, <3>1, <4>1
    <3>4. QED
      BY <1>1, <3>2, <3>3
  <2>2. ASSUME NEW e \in Owed(a) PROVE e \in Owed(c)
    <3>1. PICK i \in 1..m : e = a[i]
      BY DEF Owed, m
    <3>2. i \in 1..Len(c) /\ e = c[i]
      BY <1>1, <3>1
    <3>3. QED
      BY <3>2 DEF Owed
  <2>3. ASSUME NEW e \in Owed(b) PROVE e \in Owed(c)
    <3>1. PICK i \in 1..n : e = b[i]
      BY DEF Owed, n
    <3>2. m + i \in 1..Len(c) /\ e = c[m + i]
      BY <1>1, <3>1
    <3>3. QED
      BY <3>2 DEF Owed
  <2>4. QED
    BY <2>1, <2>2, <2>3
<1>6. QED
  BY <1>1, <1>4, <1>5 DEF c

\* A part without an event after another of an agenda without a trade.
LEMMA JoinQuiet ==
  ASSUME NEW a \in Seq(Effects), NEW b \in Seq(Effects), NEW n \in Nat, Quiet(a, n), Quiet(b, 0)
  PROVE  a \o b \in Seq(Effects) /\ Quiet(a \o b, n)
<1> DEFINE c == a \o b
           k == Len(a)
           m == Len(b)
<1>1. /\ k \in Nat /\ m \in Nat /\ c \in Seq(Effects) /\ Len(c) = k + m
      /\ \A i \in 1..k : c[i] = a[i]
      /\ \A i \in (k + 1)..(k + m) : c[i] = b[i - k] /\ i - k \in 1..m
  OBVIOUS
<1>2. /\ n <= k
      /\ \A i \in 1..k : a[i] \notin {"fill", "order", "trade"} /\ (a[i] = "event" <=> i <= n)
      /\ \A i \in 1..m : b[i] \notin {"fill", "order", "trade"} /\ (b[i] = "event" <=> i <= 0)
  BY DEF Quiet
<1> HIDE DEF c, k, m
<1>3. ASSUME NEW i \in 1..Len(c)
      PROVE  c[i] \notin {"fill", "order", "trade"} /\ (c[i] = "event" <=> i <= n)
  <2>1. CASE i <= k
    BY <1>1, <1>2, <2>1
  <2>2. CASE i > k
    <3>1. i - k \in 1..m /\ c[i] = b[i - k] /\ ~(i - k <= 0) /\ ~(i <= n)
      BY <1>1, <1>2, <2>2
    <3>2. QED
      BY <1>2, <3>1
  <2>3. QED
    BY <1>1, <2>1, <2>2
<1>4. n <= Len(c)
  BY <1>1, <1>2
<1>5. Quiet(c, n)
  BY <1>3, <1>4 DEF Quiet
<1>6. QED
  BY <1>1, <1>5 DEF c

-----------------------------------------------------------------------------
(* Steps that write no row *)

\* the tables whose rows are related to each other
SameRows(d, e) ==
    e.risk = d.risk /\ e.orders = d.orders /\ e.trades = d.trades /\ e.events = d.events

\* Such tables have the same views.
LEMMA SameViews ==
  ASSUME NEW d, NEW e, SameRows(d, e), NEW run
  PROVE  /\ FilledCids(e, run) = FilledCids(d, run) /\ TradeCids(e, run) = TradeCids(d, run)
         /\ FillEvents(e, run) = FillEvents(d, run) /\ Allowed(e, run) = Allowed(d, run)
         /\ RowsOf(e.trades, run) = RowsOf(d.trades, run)
         /\ RowsOf(e.orders, run) = RowsOf(d.orders, run)
         /\ RowsOf(e.events, run) = RowsOf(d.events, run)
         /\ Chained(e, run) <=> Chained(d, run)
<1>1. /\ FilledOrders(e, run) = FilledOrders(d, run)
      /\ FillEvents(e, run) = FillEvents(d, run) /\ Allowed(e, run) = Allowed(d, run)
      /\ RowsOf(e.trades, run) = RowsOf(d.trades, run)
      /\ RowsOf(e.orders, run) = RowsOf(d.orders, run)
      /\ RowsOf(e.events, run) = RowsOf(d.events, run)
  BY DEF SameRows, FilledOrders, FillEvents, Allowed
<1>2. FilledCids(e, run) = FilledCids(d, run) /\ TradeCids(e, run) = TradeCids(d, run)
  BY <1>1 DEF FilledCids, TradeCids
<1>3. QED
  BY <1>1, <1>2 DEF Chained

\* The bounds on the rows are those of the same rows.
LEMMA SameShape ==
  ASSUME Shape, proc' \in Process, db' \in Tables, runs' = runs, orders' = orders,
         SameRows(db, db'), db'.snapshot.run <= runs
  PROVE  Shape'
  BY DEF Shape, SameRows

\* A snapshot is kept with its rows.
LEMMA SameSnapshot ==
  ASSUME NEW d, NEW e, SnapshotReplays(d), e.events = d.events, e.snapshot = d.snapshot
  PROVE  SnapshotReplays(e)
  BY DEF SnapshotReplays

\* An effect that writes no row is done, or the snapshot.
Silent ==
    /\ proc' \in Process /\ db' \in Tables /\ runs' = runs /\ orders' = orders
    /\ SameRows(db, db')
    /\ proc.agenda # <<>> /\ proc'.agenda = Tail(proc.agenda)
    /\ proc'.up = proc.up /\ proc'.op = proc.op /\ proc'.ledger = proc.ledger /\ proc'.beside = proc.beside /\ proc'.unsaved = proc.unsaved
    /\ Rank(Head(proc.agenda)) = 0 \/ Head(proc.agenda) = "snapshot"

LEMMA RankIs ==
  /\ Rank("risk") = 1 /\ Rank("fill") = 2 /\ Rank("order") = 3
  /\ Rank("trade") = 4 /\ Rank("event") = 5 /\ Rank("snapshot") = 6
  /\ \A e : Rank(e) \in Nat
BY DEF Rank

\* What a trade owes is as before.
LEMMA SilentTrading ==
  ASSUME Shape, Silent, Trading
  PROVE  Trading'
<1> DEFINE a == proc.agenda
           b == proc'.agenda
<1>1. a \in Seq(Effects) /\ a # <<>> /\ Ranked(a) /\ b = Tail(a)
  BY DEF Shape, Silent, Process, Trading
<1>2. /\ Ranked(b)
      /\ \A e \in Owed(b) : e \in Owed(a)
      /\ \A e \in Owed(a) : e # Head(a) => e \in Owed(b)
  BY <1>1, TakeRanked
<1>3. Head(a) \notin {"risk", "fill", "order", "trade", "event"}
  BY RankIs DEF Silent
<1>4. \A e \in {"risk", "fill", "order", "trade", "event"} : e \in Owed(b) <=> e \in Owed(a)
  BY <1>2, <1>3
<1> HIDE DEF a, b
<1>5. /\ "risk" \in Owed(b) <=> "risk" \in Owed(a)
      /\ "fill" \in Owed(b) <=> "fill" \in Owed(a)
      /\ "order" \in Owed(b) <=> "order" \in Owed(a)
      /\ "trade" \in Owed(b) <=> "trade" \in Owed(a)
      /\ "event" \in Owed(b) <=> "event" \in Owed(a)
  BY <1>4
<1>6. /\ proc'.op = proc.op /\ proc'.unsaved = proc.unsaved /\ runs' = runs /\ orders' = orders
      /\ db'.orders = db.orders
  BY DEF Silent, SameRows
<1>7. TheFill' = TheFill
  BY <1>6 DEF TheFill
<1>8. /\ FilledCids(db', runs') = FilledCids(db, runs)
      /\ TradeCids(db', runs') = TradeCids(db, runs)
      /\ RowsOf(db'.trades, runs') = RowsOf(db.trades, runs)
      /\ FillEvents(db', runs') = FillEvents(db, runs)
      /\ RowsOf(db'.orders, runs') = RowsOf(db.orders, runs)
      /\ Allowed(db', runs') = Allowed(db, runs)
  BY <1>6, SameViews DEF Silent
<1>9. Debts(Owed(b), proc'.op.lots) <=> Debts(Owed(a), proc.op.lots)
  BY <1>5, <1>6 DEF Debts
<1>10. QED
  BY <1>2, <1>5, <1>6, <1>7, <1>8, <1>9 DEF Trading, a, b

\* So is what a flatten owes.
LEMMA SilentResting ==
  ASSUME Shape, Silent, Resting
  PROVE  Resting'
<1> DEFINE a == proc.agenda
           b == proc'.agenda
           n == Len(proc.unsaved)
<1>1. a \in Seq(Effects) /\ a # <<>> /\ n \in Nat /\ Quiet(a, n) /\ b = Tail(a)
  BY DEF Shape, Silent, Process, Resting
<1>2. Head(a) # "event"
  BY RankIs DEF Silent
<1>3. Quiet(b, n)
  BY <1>1, <1>2, TakeQuiet
<1>4. proc'.unsaved = proc.unsaved /\ runs' = runs
  BY DEF Silent
<1>5. /\ FilledCids(db', runs') = FilledCids(db, runs)
      /\ TradeCids(db', runs') = TradeCids(db, runs)
      /\ RowsOf(db'.trades, runs') = RowsOf(db.trades, runs)
      /\ FillEvents(db', runs') = FillEvents(db, runs)
  BY <1>4, SameViews DEF Silent
<1> HIDE DEF a
<1>6. QED
  BY <1>3, <1>4, <1>5 DEF Resting

\* An effect that writes no row keeps the invariant, if the snapshot replays.
LEMMA SilentStep ==
  ASSUME TablesInv, Silent, proc.up, db'.snapshot.run <= runs, SnapshotReplays(db')
  PROVE  TablesInv'
<1>1. Shape'
  BY SameShape DEF TablesInv, Silent
<1>2. \A run \in 1..runs' : Chained(db', run)
  <2>1. runs' = runs /\ SameRows(db, db')
    BY DEF Silent
  <2>2. \A run \in 1..runs : Chained(db', run) <=> Chained(db, run)
    BY <2>1, SameViews
  <2>3. QED
    BY <2>1, <2>2 DEF TablesInv
<1>3. Owing'
  <2>1. Owing /\ Shape
    BY DEF TablesInv
  <2>2. proc.op.taken => Trading'
    BY <2>1, SilentTrading DEF Owing
  <2>3. ~proc.op.taken => Resting'
    BY <2>1, SilentResting DEF Owing
  <2>4. /\ proc'.op = proc.op /\ proc'.unsaved = proc.unsaved /\ proc'.ledger = proc.ledger /\ proc'.beside = proc.beside /\ runs' = runs
        /\ RowsOf(db'.events, runs') = RowsOf(db.events, runs)
    BY SameViews DEF Silent
  <2>5. QED
    BY <2>1, <2>2, <2>3, <2>4 DEF Owing
<1>4. QED
  BY <1>1, <1>2, <1>3 DEF TablesInv

\* The process without the effect it has just done.
LEMMA RestIs ==
  ASSUME Shape, proc.agenda # <<>>, NEW r, r = Rest
  PROVE  /\ r \in Process /\ r.agenda = Tail(proc.agenda)
         /\ r.up = proc.up /\ r.op = proc.op /\ r.ledger = proc.ledger /\ r.beside = proc.beside /\ r.unsaved = proc.unsaved
         /\ [r EXCEPT !.fresh = TRUE] \in Process
         /\ \A cause \in Causes : [r EXCEPT !.kill = cause] \in Process
<1>1. proc \in Process
  BY DEF Shape
<1>2. Tail(proc.agenda) \in Seq(Effects)
  BY <1>1 DEF Process
<1>3. r = [proc EXCEPT !.agenda = Tail(proc.agenda)]
  BY DEF Rest
<1>4. /\ r \in Process /\ r.agenda = Tail(proc.agenda)
      /\ r.up = proc.up /\ r.op = proc.op /\ r.ledger = proc.ledger /\ r.beside = proc.beside /\ r.unsaved = proc.unsaved
  BY <1>1, <1>2, <1>3 DEF Process
<1>5. /\ [r EXCEPT !.fresh = TRUE] \in Process
      /\ \A cause \in Causes : [r EXCEPT !.kill = cause] \in Process
  BY <1>4 DEF Process
<1>6. QED
  BY <1>4, <1>5

\* The effects of which no row matters: counters, memory, the dashboard.
Wordless ==
    \/ SaveFeature \/ SaveSignal \/ Trip \/ Clear \/ FlagKill \/ NameReason \/ SyncKill \/ Resync
    \/ PublishLedger \/ ShowDecision \/ ShowFeeds \/ ShowCycle

LEMMA WordlessIsSilent ==
  ASSUME Shape, Wordless
  PROVE  Silent /\ db'.snapshot = db.snapshot /\ db'.events = db.events
<1> DEFINE head == Head(proc.agenda)
           Named == {"feature", "signal", "trip", "clear", "flag", "unflag", "reason", "unreason",
                     "sync flag", "sync reason", "resync", "publish", "decision", "feeds", "cycle"}
<1>1. /\ proc.agenda # <<>> /\ head \in Named /\ runs' = runs /\ orders' = orders
      /\ db' = db \/ db' = [db EXCEPT !.features = @ + 1] \/ db' = [db EXCEPT !.signals = @ + 1]
      /\ \/ proc' = Rest
         \/ proc' = [Rest EXCEPT !.fresh = TRUE]
         \/ \E cause \in Causes : proc' = [Rest EXCEPT !.kill = cause]
  <2>1. CASE SaveFeature
    BY <2>1 DEF SaveFeature, Does, Commits, InsertOne
  <2>2. CASE SaveSignal
    BY <2>2 DEF SaveSignal, Does, InsertOne
  <2>3. CASE Trip
    <3>1. proc.op.cause \in Causes
      BY DEF Shape, Process, Operation
    <3>2. QED
      BY <2>3, <3>1 DEF Trip, Does, Remembers
  <2>4. CASE Clear
    <3>1. NoReason \in Causes
      BY DEF Causes
    <3>2. QED
      BY <2>4, <3>1 DEF Clear, Does, Remembers
  <2>5. CASE FlagKill
    BY <2>5 DEF FlagKill, Does, Sets
  <2>6. CASE NameReason
    BY <2>6 DEF NameReason, Does, Sets
  <2>7. CASE SyncKill
    BY <2>7 DEF SyncKill, Does, Sets
  <2>8. CASE Resync
    BY <2>8 DEF Resync, Does, Sets
  <2>9. CASE PublishLedger
    BY <2>9 DEF PublishLedger, Does, Shows
  <2>10. CASE ShowDecision
    BY <2>10 DEF ShowDecision, Does, Shows
  <2>11. CASE ShowFeeds
    BY <2>11 DEF ShowFeeds, Does, Shows
  <2>12. CASE ShowCycle
    BY <2>12 DEF ShowCycle, Does, Shows
  <2>13. QED
    BY <2>1, <2>2, <2>3, <2>4, <2>5, <2>6, <2>7, <2>8, <2>9, <2>10, <2>11, <2>12 DEF Wordless
<1>2. Rank(head) = 0
  <2>1. head \notin {"risk", "fill", "order", "trade", "event", "snapshot"}
    BY <1>1
  <2> HIDE DEF head
  <2>2. QED
    BY <2>1 DEF Rank
<1>3. /\ db' \in Tables /\ db'.snapshot = db.snapshot /\ SameRows(db, db')
  <2>1. db \in Tables
    BY DEF Shape
  <2>2. CASE db' = db
    BY <2>1, <2>2 DEF SameRows
  <2>3. CASE db' = [db EXCEPT !.features = @ + 1]
    <3> DEFINE k == db.features + 1
    <3>1. k \in Nat /\ db' = [db EXCEPT !.features = k]
      BY <2>1, <2>3 DEF Tables
    <3> HIDE DEF k
    <3>2. QED
      BY <2>1, <3>1 DEF Tables, SameRows
  <2>4. CASE db' = [db EXCEPT !.signals = @ + 1]
    <3> DEFINE k == db.signals + 1
    <3>1. k \in Nat /\ db' = [db EXCEPT !.signals = k]
      BY <2>1, <2>4 DEF Tables
    <3> HIDE DEF k
    <3>2. QED
      BY <2>1, <3>1 DEF Tables, SameRows
  <2>5. QED
    BY <1>1, <2>2, <2>3, <2>4
<1> DEFINE r == Rest
<1>4. /\ r \in Process /\ r.agenda = Tail(proc.agenda)
      /\ r.up = proc.up /\ r.op = proc.op /\ r.ledger = proc.ledger /\ r.beside = proc.beside /\ r.unsaved = proc.unsaved
      /\ [r EXCEPT !.fresh = TRUE] \in Process
      /\ \A cause \in Causes : [r EXCEPT !.kill = cause] \in Process
  BY <1>1, RestIs
<1>5. \/ proc' = r
      \/ proc' = [r EXCEPT !.fresh = TRUE]
      \/ \E cause \in Causes : proc' = [r EXCEPT !.kill = cause]
  BY <1>1
<1> HIDE DEF r
<1>6. /\ proc' \in Process /\ proc'.agenda = Tail(proc.agenda)
      /\ proc'.up = proc.up /\ proc'.op = proc.op /\ proc'.ledger = proc.ledger
      /\ proc'.beside = proc.beside /\ proc'.unsaved = proc.unsaved
  BY <1>4, <1>5 DEF Process
<1>7. Silent
  BY <1>1, <1>2, <1>3, <1>6 DEF Silent
<1>8. QED
  BY <1>3, <1>7 DEF SameRows

LEMMA WordlessStep ==
  ASSUME TablesInv, proc.up, Wordless
  PROVE  TablesInv'
<1>1. Shape /\ SnapshotReplays(db) /\ db.snapshot.run <= runs
  BY DEF TablesInv, Shape
<1>2. Silent /\ db'.snapshot = db.snapshot /\ db'.events = db.events
  BY <1>1, WordlessIsSilent
<1>3. SnapshotReplays(db')
  BY <1>1, <1>2, SameSnapshot
<1>4. QED
  BY <1>1, <1>2, <1>3, SilentStep

\* When nothing waits to be stored, the stored events have the book of the ledger.
LEMMA NothingWaits ==
  ASSUME Shape, Owing, proc.unsaved = <<>>
  PROVE  SameBookBut(Replayed(RowsOf(db.events, runs)), proc.ledger, proc.beside)
<1> DEFINE rows == RowsOf(db.events, runs)
<1>1. db.events \in Seq(Row)
  BY DEF Shape, Tables
<1>2. rows \in Seq(Row)
  BY <1>1, SelectType DEF RowsOf
<1> HIDE DEF rows
<1>3. rows \o <<>> = rows
  BY <1>2
<1>4. QED
  BY <1>3 DEF Owing, rows

\* The snapshot is saved after every event of its operation.
LEMMA SnapshotStep ==
  ASSUME TablesInv, proc.up, SaveLedgerSnapshot
  PROVE  TablesInv'
<1>1. Shape /\ Owing /\ proc \in Process /\ db \in Tables /\ runs \in 1..MaxRuns
  BY DEF TablesInv, Shape
<1>2. /\ proc.agenda # <<>> /\ Head(proc.agenda) = "snapshot" /\ runs' = runs /\ orders' = orders
      /\ proc' = Rest
      /\ db' = [db EXCEPT !.snapshot = [run |-> runs, ledger |-> proc.ledger, events |-> proc.events,
                                       beside |-> proc.beside]]
  BY DEF SaveLedgerSnapshot, Does, Commits, SaveSnapshot
<1>3. proc.unsaved = <<>>
  <2> DEFINE a == proc.agenda
  <2>1. a \in Seq(Effects) /\ a # <<>> /\ Head(a) = "snapshot" /\ proc.unsaved \in Seq(Row)
    BY <1>1, <1>2 DEF Process
  <2>2. CASE proc.op.taken
    <3>1. Trading /\ Ranked(a)
      BY <1>1, <2>2 DEF Owing, Trading
    <3> HIDE DEF a
    <3>2. \A e \in Owed(a) : Rank(e) = 0 \/ 6 <= Rank(e)
      BY <2>1, <3>1, TakeRanked, RankIs
    <3>3. "event" \notin Owed(a)
      BY <3>2, RankIs
    <3>4. QED
      BY <3>1, <3>3 DEF Trading, a
  <2>3. CASE ~proc.op.taken
    <3>1. Quiet(a, Len(proc.unsaved)) /\ Len(proc.unsaved) \in Nat
      BY <1>1, <2>1, <2>3 DEF Owing, Resting
    <3> HIDE DEF a
    <3>2. Len(proc.unsaved) = 0
      BY <2>1, <3>1, TakeQuiet
    <3>3. QED
      BY <2>1, <3>2
  <2>4. QED
    BY <1>1, <2>2, <2>3
<1>4. /\ db' \in Tables /\ SameRows(db, db') /\ db'.snapshot.run = runs
      /\ db'.snapshot.ledger = proc.ledger /\ db'.snapshot.beside = proc.beside /\ db'.events = db.events
  <2>1. [run |-> runs, ledger |-> proc.ledger, events |-> proc.events, beside |-> proc.beside] \in Snapshot
    BY <1>1 DEF Snapshot, Process
  <2>2. QED
    BY <1>1, <1>2, <2>1 DEF Tables, SameRows
<1>5. Silent
  <2> DEFINE r == Rest
  <2>1. /\ r \in Process /\ r.agenda = Tail(proc.agenda)
        /\ r.up = proc.up /\ r.op = proc.op /\ r.ledger = proc.ledger /\ r.beside = proc.beside /\ r.unsaved = proc.unsaved
    BY <1>1, <1>2, RestIs
  <2> HIDE DEF r
  <2>2. proc' = r
    BY <1>2 DEF r
  <2>3. QED
    BY <1>2, <1>4, <2>1, <2>2 DEF Silent
<1>6. SnapshotReplays(db')
  <2> DEFINE rows == RowsOf(db.events, runs)
  <2>1. SameBookBut(Replayed(rows), proc.ledger, proc.beside)
    BY <1>1, <1>3, NothingWaits
  <2>2. Len(rows) \in Nat
    <3>1. db.events \in Seq(Row)
      BY <1>1 DEF Tables
    <3>2. rows \in Seq(Row)
      BY <3>1, SelectType DEF RowsOf
    <3>3. QED
      BY <3>2
  <2>3. RowsOf(db'.events, db'.snapshot.run) = rows
    BY <1>4
  <2> HIDE DEF rows
  <2>4. Len(rows) \in 0..Len(rows) /\ SameBookBut(ReplayedTo(rows, Len(rows)), db'.snapshot.ledger, db'.snapshot.beside)
    BY <1>4, <2>1, <2>2 DEF Replayed
  <2>5. QED
    BY <2>3, <2>4 DEF SnapshotReplays
<1>7. db'.snapshot.run <= runs
  BY <1>1, <1>4
<1>8. QED
  BY <1>5, <1>6, <1>7, SilentStep

-----------------------------------------------------------------------------
(* Steps that write a row of a trade or of a flatten *)

\* the effects of a trade that its invariant speaks of
Key == {"risk", "fill", "order", "trade", "event"}

\* A key effect of a trade is done: it is owed no longer, and what came before it
\* is not owed either.
LEMMA KeyDone ==
  ASSUME Shape, Trading, proc.agenda # <<>>, Head(proc.agenda) \in Key, proc'.agenda = Tail(proc.agenda)
  PROVE  /\ Ranked(proc'.agenda) /\ Head(proc.agenda) \in Owed(proc.agenda)
         /\ \A e \in Key : e \in Owed(proc'.agenda) <=> e \in Owed(proc.agenda) /\ e # Head(proc.agenda)
         /\ \A e \in Key : Rank(e) < Rank(Head(proc.agenda)) => e \notin Owed(proc.agenda)
<1> DEFINE a == proc.agenda
           b == proc'.agenda
           h == Head(a)
<1>1. a \in Seq(Effects) /\ a # <<>> /\ Ranked(a) /\ b = Tail(a) /\ h \in Key
  BY DEF Shape, Process, Trading
<1> HIDE DEF a, b
<1>2. Rank(h) > 0 /\ Rank(h) \in Nat /\ \A e \in Key : Rank(e) \in Nat /\ Rank(e) > 0
  BY <1>1, RankIs DEF Key
<1>3. /\ Ranked(b) /\ h \in Owed(a) /\ h \notin Owed(b)
      /\ \A e \in Owed(b) : e \in Owed(a)
      /\ \A e \in Owed(a) : e # h => e \in Owed(b)
      /\ \A e \in Owed(a) : Rank(e) = 0 \/ Rank(h) <= Rank(e)
  BY <1>1, <1>2, TakeRanked
<1>4. \A e \in Key : e \in Owed(b) <=> e \in Owed(a) /\ e # h
  BY <1>3
<1>5. ASSUME NEW e \in Key, Rank(e) < Rank(h) PROVE e \notin Owed(a)
  BY <1>2, <1>3, <1>5
<1>6. QED
  BY <1>3, <1>4, <1>5 DEF a, b

\* Only a trade fills, saves an order or a trade.
LEMMA OnlyTrades ==
  ASSUME Shape, Owing, proc.agenda # <<>>, Head(proc.agenda) \in {"fill", "order", "trade"}
  PROVE  proc.op.taken /\ Trading
<1>1. proc.agenda \in Seq(Effects) /\ proc.unsaved \in Seq(Row) /\ proc.op.taken \in BOOLEAN
  BY DEF Shape, Process, Operation
<1>2. CASE ~proc.op.taken
  <2>1. Quiet(proc.agenda, Len(proc.unsaved)) /\ Len(proc.unsaved) \in Nat
    BY <1>1, <1>2 DEF Owing, Resting
  <2>2. QED
    BY <1>1, <2>1, TakeQuiet
<1>3. QED
  BY <1>1, <1>2 DEF Owing

\* Views have the types of their tables.
LEMMA ViewTypes ==
  ASSUME NEW d \in Tables, NEW run
  PROVE  /\ RowsOf(d.events, run) \in Seq(Row) /\ RowsOf(d.trades, run) \in Seq(Row)
         /\ RowsOf(d.orders, run) \in Seq(StoredOrder) /\ FilledOrders(d, run) \in Seq(StoredOrder)
         /\ FillEvents(d, run) \in Seq(Row) /\ Allowed(d, run) \in Seq(Decision)
         /\ TradeCids(d, run) \in Seq(Int) /\ FilledCids(d, run) \in Seq(Int)
<1>1. /\ d.events \in Seq(Row) /\ d.trades \in Seq(Row) /\ d.orders \in Seq(StoredOrder)
      /\ d.risk \in Seq(Decision)
  BY DEF Tables
<1>2. /\ RowsOf(d.events, run) \in Seq(Row) /\ RowsOf(d.trades, run) \in Seq(Row)
      /\ RowsOf(d.orders, run) \in Seq(StoredOrder)
  BY <1>1, SelectType DEF RowsOf
<1>3. FilledOrders(d, run) \in Seq(StoredOrder)
  BY <1>1, SelectType DEF FilledOrders
<1>4. FillEvents(d, run) \in Seq(Row)
  BY <1>1, SelectType DEF FillEvents
<1>5. Allowed(d, run) \in Seq(Decision)
  BY <1>1, SelectType DEF Allowed
<1>6. ASSUME NEW rows, rows \in Seq(Row) \/ rows \in Seq(StoredOrder) PROVE CidsOf(rows) \in Seq(Int)
  <2>1. MaxOrders \in Nat
    BY OutputsAssumption
  <2>2. \A i \in 1..Len(rows) : rows[i].cid \in Int
    <3>1. CASE rows \in Seq(Row)
      <4>1. \A row \in Row : row.cid \in Int
        BY <2>1 DEF Row
      <4> QED
        BY <3>1, <4>1
    <3>2. CASE rows \in Seq(StoredOrder)
      <4>1. \A row \in StoredOrder : row.cid \in Int
        BY <2>1 DEF StoredOrder
      <4> QED
        BY <3>2, <4>1
    <3>3. QED
      BY <1>6, <3>1, <3>2
  <2>3. Len(rows) \in Nat /\ DOMAIN rows = 1..Len(rows)
    BY <1>6
  <2>4. QED
    BY <2>2, <2>3 DEF CidsOf
<1>7. TradeCids(d, run) \in Seq(Int) /\ FilledCids(d, run) \in Seq(Int)
  BY <1>2, <1>3, <1>6 DEF TradeCids, FilledCids
<1>8. QED
  BY <1>2, <1>3, <1>4, <1>5, <1>7

\* The decision of the risk engine is written first: what it allows, an order may use.
LEMMA RiskStep ==
  ASSUME TablesInv, proc.up, SaveRisk
  PROVE  TablesInv'
<1> DEFINE row == RiskRow
           a == proc.agenda
           b == proc'.agenda
           lots == proc.op.lots
<1>1. Shape /\ Owing /\ proc \in Process /\ db \in Tables /\ runs \in 1..MaxRuns /\ proc.op.taken \in BOOLEAN
  BY DEF TablesInv, Shape, Process, Operation
<1>2. /\ a # <<>> /\ Head(a) = "risk" /\ runs' = runs /\ orders' = orders /\ proc' = Rest
      /\ db' = [db EXCEPT !["risk"] = Append(db.risk, row)]
  BY DEF SaveRisk, Does, Commits, Insert
<1>3. row \in Decision /\ row.run = runs /\ row.allowed = proc.op.taken
  BY <1>1 DEF RiskRow, Decision
<1> HIDE DEF row
<1>4. db.risk \in Seq(Decision) /\ Append(db.risk, row) \in Seq(Decision)
  BY <1>1, <1>3 DEF Tables
<1>5. /\ db' \in Tables /\ db'.risk = Append(db.risk, row) /\ db'.orders = db.orders
      /\ db'.trades = db.trades /\ db'.events = db.events /\ db'.snapshot = db.snapshot
  BY <1>1, <1>2, <1>4 DEF Tables
<1>6. /\ proc' \in Process /\ proc'.agenda = Tail(a) /\ proc'.up = proc.up /\ proc'.op = proc.op
      /\ proc'.ledger = proc.ledger /\ proc'.beside = proc.beside /\ proc'.unsaved = proc.unsaved
  BY <1>1, <1>2, RestIs
<1>7. Shape'
  <2>1. \A i \in 1..Len(db'.risk) : db'.risk[i].run <= runs
    <3>1. \A i \in 1..Len(db.risk) : db.risk[i].run <= runs
      BY <1>1 DEF Shape
    <3>2. \A i \in 1..Len(db'.risk) : (i \in 1..Len(db.risk) /\ db'.risk[i] = db.risk[i]) \/ db'.risk[i] = row
      BY <1>4, <1>5
    <3>3. QED
      BY <1>1, <1>3, <3>1, <3>2
  <2>2. QED
    BY <1>1, <1>2, <1>5, <1>6, <2>1 DEF Shape
<1>8. ASSUME NEW run
      PROVE  /\ FilledCids(db', run) = FilledCids(db, run) /\ TradeCids(db', run) = TradeCids(db, run)
             /\ FillEvents(db', run) = FillEvents(db, run)
             /\ RowsOf(db'.trades, run) = RowsOf(db.trades, run)
             /\ RowsOf(db'.orders, run) = RowsOf(db.orders, run)
             /\ RowsOf(db'.events, run) = RowsOf(db.events, run)
             /\ Len(Allowed(db', run)) = Len(Allowed(db, run)) + (IF run = runs /\ proc.op.taken THEN 1 ELSE 0)
             /\ Len(RowsOf(db.orders, run)) \in Nat /\ Len(Allowed(db, run)) \in Nat
  <2>1. Allowed(db', run) = IF row.run = run /\ row.allowed THEN Append(Allowed(db, run), row) ELSE Allowed(db, run)
    <3> DEFINE d == db
               e == db'
    <3>1. d.risk \in Seq(Decision) /\ e.risk = Append(d.risk, row) /\ row.allowed \in BOOLEAN
      BY <1>1, <1>3, <1>4, <1>5 DEF Decision
    <3> HIDE DEF d, e
    <3>2. AllowedGrows(d, e, row, run)
      BY <3>1, AllowedAppend
    <3>3. QED
      BY <3>2 DEF d, e, AllowedGrows
  <2>2. Allowed(db, run) \in Seq(Decision) /\ RowsOf(db.orders, run) \in Seq(StoredOrder)
    BY <1>1, ViewTypes
  <2>3. Len(Allowed(db', run)) = Len(Allowed(db, run)) + (IF run = runs /\ proc.op.taken THEN 1 ELSE 0)
    BY <1>3, <2>1, <2>2
  <2>4. QED
    BY <1>5, <2>2, <2>3 DEF FilledCids, TradeCids, FilledOrders, FillEvents
<1>9. \A run \in 1..runs' : Chained(db', run)
  <2>1. \A run \in 1..runs : Chained(db, run)
    BY DEF TablesInv
  <2>2. SUFFICES ASSUME NEW run \in 1..runs PROVE Chained(db', run)
    BY <1>2
  <2>3. Len(RowsOf(db.orders, run)) <= Len(Allowed(db, run))
    BY <2>1 DEF Chained
  <2>4. Len(RowsOf(db'.orders, run)) <= Len(Allowed(db', run))
    BY <1>8, <2>3
  <2>5. QED
    BY <1>8, <2>1, <2>4 DEF Chained
<1>10. SnapshotReplays(db')
  BY <1>5, SameSnapshot DEF TablesInv
<1>11. proc.op.taken => Trading'
  <2>1. SUFFICES ASSUME proc.op.taken PROVE Trading'
    OBVIOUS
  <2>2. Trading
    BY <1>1, <2>1 DEF Owing
  <2>3. /\ Ranked(b)
        /\ \A e \in Key : e \in Owed(b) <=> e \in Owed(a) /\ e # "risk"
    BY <1>1, <1>2, <1>6, <2>2, KeyDone DEF Key
  <2> HIDE DEF a, b
  <2>4. /\ "risk" \notin Owed(b)
        /\ "fill" \in Owed(b) <=> "fill" \in Owed(a)
        /\ "order" \in Owed(b) <=> "order" \in Owed(a)
        /\ "trade" \in Owed(b) <=> "trade" \in Owed(a)
        /\ "event" \in Owed(b) <=> "event" \in Owed(a)
    BY <2>3 DEF Key
  <2>5. Debts(Owed(b), lots)
    BY <2>2, <2>4 DEF Debts, Trading, a
  <2>6. Len(RowsOf(db'.orders, runs')) < Len(Allowed(db', runs'))
    <3>1. Chained(db, runs)
      BY <1>1 DEF TablesInv
    <3> DEFINE m == Len(RowsOf(db.orders, runs))
               k == Len(Allowed(db, runs))
    <3>2. m <= k
      BY <3>1 DEF Chained
    <3>3. /\ Len(RowsOf(db'.orders, runs')) = m /\ Len(Allowed(db', runs')) = k + 1
          /\ m \in Nat /\ k \in Nat
      <4>1. RowsOf(db'.orders, runs) = RowsOf(db.orders, runs)
        BY <1>8
      <4>2. Len(Allowed(db', runs)) = k + 1 /\ m \in Nat /\ k \in Nat
        BY <1>8, <2>1
      <4>3. QED
        BY <1>2, <4>1, <4>2
    <3> HIDE DEF m, k
    <3>4. QED
      BY <3>2, <3>3
  <2>7. TheFill' = TheFill
    BY <1>2, <1>6 DEF TheFill
  <2>8. QED
    BY <1>2, <1>5, <1>6, <1>8, <2>2, <2>3, <2>4, <2>5, <2>6, <2>7 DEF Trading, a, b
<1>12. ~proc.op.taken => Resting'
  <2>1. SUFFICES ASSUME ~proc.op.taken PROVE Resting'
    OBVIOUS
  <2>2. Resting /\ proc.unsaved \in Seq(Row) /\ a \in Seq(Effects)
    BY <1>1, <2>1 DEF Owing, Process
  <2>3. Quiet(Tail(a), Len(proc.unsaved))
    <3> DEFINE n == Len(proc.unsaved)
    <3>1. n \in Nat /\ Quiet(a, n) /\ Head(a) # "event" /\ a # <<>>
      BY <1>2, <2>2 DEF Resting
    <3> HIDE DEF n, a
    <3>2. Quiet(Tail(a), n)
      BY <2>2, <3>1, TakeQuiet
    <3>3. QED
      BY <3>2 DEF n, a
  <2>4. QED
    BY <1>2, <1>6, <1>8, <2>2, <2>3 DEF Resting
<1>13. Owing'
  BY <1>1, <1>2, <1>6, <1>8, <1>11, <1>12 DEF Owing
<1>14. QED
  BY <1>7, <1>9, <1>10, <1>13 DEF TablesInv

\* A fill is booked in memory, and its event waits to be stored.
LEMMA FillStep ==
  ASSUME TablesInv, proc.up, Fill
  PROVE  TablesInv'
<1> DEFINE a == proc.agenda
           b == proc'.agenda
           op == proc.op
           r == Rest
           row == FillRow(runs, orders + 1, op.token, op.lots, op.price)
           rows == RowsOf(db.events, runs)
           l == proc.ledger
           m == ApplyFill(l, op.token, "BUY", op.lots, op.price, 0)
<1>1. Shape /\ Owing /\ proc \in Process /\ db \in Tables /\ runs \in 1..MaxRuns /\ orders \in 0..MaxOrders
  BY DEF TablesInv, Shape
<1>2. /\ a # <<>> /\ Head(a) = "fill" /\ runs' = runs /\ orders' = orders + 1 /\ db' = db
      /\ op.lots = 0 => proc' = r
      /\ op.lots # 0 => proc' = [r EXCEPT !.ledger = ApplyFill(r.ledger, op.token, "BUY", op.lots, op.price, 0),
                                          !.events = r.events + 1, !.unsaved = <<row>>]
  BY DEF Fill, Does, Remembers
<1>3. /\ r \in Process /\ r.agenda = Tail(a) /\ r.up = proc.up /\ r.op = op
      /\ r.ledger = l /\ r.beside = proc.beside /\ r.unsaved = proc.unsaved
  BY <1>1, <1>2, RestIs
<1> HIDE DEF r
<1>4. op.taken /\ Trading
  BY <1>1, <1>2, OnlyTrades
<1>5. /\ op.token \in Tokens /\ op.lots \in Nat /\ op.lots \in Lots /\ op.price \in Nat \ {0} /\ op.price \in Prices
      /\ MaxOrders \in Nat /\ MaxRuns \in Nat
  BY <1>1, <1>4, OutputsAssumption DEF Process, Operation, Trading
<1>6. SoundLedger(l) /\ rows \in Seq(Row)
  BY <1>1, ViewTypes DEF Owing
<1>7. SoundLedger(m) /\ m \in LedgerType
  <2>1. "BUY" \in Sides /\ 0 \in Nat
    BY DEF Sides
  <2> HIDE DEF m, l, op
  <2>2. m = ApplyFill(l, op.token, "BUY", op.lots, op.price, 0)
    BY DEF m
  <2>3. SoundLedger(m)
    BY <1>5, <1>6, <2>1, <2>2, FillPeak
  <2>4. QED
    BY <2>3 DEF SoundLedger
<1>8. "fill" \in Owed(a) /\ orders < MaxOrders /\ proc.unsaved = <<>> /\ "order" \in Owed(a)
  <2>1. "fill" \in Owed(a)
    <3>1. a \in Seq(Effects) /\ Ranked(a)
      BY <1>1, <1>4 DEF Process, Trading
    <3> HIDE DEF a
    <3>2. QED
      BY <1>2, <3>1, TakeRanked
  <2>2. QED
    BY <1>4, <2>1 DEF Trading, Debts
<1>9. op.lots # 0 => row \in Row
  <2>1. orders + 1 \in 0..MaxOrders
    BY <1>1, <1>5, <1>8
  <2>2. "BUY" \in Sides
    BY DEF Sides
  <2> HIDE DEF op
  <2>3. QED
    BY <1>1, <1>5, <2>1, <2>2 DEF FillRow, Row
<1> DEFINE u == IF op.lots = 0 THEN <<>> ELSE <<row>>
           k == IF op.lots = 0 THEN l ELSE m
<1>10. /\ proc' \in Process /\ b = Tail(a) /\ proc'.up = proc.up /\ proc'.op = op
       /\ proc'.ledger = k /\ proc'.beside = proc.beside /\ proc'.unsaved = u
  <2>1. CASE op.lots = 0
    BY <1>2, <1>3, <1>8, <2>1
  <2>2. CASE op.lots # 0
    <3>1. <<row>> \in Seq(Row)
      BY <1>9, <2>2
    <3> HIDE DEF row, m, op, l
    <3>2. r.events + 1 \in Nat
      BY <1>3 DEF Process
    <3>3. proc' = [r EXCEPT !.ledger = m, !.events = r.events + 1, !.unsaved = <<row>>]
      BY <1>2, <1>3, <2>2 DEF m
    <3> DEFINE x == r.events + 1
               y == <<row>>
    <3> HIDE DEF x, y
    <3>4. proc' = [r EXCEPT !.ledger = m, !.events = x, !.unsaved = y] /\ x \in Nat /\ y \in Seq(Row)
      BY <3>1, <3>2, <3>3 DEF x, y
    <3>5. /\ proc' \in Process /\ proc'.agenda = r.agenda /\ proc'.up = r.up /\ proc'.op = r.op
          /\ proc'.ledger = m /\ proc'.beside = r.beside /\ proc'.unsaved = y
      BY <1>3, <1>7, <3>4 DEF Process
    <3>6. QED
      BY <1>3, <2>2, <3>5 DEF y
  <2>3. QED
    BY <2>1, <2>2
<1>11. SoundLedger(k)
  BY <1>6, <1>7
<1>12. SameBookBut(Replayed(rows \o u), k, proc.beside)
  <2>1. SameBookBut(Replayed(rows), l, proc.beside)
    BY <1>1, <1>8, NothingWaits
  <2>2. CASE op.lots = 0
    <3>1. rows \o <<>> = rows
      BY <1>6
    <3> HIDE DEF rows, l
    <3>2. QED
      BY <2>1, <2>2, <3>1
  <2>3. CASE op.lots # 0
    <3> DEFINE n == Len(rows)
               all == rows \o <<row>>
               x == ReplayedTo(rows, n)
               y == ReplayedTo(all, n + 1)
    <3>1. n \in Nat /\ Len(all) = n + 1 /\ all[n + 1] = row /\ \A i \in 1..n : all[i] = rows[i]
      BY <1>6
    <3> HIDE DEF all, rows, row
    <3>2. x = ReplayedTo(all, n)
      BY <3>1, ReplayPrefix
    <3>3. y = Booked(x, all[n + 1])
      BY <3>1, <3>2, ReplayNext
    <3>4. SoundLedger(x)
      <4>1. \A i \in 1..n : Bookable(rows[i])
        <5>1. \A z \in Row : Bookable(z)
          BY OutputsAssumption DEF Row, Bookable
        <5>2. QED
          BY <1>6, <5>1
      <4>2. QED
        BY <3>1, <4>1, ReplaySound
    <3>5. SameBookBut(x, l, proc.beside)
      BY <2>1 DEF Replayed
    <3> HIDE DEF x, y, op, l
    <3>6. y = ApplyFill(x, op.token, "BUY", op.lots, op.price, 0)
      BY <3>1, <3>3 DEF Booked, row, FillRow
    <3>7. m = ApplyFill(l, op.token, "BUY", op.lots, op.price, 0) /\ "BUY" \in Sides
      BY DEF Sides
    <3> DEFINE made == proc.beside
    <3>8. made \in Int /\ SameBookBut(x, l, made)
      BY <3>5 DEF Shape, Process, TablesInv
    <3> HIDE DEF m, made
    <3>9. SameBookBut(y, m, made)
      BY <1>5, <1>6, <3>4, <3>6, <3>7, <3>8, SameBookFill
    <3>10. Replayed(all) = y
      BY <3>1 DEF Replayed, y
    <3>11. QED
      BY <2>3, <3>9, <3>10 DEF all, made
  <2>4. QED
    BY <2>2, <2>3
<1>13. Shape'
  <2>1. orders' \in 0..MaxOrders /\ orders <= orders'
    BY <1>1, <1>2, <1>5, <1>8
  <2>2. \A i \in 1..Len(db.orders) : db.orders[i].run <= runs /\ db.orders[i].cid <= orders'
    <3>1. \A i \in 1..Len(db.orders) : db.orders[i].run <= runs /\ db.orders[i].cid <= orders
      BY <1>1 DEF Shape
    <3>2. \A i \in 1..Len(db.orders) : db.orders[i].cid \in Int
      <4>1. db.orders \in Seq(StoredOrder) /\ \A o \in StoredOrder : o.cid \in Int
        BY <1>1, <1>5 DEF Tables, StoredOrder
      <4>2. QED
        BY <4>1
    <3>3. QED
      BY <1>1, <2>1, <3>1, <3>2
  <2>3. QED
    BY <1>1, <1>2, <1>10, <2>1, <2>2 DEF Shape
<1>14. Trading'
  <2>1. /\ Ranked(b)
        /\ \A e \in Key : e \in Owed(b) <=> e \in Owed(a) /\ e # "fill"
        /\ "risk" \notin Owed(a)
    <3>1. /\ Ranked(b)
          /\ \A e \in Key : e \in Owed(b) <=> e \in Owed(a) /\ e # "fill"
          /\ \A e \in Key : Rank(e) < Rank("fill") => e \notin Owed(a)
      BY <1>1, <1>2, <1>4, <1>10, KeyDone DEF Key
    <3>2. "risk" \in Key
      BY DEF Key
    <3>3. QED
      BY <3>1, <3>2, RankIs
  <2> HIDE DEF a, b
  <2>2. /\ "risk" \notin Owed(b) /\ "fill" \notin Owed(b)
        /\ "order" \in Owed(b)
        /\ "trade" \in Owed(b) <=> "trade" \in Owed(a)
        /\ "event" \in Owed(b) <=> "event" \in Owed(a)
    BY <1>8, <2>1 DEF Key
  <2>3. /\ op.lots > 0 => "trade" \in Owed(a) /\ "event" \in Owed(a)
        /\ op.lots = 0 => "event" \notin Owed(a)
        /\ "trade" \in Owed(a) => "event" \in Owed(a)
    BY <1>4, <1>8 DEF Trading, Debts, a
  <2>4. Debts(Owed(b), op.lots)
    BY <2>2, <2>3 DEF Debts
  <2>5. TheFill' = row
    BY <1>2, <1>10 DEF TheFill
  <2>6. /\ FilledCids(db, runs) = TradeCids(db, runs)
        /\ RowsOf(db.trades, runs) = FillEvents(db, runs)
        /\ Len(RowsOf(db.orders, runs)) < Len(Allowed(db, runs))
    <3>1. op.lots = 0 \/ op.lots > 0
      BY <1>5
    <3>2. QED
      BY <1>4, <1>8, <2>1, <2>3, <3>1 DEF Trading, a
  <2>7. orders' > 0 /\ \A i \in 1..Len(db.orders) : db.orders[i].cid < orders'
    <3>1. \A i \in 1..Len(db.orders) : db.orders[i].cid <= orders
      BY <1>1 DEF Shape
    <3>2. \A i \in 1..Len(db.orders) : db.orders[i].cid \in Int
      <4>1. db.orders \in Seq(StoredOrder) /\ \A o \in StoredOrder : o.cid \in Int
        BY <1>1, <1>5 DEF Tables, StoredOrder
      <4>2. QED
        BY <4>1
    <3>3. QED
      BY <1>1, <1>2, <3>1, <3>2
  <2>8. /\ "event" \notin Owed(b) => proc'.unsaved = <<>>
        /\ "event" \in Owed(b) => proc'.unsaved = <<row>>
    <3>1. op.lots = 0 \/ op.lots > 0
      BY <1>5
    <3> HIDE DEF row, op
    <3>2. QED
      BY <1>5, <1>10, <2>2, <2>3, <3>1
  <2> HIDE DEF row
  <2>9. /\ proc'.op.lots \in Lots /\ proc'.op.price \in Prices
        /\ Ranked(b) /\ Debts(Owed(b), proc'.op.lots)
    BY <1>5, <1>10, <2>1, <2>4
  <2>10. /\ FilledCids(db', runs') = TradeCids(db', runs')
         /\ RowsOf(db'.trades, runs') = FillEvents(db', runs')
         /\ Len(RowsOf(db'.orders, runs')) < Len(Allowed(db', runs'))
         /\ \A i \in 1..Len(db'.orders) : db'.orders[i].cid < orders'
    BY <1>2, <2>6, <2>7
  <2>11. "trade" \notin Owed(b) => "event" \notin Owed(b)
    <3>1. op.lots = 0 \/ op.lots > 0
      BY <1>5
    <3>2. QED
      BY <2>2, <2>3, <3>1
  <2>12. QED
    BY <2>2, <2>5, <2>7, <2>8, <2>9, <2>10, <2>11 DEF Trading, b
<1>15. Owing'
  <2>1. \A i \in 1..Len(u) : u[i].run = runs
    BY DEF FillRow
  <2> HIDE DEF u, k
  <2>2. proc'.op.taken
    BY <1>4, <1>10
  <2>3. RowsOf(db'.events, runs') = rows
    BY <1>2
  <2> HIDE DEF rows
  <2>4. QED
    BY <1>2, <1>10, <1>11, <1>12, <1>14, <2>1, <2>2, <2>3 DEF Owing
<1>16. QED
  <2>1. \A run \in 1..runs' : Chained(db', run)
    BY <1>2 DEF TablesInv
  <2>2. SnapshotReplays(db')
    BY <1>2 DEF TablesInv
  <2>3. QED
    BY <1>13, <1>15, <2>1, <2>2 DEF TablesInv

\* The order is saved as a row of its own; a filled one is a trade that is not written yet.
LEMMA OrderStep ==
  ASSUME TablesInv, proc.up, SaveOrderRow
  PROVE  TablesInv'
<1> DEFINE a == proc.agenda
           b == proc'.agenda
           op == proc.op
           row == OrderRow
           table == db.orders
<1>1. Shape /\ Owing /\ proc \in Process /\ db \in Tables /\ runs \in 1..MaxRuns /\ orders \in 0..MaxOrders
  BY DEF TablesInv, Shape
<1>2. /\ a # <<>> /\ Head(a) = "order" /\ runs' = runs /\ orders' = orders /\ proc' = Rest
      /\ db' = SaveOrder(db, row)
  BY DEF SaveOrderRow, Does, Commits
<1>3. /\ proc' \in Process /\ b = Tail(a) /\ proc'.up = proc.up /\ proc'.op = op
      /\ proc'.ledger = proc.ledger /\ proc'.beside = proc.beside /\ proc'.unsaved = proc.unsaved
  BY <1>1, <1>2, RestIs
<1>4. op.taken /\ Trading
  BY <1>1, <1>2, OnlyTrades
<1>5. /\ op.token \in Tokens /\ op.lots \in Nat /\ op.lots \in Lots
      /\ MaxOrders \in Nat /\ MaxRuns \in Nat
  BY <1>1, <1>4, OutputsAssumption DEF Process, Operation, Trading
<1>6. row \in StoredOrder /\ row.run = runs /\ row.cid = orders /\ row.filled = op.lots
  BY <1>1, <1>5 DEF OrderRow, StoredOrder
<1>7. /\ Ranked(b) /\ "order" \in Owed(a)
      /\ \A e \in Key : e \in Owed(b) <=> e \in Owed(a) /\ e # "order"
      /\ "risk" \notin Owed(a) /\ "fill" \notin Owed(a)
  <2>1. /\ Ranked(b) /\ "order" \in Owed(a)
        /\ \A e \in Key : e \in Owed(b) <=> e \in Owed(a) /\ e # "order"
        /\ \A e \in Key : Rank(e) < Rank("order") => e \notin Owed(a)
    BY <1>1, <1>2, <1>3, <1>4, KeyDone DEF Key
  <2>2. "risk" \in Key /\ "fill" \in Key
    BY DEF Key
  <2>3. QED
    BY <2>1, <2>2, RankIs
<1> HIDE DEF row
<1>8. \A i \in 1..Len(table) : table[i].cid < orders
  BY <1>4, <1>7 DEF Trading
<1>9. /\ table \in Seq(StoredOrder) /\ Append(table, row) \in Seq(StoredOrder)
      /\ db' = [db EXCEPT !.orders = Append(table, row)]
  <2>1. table \in Seq(StoredOrder)
    BY <1>1 DEF Tables
  <2>2. \A i \in 1..Len(table) : table[i].cid # row.cid
    <3>1. \A i \in 1..Len(table) : table[i].cid \in Int
      <4>1. \A o \in StoredOrder : o.cid \in Int
        BY <1>5 DEF StoredOrder
      <4>2. QED
        BY <2>1, <4>1
    <3>2. QED
      BY <1>1, <1>6, <1>8, <3>1
  <2> HIDE DEF table
  <2> DEFINE cid == row.cid
  <2> HIDE DEF cid
  <2>3. Select(table, {i \in DOMAIN table : table[i].cid # cid}) = table
    <3>1. \A i \in 1..Len(table) : table[i].cid # cid
      BY <2>2 DEF cid
    <3>2. QED
      BY <2>1, <3>1, SaveOrderAppends
  <2>4. db' = [db EXCEPT !.orders = Append(Select(table, {i \in DOMAIN table : table[i].cid # cid}), row)]
    BY <1>2 DEF SaveOrder, table, cid
  <2>5. QED
    BY <1>6, <2>1, <2>3, <2>4
<1>10. /\ db' \in Tables /\ db'.orders = Append(table, row) /\ db'.risk = db.risk
       /\ db'.trades = db.trades /\ db'.events = db.events /\ db'.snapshot = db.snapshot
  BY <1>1, <1>9 DEF Tables
<1>10a. ASSUME NEW run
        PROVE  FilledOrders(db', run) = IF row.run = run /\ row.filled > 0 THEN Append(FilledOrders(db, run), row)
                                        ELSE FilledOrders(db, run)
  <2> DEFINE d == db
             e == db'
  <2>1. d.orders \in Seq(StoredOrder) /\ e.orders = Append(d.orders, row)
    BY <1>9, <1>10
  <2> HIDE DEF d, e
  <2>2. FilledGrow(d, e, row, run)
    BY <2>1, FilledAppend
  <2>3. QED
    BY <2>2 DEF d, e, FilledGrow
<1>11. Shape'
  <2>1. \A i \in 1..Len(db'.orders) : db'.orders[i].run <= runs /\ db'.orders[i].cid <= orders
    <3>1. \A i \in 1..Len(table) : table[i].run <= runs /\ table[i].cid <= orders
      BY <1>1 DEF Shape
    <3>2. \A i \in 1..Len(db'.orders) :
            (i \in 1..Len(table) /\ db'.orders[i] = table[i]) \/ db'.orders[i] = row
      BY <1>9, <1>10
    <3> HIDE DEF table
    <3>3. QED
      BY <1>1, <1>6, <3>1, <3>2
  <2>2. QED
    BY <1>1, <1>2, <1>3, <1>10, <2>1 DEF Shape
<1>12. ASSUME NEW run
       PROVE  /\ TradeCids(db', run) = TradeCids(db, run)
              /\ FillEvents(db', run) = FillEvents(db, run) /\ Allowed(db', run) = Allowed(db, run)
              /\ RowsOf(db'.trades, run) = RowsOf(db.trades, run)
              /\ RowsOf(db'.events, run) = RowsOf(db.events, run)
              /\ run # runs => FilledCids(db', run) = FilledCids(db, run)
                               /\ RowsOf(db'.orders, run) = RowsOf(db.orders, run)
  <2>1. run # runs => /\ FilledOrders(db', run) = FilledOrders(db, run)
                      /\ RowsOf(db'.orders, run) = RowsOf(db.orders, run)
    <3>1. FilledOrders(db', run) = IF row.run = run /\ row.filled > 0 THEN Append(FilledOrders(db, run), row)
                                   ELSE FilledOrders(db, run)
      BY <1>10a
    <3>2. RowsOf(Append(table, row), run) = IF row.run = run THEN Append(RowsOf(table, run), row)
                                            ELSE RowsOf(table, run)
      BY <1>9, RowsOfAppend
    <3>3. QED
      BY <1>6, <1>10, <3>1, <3>2
  <2>2. QED
    BY <1>10, <2>1 DEF FilledCids, TradeCids, FillEvents, Allowed
<1>13. /\ FilledCids(db', runs) = IF op.lots > 0 THEN Append(FilledCids(db, runs), orders) ELSE FilledCids(db, runs)
       /\ Len(RowsOf(db'.orders, runs)) = Len(RowsOf(db.orders, runs)) + 1
       /\ Len(RowsOf(db.orders, runs)) \in Nat /\ Len(Allowed(db, runs)) \in Nat
  <2> DEFINE filled == FilledOrders(db, runs)
  <2>1. /\ filled \in Seq(StoredOrder) /\ RowsOf(table, runs) \in Seq(StoredOrder)
        /\ Allowed(db, runs) \in Seq(Decision)
    BY <1>1, ViewTypes
  <2>2. FilledOrders(db', runs) = IF row.run = runs /\ row.filled > 0 THEN Append(filled, row) ELSE filled
    BY <1>10a
  <2>3. RowsOf(Append(table, row), runs) = IF row.run = runs THEN Append(RowsOf(table, runs), row)
                                           ELSE RowsOf(table, runs)
    BY <1>9, RowsOfAppend
  <2>4. CidsOf(Append(filled, row)) = Append(CidsOf(filled), row.cid)
    BY <2>1, CidsAppend
  <2> HIDE DEF filled, table
  <2>5. FilledCids(db', runs) = IF op.lots > 0 THEN Append(CidsOf(filled), orders) ELSE CidsOf(filled)
    BY <1>6, <2>2, <2>4 DEF FilledCids
  <2>6. Len(RowsOf(db'.orders, runs)) = Len(RowsOf(table, runs)) + 1
    BY <1>6, <1>10, <2>1, <2>3
  <2>7. QED
    BY <2>1, <2>5, <2>6 DEF FilledCids, filled, table
<1>14. /\ "risk" \notin Owed(b) /\ "fill" \notin Owed(b) /\ "order" \notin Owed(b)
       /\ "trade" \in Owed(b) <=> "trade" \in Owed(a)
       /\ "event" \in Owed(b) <=> "event" \in Owed(a)
       /\ op.lots > 0 => "trade" \in Owed(a)
       /\ "trade" \in Owed(a) => "event" \in Owed(a)
       /\ op.lots = 0 => "event" \notin Owed(a)
  BY <1>4, <1>7 DEF Key, Trading, Debts
<1> HIDE DEF a, b, table
<1>15. /\ FilledCids(db, runs) = TradeCids(db, runs)
       /\ RowsOf(db.trades, runs) = FillEvents(db, runs)
       /\ Len(RowsOf(db.orders, runs)) < Len(Allowed(db, runs))
       /\ "event" \notin Owed(a) => proc.unsaved = <<>>
       /\ "event" \in Owed(a) => proc.unsaved = <<TheFill>>
  <2>1. op.lots = 0 \/ op.lots > 0
    BY <1>5
  <2>2. QED
    BY <1>4, <1>7, <1>14, <2>1 DEF Trading, a
<1>16. /\ op.lots > 0 => FilledCids(db', runs) = Append(TradeCids(db, runs), orders)
       /\ op.lots = 0 => FilledCids(db', runs) = TradeCids(db, runs)
  BY <1>5, <1>13, <1>15
<1>17. \A run \in 1..runs' : Chained(db', run)
  <2>1. ASSUME NEW run \in 1..runs, run # runs PROVE Chained(db', run)
    <3>1. Chained(db, run)
      BY DEF TablesInv
    <3>2. QED
      BY <1>12, <2>1, <3>1 DEF Chained
  <2>2. Chained(db', runs)
    <3> DEFINE cids == TradeCids(db, runs)
    <3>1. cids \in Seq(Int)
      BY <1>1, ViewTypes
    <3>2. Follows(cids, cids) /\ Follows(cids, Append(cids, orders))
      BY <3>1, FollowsAppend
    <3> HIDE DEF cids
    <3>3. FilledCids(db', runs) = cids \/ FilledCids(db', runs) = Append(cids, orders)
      BY <1>5, <1>16 DEF cids
    <3>4. Follows(TradeCids(db', runs), FilledCids(db', runs))
      BY <1>12, <3>2, <3>3 DEF cids
    <3>5. Follows(FillEvents(db', runs), RowsOf(db'.trades, runs))
      <4>1. Chained(db, runs)
        BY <1>1 DEF TablesInv
      <4>2. QED
        BY <1>12, <4>1 DEF Chained
    <3>6. Len(RowsOf(db'.orders, runs)) <= Len(Allowed(db', runs))
      BY <1>12, <1>13, <1>15
    <3>7. QED
      BY <3>4, <3>5, <3>6 DEF Chained
  <2>3. QED
    BY <1>2, <2>1, <2>2
<1>18. SnapshotReplays(db')
  BY <1>10, SameSnapshot DEF TablesInv
<1>19. Trading'
  <2>1. Debts(Owed(b), op.lots)
    BY <1>14 DEF Debts
  <2>2. /\ proc'.op.lots \in Lots /\ proc'.op.price \in Prices
        /\ Ranked(b) /\ Debts(Owed(b), proc'.op.lots)
    BY <1>3, <1>4, <1>7, <2>1 DEF Trading
  <2>3. TheFill' = TheFill
    BY <1>2, <1>3 DEF TheFill
  <2>4. /\ "event" \notin Owed(b) => proc'.unsaved = <<>>
        /\ "event" \in Owed(b) => proc'.unsaved = <<TheFill'>>
    BY <1>3, <1>14, <1>15, <2>3
  <2>5. FilledCids(db', runs') = IF "trade" \in Owed(b) THEN Append(TradeCids(db', runs'), orders')
                                 ELSE TradeCids(db', runs')
    <3>1. op.lots = 0 \/ op.lots > 0
      BY <1>5
    <3>2. TradeCids(db', runs) = TradeCids(db, runs)
      BY <1>12
    <3> HIDE DEF op
    <3>3. QED
      BY <1>2, <1>5, <1>14, <1>16, <3>1, <3>2
  <2>6. RowsOf(db'.trades, runs') = FillEvents(db', runs')
    BY <1>2, <1>12, <1>15
  <2>7. "trade" \notin Owed(b) => "event" \notin Owed(b)
    <3>1. op.lots = 0 \/ op.lots > 0
      BY <1>5
    <3>2. QED
      BY <1>14, <3>1
  <2>8. QED
    BY <1>14, <2>2, <2>4, <2>5, <2>6, <2>7 DEF Trading, b
<1>20. Owing'
  <2>1. /\ proc'.op.taken /\ runs' = runs
        /\ RowsOf(db'.events, runs') = RowsOf(db.events, runs)
        /\ proc'.unsaved = proc.unsaved /\ proc'.ledger = proc.ledger /\ proc'.beside = proc.beside
    BY <1>2, <1>3, <1>4, <1>12
  <2>2. QED
    BY <1>1, <1>19, <2>1 DEF Owing
<1>21. QED
  BY <1>11, <1>17, <1>18, <1>20 DEF TablesInv

\* The trade is saved: its event is the one row that it is ahead.
LEMMA TradeStep ==
  ASSUME TablesInv, proc.up, SaveTrade
  PROVE  TablesInv'
<1> DEFINE a == proc.agenda
           b == proc'.agenda
           op == proc.op
           row == TheFill
           table == db.trades
<1>1. Shape /\ Owing /\ proc \in Process /\ db \in Tables /\ runs \in 1..MaxRuns /\ orders \in 0..MaxOrders
  BY DEF TablesInv, Shape
<1>2. /\ a # <<>> /\ Head(a) = "trade" /\ runs' = runs /\ orders' = orders /\ proc' = Rest
      /\ db' = [db EXCEPT !["trades"] = Append(table, row)]
  BY DEF SaveTrade, Does, Commits, Insert, TheFill
<1>3. /\ proc' \in Process /\ b = Tail(a) /\ proc'.up = proc.up /\ proc'.op = op
      /\ proc'.ledger = proc.ledger /\ proc'.beside = proc.beside /\ proc'.unsaved = proc.unsaved
  BY <1>1, <1>2, RestIs
<1>4. op.taken /\ Trading
  BY <1>1, <1>2, OnlyTrades
<1>5. /\ Ranked(b) /\ "trade" \in Owed(a)
      /\ \A e \in Key : e \in Owed(b) <=> e \in Owed(a) /\ e # "trade"
      /\ "risk" \notin Owed(a) /\ "fill" \notin Owed(a) /\ "order" \notin Owed(a)
  <2>1. /\ Ranked(b) /\ "trade" \in Owed(a)
        /\ \A e \in Key : e \in Owed(b) <=> e \in Owed(a) /\ e # "trade"
        /\ \A e \in Key : Rank(e) < Rank("trade") => e \notin Owed(a)
    BY <1>1, <1>2, <1>3, <1>4, KeyDone DEF Key
  <2>2. "risk" \in Key /\ "fill" \in Key /\ "order" \in Key
    BY DEF Key
  <2>3. QED
    BY <2>1, <2>2, RankIs
<1>6. /\ "risk" \notin Owed(b) /\ "fill" \notin Owed(b) /\ "order" \notin Owed(b) /\ "trade" \notin Owed(b)
      /\ "event" \in Owed(b) /\ "event" \in Owed(a) /\ op.lots # 0
  BY <1>4, <1>5 DEF Key, Trading, Debts
<1>7. /\ op.token \in Tokens /\ op.lots \in Nat \ {0} /\ op.price \in Prices
      /\ MaxOrders \in Nat /\ MaxRuns \in Nat
  BY <1>1, <1>4, <1>6, OutputsAssumption DEF Process, Operation, Trading
<1>8. row \in Row /\ row.run = runs /\ row.cid = orders
  <2>1. "BUY" \in Sides
    BY DEF Sides
  <2> HIDE DEF op
  <2>2. row = FillRow(runs, orders, op.token, op.lots, op.price)
    BY DEF TheFill, op
  <2> HIDE DEF row
  <2>3. QED
    BY <1>1, <1>7, <2>1, <2>2 DEF FillRow, Row
<1> HIDE DEF row
<1>9. table \in Seq(Row) /\ Append(table, row) \in Seq(Row)
  BY <1>1, <1>8 DEF Tables
<1>10. /\ db' \in Tables /\ db'.trades = Append(table, row) /\ db'.risk = db.risk
       /\ db'.orders = db.orders /\ db'.events = db.events /\ db'.snapshot = db.snapshot
  BY <1>1, <1>2, <1>9 DEF Tables
<1>11. Shape'
  <2>1. \A i \in 1..Len(db'.trades) : db'.trades[i].run <= runs
    <3>1. \A i \in 1..Len(table) : table[i].run <= runs
      BY <1>1 DEF Shape
    <3>2. \A i \in 1..Len(db'.trades) :
            (i \in 1..Len(table) /\ db'.trades[i] = table[i]) \/ db'.trades[i] = row
      BY <1>9, <1>10
    <3> HIDE DEF table
    <3>3. QED
      BY <1>1, <1>8, <3>1, <3>2
  <2>2. QED
    BY <1>1, <1>2, <1>3, <1>10, <2>1 DEF Shape
<1>12. ASSUME NEW run
       PROVE  /\ FilledCids(db', run) = FilledCids(db, run)
              /\ FillEvents(db', run) = FillEvents(db, run) /\ Allowed(db', run) = Allowed(db, run)
              /\ RowsOf(db'.orders, run) = RowsOf(db.orders, run)
              /\ RowsOf(db'.events, run) = RowsOf(db.events, run)
              /\ RowsOf(db'.trades, run) = IF run = runs THEN Append(RowsOf(db.trades, run), row)
                                           ELSE RowsOf(db.trades, run)
  <2>1. RowsOf(Append(table, row), run) = IF row.run = run THEN Append(RowsOf(table, run), row)
                                          ELSE RowsOf(table, run)
    BY <1>9, RowsOfAppend
  <2>2. QED
    BY <1>8, <1>10, <2>1 DEF FilledCids, FilledOrders, FillEvents, Allowed
<1>13. TradeCids(db', runs) = Append(TradeCids(db, runs), orders)
  <2> DEFINE rows == RowsOf(db.trades, runs)
  <2>1. rows \in Seq(Row)
    BY <1>1, ViewTypes
  <2>2. RowsOf(db'.trades, runs) = Append(rows, row)
    BY <1>12
  <2>3. CidsOf(Append(rows, row)) = Append(CidsOf(rows), row.cid)
    BY <2>1, CidsAppend
  <2>4. QED
    BY <1>8, <2>2, <2>3 DEF TradeCids
<1> HIDE DEF a, b, table
<1>14. /\ FilledCids(db, runs) = Append(TradeCids(db, runs), orders)
       /\ RowsOf(db.trades, runs) = FillEvents(db, runs)
       /\ proc.unsaved = <<row>>
  BY <1>4, <1>5, <1>6 DEF Trading, a, row
<1>15. /\ FilledCids(db', runs) = TradeCids(db', runs)
       /\ RowsOf(db'.trades, runs) = Append(FillEvents(db', runs), row)
  BY <1>12, <1>13, <1>14
<1>16. \A run \in 1..runs' : Chained(db', run)
  <2>1. ASSUME NEW run \in 1..runs, run # runs PROVE Chained(db', run)
    <3>1. Chained(db, run)
      BY DEF TablesInv
    <3>2. QED
      BY <1>12, <2>1, <3>1 DEF Chained, TradeCids
  <2>2. Chained(db', runs)
    <3> DEFINE cids == TradeCids(db', runs)
               fills == FillEvents(db', runs)
    <3>1. cids \in Seq(Int) /\ fills \in Seq(Row)
      BY <1>10, ViewTypes
    <3> HIDE DEF cids, fills
    <3>2. Follows(cids, cids) /\ Follows(fills, Append(fills, row))
      BY <3>1, FollowsAppend
    <3>3. Len(RowsOf(db'.orders, runs)) <= Len(Allowed(db', runs))
      <4>1. Chained(db, runs)
        BY <1>1 DEF TablesInv
      <4>2. QED
        BY <1>12, <4>1 DEF Chained
    <3>4. QED
      BY <1>15, <3>2, <3>3 DEF Chained, cids, fills
  <2>3. QED
    BY <1>2, <2>1, <2>2
<1>17. SnapshotReplays(db')
  BY <1>10, SameSnapshot DEF TablesInv
<1>18. Trading'
  <2>1. Debts(Owed(b), op.lots)
    BY <1>6 DEF Debts
  <2>2. /\ proc'.op.lots \in Lots /\ proc'.op.price \in Prices
        /\ Ranked(b) /\ Debts(Owed(b), proc'.op.lots)
    BY <1>3, <1>4, <1>5, <2>1 DEF Trading
  <2>3. TheFill' = row
    BY <1>2, <1>3 DEF TheFill, row
  <2>4. proc'.unsaved = <<TheFill'>>
    BY <1>3, <1>14, <2>3
  <2>5. /\ FilledCids(db', runs') = TradeCids(db', runs')
        /\ RowsOf(db'.trades, runs') = Append(FillEvents(db', runs'), TheFill')
    BY <1>2, <1>15, <2>3
  <2>6. QED
    BY <1>6, <2>2, <2>4, <2>5 DEF Trading, b
<1>19. Owing'
  <2>1. /\ proc'.op.taken /\ runs' = runs
        /\ RowsOf(db'.events, runs') = RowsOf(db.events, runs)
        /\ proc'.unsaved = proc.unsaved /\ proc'.ledger = proc.ledger /\ proc'.beside = proc.beside
    BY <1>2, <1>3, <1>4, <1>12
  <2>2. QED
    BY <1>1, <1>18, <2>1 DEF Owing
<1>20. QED
  BY <1>11, <1>16, <1>17, <1>19 DEF TablesInv

\* The first row still to come is stored: of a fill, whose trade is saved by now, or
\* the next close of a flatten.
LEMMA EventStep ==
  ASSUME TablesInv, proc.up, SaveEvent
  PROVE  TablesInv'
<1> DEFINE a == proc.agenda
           b == proc'.agenda
           op == proc.op
           u == proc.unsaved
           row == Head(u)
           table == db.events
           r == Rest
<1>1. Shape /\ Owing /\ proc \in Process /\ db \in Tables /\ runs \in 1..MaxRuns /\ orders \in 0..MaxOrders
  BY DEF TablesInv, Shape
<1>2. /\ a # <<>> /\ Head(a) = "event" /\ runs' = runs /\ orders' = orders
      /\ proc' = [r EXCEPT !.unsaved = Tail(r.unsaved)]
      /\ db' = [db EXCEPT !["events"] = Append(table, row)]
  BY DEF SaveEvent, Does, Insert
<1>3. a \in Seq(Effects) /\ u \in Seq(Row) /\ op.taken \in BOOLEAN
  BY <1>1 DEF Process, Operation
<1>4. ASSUME op.taken
      PROVE  /\ Trading /\ Ranked(b) /\ "event" \in Owed(a) /\ op.lots # 0 /\ u = <<TheFill>>
             /\ \A e \in Key : e \notin Owed(b)
             /\ \A e \in Key : e # "event" => e \notin Owed(a)
  <2>1. Trading
    BY <1>1, <1>4 DEF Owing
  <2>2. b = Tail(a)
    <3>1. r \in Process /\ r.agenda = Tail(a)
      BY <1>1, <1>2, RestIs
    <3> HIDE DEF r
    <3>2. QED
      BY <1>2, <3>1 DEF Process
  <2>3. /\ Ranked(b) /\ "event" \in Owed(a)
        /\ \A e \in Key : e \in Owed(b) <=> e \in Owed(a) /\ e # "event"
        /\ \A e \in Key : Rank(e) < Rank("event") => e \notin Owed(a)
    BY <1>1, <1>2, <2>1, <2>2, KeyDone DEF Key
  <2>4. \A e \in Key : e # "event" => Rank(e) < Rank("event")
    BY RankIs DEF Key
  <2>5. \A e \in Key : e # "event" => e \notin Owed(a)
    BY <2>3, <2>4
  <2>6. "fill" \notin Owed(a)
    BY <2>5 DEF Key
  <2>7. op.lots # 0 /\ u = <<TheFill>>
    BY <2>1, <2>3, <2>6 DEF Trading, Debts
  <2>8. QED
    BY <2>1, <2>3, <2>5, <2>7
<1>5. ASSUME ~op.taken
      PROVE  Resting /\ Len(u) > 0 /\ Quiet(Tail(a), Len(u) - 1)
  <2>1. Resting /\ Quiet(a, Len(u)) /\ Len(u) \in Nat
    BY <1>1, <1>3, <1>5 DEF Owing, Resting
  <2> HIDE DEF a, u
  <2>2. QED
    BY <1>2, <1>3, <2>1, TakeQuiet
<1>6. u # <<>> /\ Len(u) \in Nat \ {0}
  <2>1. ASSUME op.taken PROVE Len(u) \in Nat /\ Len(u) # 0
    <3>1. u = <<TheFill>>
      BY <1>4, <2>1
    <3> HIDE DEF u
    <3>2. QED
      BY <3>1
  <2>2. ASSUME ~op.taken PROVE Len(u) \in Nat /\ Len(u) # 0
    <3>1. Len(u) > 0 /\ u \in Seq(Row)
      BY <1>3, <1>5, <2>2
    <3> HIDE DEF u
    <3>2. QED
      BY <3>1
  <2>3. Len(u) \in Nat /\ Len(u) # 0
    BY <2>1, <2>2
  <2>4. QED
    BY <1>3, <2>3
<1>7. /\ row \in Row /\ row = u[1] /\ row.run = runs /\ Tail(u) \in Seq(Row) /\ Len(Tail(u)) = Len(u) - 1
      /\ \A i \in 1..Len(Tail(u)) : Tail(u)[i] = u[i + 1] /\ i + 1 \in 1..Len(u)
  <2>1. \A i \in 1..Len(u) : u[i].run = runs
    BY <1>1 DEF Owing
  <2> HIDE DEF u
  <2>2. QED
    BY <1>3, <1>6, <2>1
<1>8. /\ proc' \in Process /\ b = Tail(a) /\ proc'.up = proc.up /\ proc'.op = op
      /\ proc'.ledger = proc.ledger /\ proc'.beside = proc.beside /\ proc'.unsaved = Tail(u)
  <2>1. /\ r \in Process /\ r.agenda = Tail(a) /\ r.up = proc.up /\ r.op = op
        /\ r.ledger = proc.ledger /\ r.beside = proc.beside /\ r.unsaved = u
    BY <1>1, <1>2, RestIs
  <2> HIDE DEF r, a, u, op
  <2>2. QED
    BY <1>2, <1>7, <2>1 DEF Process
<1> HIDE DEF r, row
<1>9. table \in Seq(Row) /\ Append(table, row) \in Seq(Row)
  BY <1>1, <1>7 DEF Tables
<1>10. /\ db' \in Tables /\ db'.events = Append(table, row) /\ db'.risk = db.risk
       /\ db'.orders = db.orders /\ db'.trades = db.trades /\ db'.snapshot = db.snapshot
  BY <1>1, <1>2, <1>9 DEF Tables
<1>11. Shape'
  <2>1. \A i \in 1..Len(db'.events) : db'.events[i].run <= runs
    <3>1. \A i \in 1..Len(table) : table[i].run <= runs
      BY <1>1 DEF Shape
    <3>2. \A i \in 1..Len(db'.events) :
            (i \in 1..Len(table) /\ db'.events[i] = table[i]) \/ db'.events[i] = row
      BY <1>9, <1>10
    <3>3. row.run <= runs
      BY <1>1, <1>7
    <3> HIDE DEF table
    <3>4. QED
      BY <3>1, <3>2, <3>3
  <2>2. QED
    BY <1>1, <1>2, <1>8, <1>10, <2>1 DEF Shape
<1>12. ASSUME NEW run
       PROVE  /\ FilledCids(db', run) = FilledCids(db, run) /\ TradeCids(db', run) = TradeCids(db, run)
              /\ Allowed(db', run) = Allowed(db, run)
              /\ RowsOf(db'.orders, run) = RowsOf(db.orders, run)
              /\ RowsOf(db'.trades, run) = RowsOf(db.trades, run)
              /\ RowsOf(db'.events, run) = IF run = runs THEN Append(RowsOf(db.events, run), row)
                                           ELSE RowsOf(db.events, run)
              /\ FillEvents(db', run) = IF run = runs /\ row.kind = "FILL" THEN Append(FillEvents(db, run), row)
                                        ELSE FillEvents(db, run)
  <2>1. RowsOf(Append(table, row), run) = IF row.run = run THEN Append(RowsOf(table, run), row)
                                          ELSE RowsOf(table, run)
    BY <1>9, RowsOfAppend
  <2>2. FillEvents(db', run) = IF row.run = run /\ row.kind = "FILL" THEN Append(FillEvents(db, run), row)
                               ELSE FillEvents(db, run)
    <3> DEFINE d == db
               e == db'
    <3>1. d.events \in Seq(Row) /\ e.events = Append(d.events, row)
      BY <1>9, <1>10
    <3> HIDE DEF d, e
    <3>2. FillsGrow(d, e, row, run)
      BY <3>1, FillEventsAppend
    <3>3. QED
      BY <1>7, <3>2 DEF d, e, FillsGrow
  <2>3. QED
    BY <1>7, <1>10, <2>1, <2>2 DEF FilledCids, FilledOrders, TradeCids, Allowed
<1>13. ASSUME NEW run \in 1..runs, run # runs PROVE Chained(db', run)
  <2>1. Chained(db, run)
    BY DEF TablesInv
  <2>2. QED
    BY <1>12, <1>13, <2>1 DEF Chained
<1>14. /\ SoundLedger(proc'.ledger)
       /\ SameBookBut(Replayed(RowsOf(db'.events, runs') \o proc'.unsaved), proc'.ledger, proc'.beside)
       /\ \A i \in 1..Len(proc'.unsaved) : proc'.unsaved[i].run = runs'
  <2> DEFINE rows == RowsOf(db.events, runs)
  <2>1. rows \in Seq(Row)
    BY <1>1, ViewTypes
  <2>2. /\ SameBookBut(Replayed(rows \o u), proc.ledger, proc.beside) /\ SoundLedger(proc.ledger)
        /\ \A i \in 1..Len(u) : u[i].run = runs
    BY <1>1 DEF Owing
  <2>3. RowsOf(db'.events, runs') = Append(rows, row)
    BY <1>2, <1>12
  <2> HIDE DEF rows, u
  <2>4. Append(rows, row) \o Tail(u) = rows \o u
    <3> DEFINE c == Append(rows, row) \o Tail(u)
               d == rows \o u
    <3>1. c \in Seq(Row) /\ d \in Seq(Row) /\ Len(c) = Len(d)
      BY <1>3, <1>6, <1>7, <2>1
    <3>2. ASSUME NEW i \in 1..Len(d) PROVE c[i] = d[i]
      <4>1. CASE i <= Len(rows)
        BY <1>3, <1>6, <1>7, <2>1, <4>1
      <4>2. CASE i = Len(rows) + 1
        BY <1>3, <1>6, <1>7, <2>1, <4>2
      <4>3. CASE i > Len(rows) + 1
        <5> DEFINE j == i - Len(rows) - 1
        <5>1. j \in 1..Len(Tail(u)) /\ j + 1 = i - Len(rows) /\ i = Len(Append(rows, row)) + j
              /\ i = Len(rows) + (j + 1)
          BY <1>3, <1>6, <1>7, <2>1, <4>3
        <5> HIDE DEF j
        <5>2. c[i] = Tail(u)[j] /\ d[i] = u[j + 1]
          BY <1>3, <1>6, <1>7, <2>1, <5>1
        <5>3. QED
          BY <1>7, <5>1, <5>2
      <4>4. i \in Nat /\ Len(rows) \in Nat
        BY <2>1, <3>1
      <4> HIDE DEF c, d
      <4>5. QED
        BY <4>1, <4>2, <4>3, <4>4
    <3> HIDE DEF c, d
    <3>3. c = d
      BY <3>1, <3>2
    <3>4. QED
      BY <3>3 DEF c, d
  <2>5. \A i \in 1..Len(Tail(u)) : Tail(u)[i].run = runs
    BY <1>7, <2>2
  <2>6. QED
    BY <1>2, <1>8, <2>2, <2>3, <2>4, <2>5
<1>15. SnapshotReplays(db')
  <2> DEFINE run == db.snapshot.run
             rows == RowsOf(db.events, run)
             more == RowsOf(db'.events, run)
  <2>1. rows \in Seq(Row)
    BY <1>1, ViewTypes
  <2>2. PICK n \in 0..Len(rows) : SameBookBut(ReplayedTo(rows, n), db.snapshot.ledger, db.snapshot.beside)
    BY DEF TablesInv, SnapshotReplays
  <2>3. more = rows \/ more = Append(rows, row)
    BY <1>12
  <2> HIDE DEF rows, more
  <2>4. n \in 0..Len(more) /\ n \in Nat /\ \A i \in 1..n : rows[i] = more[i]
    BY <2>1, <2>2, <2>3
  <2>5. ReplayedTo(rows, n) = ReplayedTo(more, n)
    BY <2>4, ReplayPrefix
  <2>6. \E k \in 0..Len(more) : SameBookBut(ReplayedTo(more, k), db.snapshot.ledger, db.snapshot.beside)
    BY <2>2, <2>4, <2>5
  <2>7. QED
    BY <1>10, <2>6 DEF SnapshotReplays, more
<1>16. CASE op.taken
  <2>1. /\ Trading /\ Ranked(b) /\ "event" \in Owed(a) /\ op.lots # 0 /\ u = <<TheFill>>
        /\ "risk" \notin Owed(b) /\ "fill" \notin Owed(b) /\ "order" \notin Owed(b)
        /\ "trade" \notin Owed(b) /\ "event" \notin Owed(b)
        /\ "fill" \notin Owed(a) /\ "order" \notin Owed(a) /\ "trade" \notin Owed(a)
    BY <1>4, <1>16 DEF Key
  <2>2. row = TheFill /\ TheFill.kind = "FILL" /\ Tail(u) = <<>>
    BY <2>1 DEF row, TheFill, FillRow
  <2>3. /\ FilledCids(db', runs) = TradeCids(db', runs)
        /\ RowsOf(db'.trades, runs) = FillEvents(db', runs)
    <3>1. FilledCids(db, runs) = TradeCids(db, runs) /\ RowsOf(db.trades, runs) = Append(FillEvents(db, runs), TheFill)
      BY <2>1 DEF Trading
    <3>2. QED
      BY <1>12, <2>2, <3>1
  <2>4. Chained(db', runs)
    <3> DEFINE cids == TradeCids(db', runs)
               fills == FillEvents(db', runs)
    <3>1. cids \in Seq(Int) /\ fills \in Seq(Row)
      BY <1>10, ViewTypes
    <3> HIDE DEF cids, fills
    <3>2. Follows(cids, cids) /\ Follows(fills, fills)
      BY <3>1, FollowsAppend
    <3>3. Len(RowsOf(db'.orders, runs)) <= Len(Allowed(db', runs))
      <4>1. Chained(db, runs)
        BY <1>1 DEF TablesInv
      <4>2. QED
        BY <1>12, <4>1 DEF Chained
    <3>4. QED
      BY <2>3, <3>2, <3>3 DEF Chained, cids, fills
  <2>5. Trading'
    <3>1. Debts(Owed(b), op.lots)
      BY <2>1 DEF Debts
    <3>2. /\ proc'.op.lots \in Lots /\ proc'.op.price \in Prices
          /\ Ranked(b) /\ Debts(Owed(b), proc'.op.lots)
      BY <1>8, <2>1, <3>1 DEF Trading
    <3>3. proc'.unsaved = <<>>
      BY <1>8, <2>2
    <3>4. /\ FilledCids(db', runs') = TradeCids(db', runs')
          /\ RowsOf(db'.trades, runs') = FillEvents(db', runs')
      BY <1>2, <2>3
    <3> HIDE DEF a, u
    <3>5. QED
      BY <2>1, <3>2, <3>3, <3>4 DEF Trading, b
  <2>6. Owing'
    BY <1>8, <1>14, <1>16, <2>5 DEF Owing
  <2>7. \A run \in 1..runs' : Chained(db', run)
    BY <1>2, <1>13, <2>4
  <2>8. QED
    BY <1>11, <1>15, <2>6, <2>7 DEF TablesInv
<1>17. CASE ~op.taken
  <2>1. Resting /\ Quiet(Tail(a), Len(u) - 1)
    BY <1>5, <1>17
  <2>2. /\ \A i \in 1..Len(u) : u[i].kind = "FLATTEN"
        /\ FilledCids(db, runs) = TradeCids(db, runs)
        /\ RowsOf(db.trades, runs) = FillEvents(db, runs)
    BY <2>1 DEF Resting
  <2>3. row.kind # "FILL" /\ \A i \in 1..Len(Tail(u)) : Tail(u)[i].kind = "FLATTEN"
    <3>1. 1 \in 1..Len(u)
      BY <1>6
    <3> HIDE DEF u
    <3>2. row.kind = "FLATTEN"
      BY <1>7, <2>2, <3>1
    <3>3. QED
      BY <1>7, <2>2, <3>2
  <2>4. /\ FilledCids(db', runs) = TradeCids(db', runs)
        /\ RowsOf(db'.trades, runs) = FillEvents(db', runs)
        /\ FillEvents(db', runs) = FillEvents(db, runs)
    BY <1>12, <2>2, <2>3
  <2>5. Chained(db', runs)
    <3>1. Chained(db, runs)
      BY <1>1 DEF TablesInv
    <3>2. QED
      BY <1>12, <2>4, <3>1 DEF Chained
  <2>6. Resting'
    <3>1. Quiet(b, Len(proc'.unsaved))
      BY <1>7, <1>8, <2>1
    <3>2. \A i \in 1..Len(proc'.unsaved) : proc'.unsaved[i].kind = "FLATTEN"
      BY <1>8, <2>3
    <3>3. QED
      BY <1>2, <2>4, <3>1, <3>2 DEF Resting
  <2>7. Owing'
    BY <1>8, <1>14, <1>17, <2>6 DEF Owing
  <2>8. \A run \in 1..runs' : Chained(db', run)
    BY <1>2, <1>13, <2>5
  <2>9. QED
    BY <1>11, <1>15, <2>7, <2>8 DEF TablesInv
<1>18. QED
  BY <1>3, <1>16, <1>17


-----------------------------------------------------------------------------
(* Operations begin *)

\* Between two operations, and before a drill evaluates its market, nothing is missing.
LEMMA IdleSettled ==
  ASSUME Shape, Owing, proc.agenda = <<>> \/ proc.agenda = <<"probe">>
  PROVE  /\ proc.unsaved = <<>>
         /\ FilledCids(db, runs) = TradeCids(db, runs)
         /\ RowsOf(db.trades, runs) = FillEvents(db, runs)
<1>1. proc.unsaved \in Seq(Row) /\ proc.op.taken \in BOOLEAN
  BY DEF Shape, Process, Operation
<1>2. \A e \in {"fill", "order", "trade", "event"} : e \notin Owed(proc.agenda)
  <2>1. Owed(<<>>) = {} /\ Owed(<<"probe">>) = {"probe"}
    BY DEF Owed
  <2>2. QED
    BY <2>1
<1>3. CASE proc.op.taken
  <2>1. Trading
    BY <1>3 DEF Owing
  <2> DEFINE owed == Owed(proc.agenda)
  <2>2. "fill" \notin owed /\ "order" \notin owed /\ "trade" \notin owed /\ "event" \notin owed
    BY <1>2
  <2> HIDE DEF owed
  <2>3. QED
    BY <2>1, <2>2 DEF Trading, owed
<1>4. CASE ~proc.op.taken
  <2>1. Resting
    BY <1>4 DEF Owing
  <2> DEFINE n == Len(proc.unsaved)
  <2>2. Quiet(proc.agenda, n) /\ n \in Nat
    BY <1>1, <2>1 DEF Resting
  <2> HIDE DEF n
  <2>3. n = 0
    <3>1. CASE proc.agenda = <<>>
      BY <2>2, <3>1 DEF Quiet
    <3>2. CASE proc.agenda = <<"probe">>
      BY <2>2, <3>2 DEF Quiet
    <3>3. QED
      BY <3>1, <3>2
  <2>4. Len(proc.unsaved) = 0
    BY <2>3 DEF n
  <2>5. proc.unsaved = <<>>
    BY <1>1, <2>4
  <2>6. QED
    BY <2>1, <2>5 DEF Resting
<1>5. QED
  BY <1>1, <1>3, <1>4

\* An operation without a trade begins: its agenda stores the rows it left unsaved
\* first, and they lead to its ledger.
LEMMA RestingBegins ==
  ASSUME TablesInv, proc.up, proc.agenda = <<>> \/ proc.agenda = <<"probe">>,
         db' = db, runs' = runs, orders' = orders, proc' \in Process, ~proc'.op.taken, Quiet(proc'.agenda, Len(proc'.unsaved)),
         \A i \in 1..Len(proc'.unsaved) : proc'.unsaved[i].kind = "FLATTEN" /\ proc'.unsaved[i].run = runs,
         SoundLedger(proc'.ledger),
         SameBookBut(Replayed(RowsOf(db.events, runs) \o proc'.unsaved), proc'.ledger, proc'.beside)
  PROVE  TablesInv'
<1>1. Shape /\ Owing /\ SnapshotReplays(db)
  BY DEF TablesInv
<1>2. FilledCids(db, runs) = TradeCids(db, runs) /\ RowsOf(db.trades, runs) = FillEvents(db, runs)
  BY <1>1, IdleSettled
<1>3. Shape'
  BY <1>1 DEF Shape
<1>4. Resting'
  BY <1>2 DEF Resting
<1>5. Owing'
  BY <1>4 DEF Owing
<1>6. \A run \in 1..runs' : Chained(db', run)
  BY DEF TablesInv
<1>7. QED
  BY <1>1, <1>3, <1>5, <1>6 DEF TablesInv

\* A list of effects that write no row of a trade or flatten.
Plain(a) == a \in Seq(Effects) /\ \A e \in Owed(a) : Rank(e) = 0

\* What an operation does besides saving rows of a trade or flatten.
LEMMA PlainLists ==
  /\ \A trips \in BOOLEAN : Plain(Tripping(trips)) /\ Quiet(Tripping(trips), 0)
  /\ Plain(<<"publish">>) /\ Quiet(<<"publish">>, 0)
  /\ Plain(<<"signal", "decision", "resync">>) /\ Quiet(<<"signal", "decision", "resync">>, 0)
  /\ Quiet(<<"signal", "decision">>, 0) /\ <<"signal", "decision">> \in Seq(Effects)
  /\ Quiet(<<"feature", "risk">>, 0) /\ <<"feature", "risk">> \in Seq(Effects)
  /\ Quiet(<<"publish", "snapshot">>, 0) /\ <<"publish", "snapshot">> \in Seq(Effects)
  /\ Quiet(<<"clear", "unflag", "unreason">>, 0) /\ <<"clear", "unflag", "unreason">> \in Seq(Effects)
<1>1. /\ <<>> \in Seq(Effects) /\ <<"trip", "flag", "reason">> \in Seq(Effects)
      /\ <<"publish">> \in Seq(Effects) /\ <<"signal", "decision", "resync">> \in Seq(Effects)
      /\ <<"signal", "decision">> \in Seq(Effects) /\ <<"feature", "risk">> \in Seq(Effects)
      /\ <<"publish", "snapshot">> \in Seq(Effects)
      /\ <<"clear", "unflag", "unreason">> \in Seq(Effects)
  BY DEF Effects
<1>2. Quiet(<<>>, 0) /\ Quiet(<<"trip", "flag", "reason">>, 0)
  BY DEF Quiet
<1>3. Quiet(<<"publish">>, 0) /\ Quiet(<<"signal", "decision", "resync">>, 0)
  BY DEF Quiet
<1>4. /\ Quiet(<<"signal", "decision">>, 0) /\ Quiet(<<"feature", "risk">>, 0)
      /\ Quiet(<<"publish", "snapshot">>, 0) /\ Quiet(<<"clear", "unflag", "unreason">>, 0)
  BY DEF Quiet
<1>5. /\ Rank("trip") = 0 /\ Rank("flag") = 0 /\ Rank("reason") = 0 /\ Rank("publish") = 0
      /\ Rank("signal") = 0 /\ Rank("decision") = 0 /\ Rank("resync") = 0
  BY DEF Rank
<1>6. /\ Owed(<<>>) = {} /\ Owed(<<"trip", "flag", "reason">>) = {"trip", "flag", "reason"}
      /\ Owed(<<"publish">>) = {"publish"}
      /\ Owed(<<"signal", "decision", "resync">>) = {"signal", "decision", "resync"}
  BY DEF Owed
<1>7. /\ Plain(<<>>) /\ Plain(<<"trip", "flag", "reason">>) /\ Plain(<<"publish">>)
      /\ Plain(<<"signal", "decision", "resync">>)
  BY <1>1, <1>5, <1>6 DEF Plain
<1>8. \A trips \in BOOLEAN : Plain(Tripping(trips)) /\ Quiet(Tripping(trips), 0)
  BY <1>2, <1>7 DEF Tripping
<1>9. QED
  BY <1>1, <1>3, <1>4, <1>7, <1>8

\* A refusal, a trip or a reset begins.
LEMMA QuietBegins ==
  ASSUME TablesInv, NEW agenda \in Seq(Effects), NEW op \in Operation, ~op.taken, Quiet(agenda, 0),
         NEW trips, Begin(agenda, op, trips)
  PROVE  TablesInv'
<1>1. /\ proc.up /\ (proc.agenda = <<>> \/ proc.agenda = <<"probe">>)
      /\ db' = db /\ runs' = runs /\ orders' = orders
      /\ proc' = [proc EXCEPT !.agenda = agenda, !.op = op]
  BY DEF Begin, Spend, Idle, Probing
<1>2. Shape /\ Owing /\ proc \in Process /\ proc.unsaved = <<>> /\ db \in Tables
  BY <1>1, IdleSettled DEF TablesInv, Shape
<1>3. /\ proc' \in Process /\ ~proc'.op.taken /\ proc'.agenda = agenda
      /\ proc'.unsaved = <<>> /\ proc'.ledger = proc.ledger /\ proc'.beside = proc.beside
  BY <1>1, <1>2 DEF Process
<1>4. Quiet(proc'.agenda, Len(proc'.unsaved)) /\ Len(proc'.unsaved) = 0
  BY <1>3
<1>5. /\ SoundLedger(proc'.ledger)
      /\ SameBookBut(Replayed(RowsOf(db.events, runs) \o proc'.unsaved), proc'.ledger, proc'.beside)
  BY <1>2, <1>3 DEF Owing
<1>6. QED
  BY <1>1, <1>3, <1>4, <1>5, RestingBegins

\* No operation of a refusal, a trip or a reset is a trade.
LEMMA NoOps ==
  NoOp \in Operation /\ ~NoOp.taken /\ \A cause \in Causes : [NoOp EXCEPT !.cause = cause] \in Operation
                                                            /\ ~[NoOp EXCEPT !.cause = cause].taken
<1>1. 1 \in Tokens
  BY LedgerAssumption DEF Tokens
<1>2. NoReason \in Causes
  BY DEF Causes
<1>3. NoOp \in Operation /\ ~NoOp.taken
  BY <1>1, <1>2 DEF NoOp, Operation
<1>4. \A cause \in Causes : [NoOp EXCEPT !.cause = cause] \in Operation
                            /\ [NoOp EXCEPT !.cause = cause].taken = NoOp.taken
  BY <1>3 DEF Operation
<1>5. QED
  BY <1>3, <1>4

LEMMA RefusalStep ==
  ASSUME TablesInv, NEW trips \in BOOLEAN,
         Filtered \/ StaleCritical \/ Vetoed(trips) \/ PositionMismatch \/ Reset
  PROVE  TablesInv'
<1>1. /\ "STALE_CRITICAL_DATA" \in Causes /\ "RUNAWAY_REJECTS" \in Causes /\ "POSITION_MISMATCH" \in Causes
  BY DEF Causes
<1>2. /\ Tripping(TRUE) \in Seq(Effects) /\ Quiet(Tripping(TRUE), 0)
      /\ Tripping(trips) \in Seq(Effects) /\ Quiet(Tripping(trips), 0)
  BY PlainLists DEF Plain
<1>3. CASE Filtered
  BY <1>3, PlainLists, NoOps, QuietBegins DEF Filtered
<1>4. CASE StaleCritical
  <2> DEFINE agenda == Tripping(TRUE) \o <<"signal", "decision", "resync">>
             op == [NoOp EXCEPT !.cause = "STALE_CRITICAL_DATA"]
  <2>1. agenda \in Seq(Effects) /\ Quiet(agenda, 0)
    BY <1>2, PlainLists, JoinQuiet DEF Plain
  <2>2. op \in Operation /\ ~op.taken
    BY <1>1, NoOps
  <2>3. Begin(agenda, op, TRUE)
    BY <1>4 DEF StaleCritical
  <2> HIDE DEF agenda, op
  <2>4. QED
    BY <2>1, <2>2, <2>3, QuietBegins
<1>5. CASE Vetoed(trips)
  <2> DEFINE front == <<"feature", "risk">> \o Tripping(trips)
             agenda == front \o <<"signal", "decision", "resync">>
             op == [NoOp EXCEPT !.cause = "RUNAWAY_REJECTS"]
  <2>1. front \in Seq(Effects) /\ Quiet(front, 0)
    BY <1>2, PlainLists, JoinQuiet
  <2>2. op \in Operation /\ ~op.taken
    BY <1>1, NoOps
  <2>3. Begin(agenda, op, trips)
    BY <1>5 DEF Vetoed
  <2> HIDE DEF front
  <2>4. agenda \in Seq(Effects) /\ Quiet(agenda, 0)
    BY <2>1, PlainLists, JoinQuiet DEF Plain
  <2> HIDE DEF agenda, op
  <2>5. QED
    BY <2>2, <2>3, <2>4, QuietBegins
<1>6. CASE PositionMismatch
  <2> DEFINE op == [NoOp EXCEPT !.cause = "POSITION_MISMATCH"]
  <2>1. op \in Operation /\ ~op.taken
    BY <1>1, NoOps
  <2>2. Begin(Tripping(TRUE), op, TRUE)
    BY <1>6 DEF PositionMismatch
  <2> HIDE DEF op
  <2>3. QED
    BY <1>2, <2>1, <2>2, QuietBegins
<1>7. CASE Reset
  BY <1>7, PlainLists, NoOps, QuietBegins DEF Reset
<1>8. QED
  BY <1>3, <1>4, <1>5, <1>6, <1>7


\* Effects that write no row may follow the others in any order.
LEMMA JoinPlain ==
  ASSUME NEW a \in Seq(Effects), Ranked(a), NEW b, Plain(b)
  PROVE  /\ a \o b \in Seq(Effects) /\ Ranked(a \o b)
         /\ Owed(a \o b) = Owed(a) \cup Owed(b)
<1>1. b \in Seq(Effects) /\ \A y \in Owed(b) : Rank(y) = 0
  BY DEF Plain
<1>2. Ranked(b)
  <2>1. \A i \in 1..Len(b) : Rank(b[i]) = 0
    BY <1>1 DEF Owed
  <2>2. QED
    BY <2>1 DEF Ranked
<1>3. QED
  BY <1>1, <1>2, JoinRanked

LEMMA PlainJoin ==
  ASSUME NEW a, Plain(a), NEW b, Plain(b)
  PROVE  Plain(a \o b)
<1>1. a \in Seq(Effects) /\ \A y \in Owed(a) : Rank(y) = 0
  BY DEF Plain
<1>2. Ranked(a)
  <2>1. \A i \in 1..Len(a) : Rank(a[i]) = 0
    BY <1>1 DEF Owed
  <2>2. QED
    BY <2>1 DEF Ranked
<1>3. a \o b \in Seq(Effects) /\ Owed(a \o b) = Owed(a) \cup Owed(b)
  BY <1>1, <1>2, JoinPlain
<1>4. QED
  BY <1>1, <1>3 DEF Plain

\* The saves of a fill come in the order of _commit_prepared.
LEMMA SavesRanked ==
  ASSUME NEW lots \in Nat
  PROVE  /\ SavesOf(lots) \in Seq(Effects) /\ Ranked(SavesOf(lots))
         /\ Owed(SavesOf(lots)) = {"order", "snapshot"} \cup IF lots > 0 THEN {"trade", "event"} ELSE {}
<1> DEFINE first == <<"order">>
           filled == <<"trade", "event">>
           second == IF lots > 0 THEN filled ELSE <<>>
           front == first \o second
           last == <<"snapshot">>
<1>1. first \in Seq(Effects) /\ Ranked(first) /\ Owed(first) = {"order"}
  <2>1. first \in Seq(Effects) /\ Len(first) = 1 /\ first[1] = "order"
    BY DEF Effects
  <2> HIDE DEF first
  <2>2. QED
    BY <2>1 DEF Ranked, Owed
<1>2. last \in Seq(Effects) /\ Ranked(last) /\ Owed(last) = {"snapshot"}
  <2>1. last \in Seq(Effects) /\ Len(last) = 1 /\ last[1] = "snapshot"
    BY DEF Effects
  <2> HIDE DEF last
  <2>2. QED
    BY <2>1 DEF Ranked, Owed
<1>3. filled \in Seq(Effects) /\ Ranked(filled) /\ Owed(filled) = {"trade", "event"}
  <2>1. filled \in Seq(Effects) /\ Len(filled) = 2 /\ filled[1] = "trade" /\ filled[2] = "event"
    BY DEF Effects
  <2> HIDE DEF filled
  <2>2. Rank(filled[1]) < Rank(filled[2])
    BY <2>1, RankIs
  <2>3. \A i, j \in 1..Len(filled) : i < j => i = 1 /\ j = 2
    BY <2>1
  <2>4. Ranked(filled)
    BY <2>2, <2>3 DEF Ranked
  <2>5. QED
    BY <2>1, <2>4 DEF Owed
<1>4. /\ second \in Seq(Effects) /\ Ranked(second)
      /\ Owed(second) = IF lots > 0 THEN {"trade", "event"} ELSE {}
  <2>1. <<>> \in Seq(Effects) /\ Ranked(<<>>) /\ Owed(<<>>) = {}
    BY DEF Ranked, Owed
  <2> HIDE DEF filled
  <2>2. QED
    BY <1>3, <2>1
<1>5. SavesOf(lots) = front \o last
  BY DEF SavesOf
<1> HIDE DEF first, second, last
<1>6. /\ front \in Seq(Effects) /\ Ranked(front) /\ Owed(front) = Owed(first) \cup Owed(second)
  <2>1. \A x \in Owed(first), y \in Owed(second) : Rank(x) < Rank(y)
    BY <1>1, <1>4, RankIs
  <2>2. QED
    BY <1>1, <1>4, <2>1, JoinRanked
<1> HIDE DEF front
<1>7. /\ front \o last \in Seq(Effects) /\ Ranked(front \o last)
      /\ Owed(front \o last) = Owed(front) \cup Owed(last)
  <2>1. \A x \in Owed(front), y \in Owed(last) : Rank(x) < Rank(y)
    BY <1>1, <1>2, <1>4, <1>6, RankIs
  <2>2. QED
    BY <1>2, <1>6, <2>1, JoinRanked
<1>8. QED
  BY <1>1, <1>2, <1>4, <1>5, <1>6, <1>7

\* What a trade owes when it begins.
LEMMA TradeAgenda ==
  ASSUME NEW trips \in BOOLEAN, NEW lots \in Nat,
         NEW agenda, agenda = <<"feature", "risk", "fill">> \o Tripping(trips) \o <<"publish">> \o SavesOf(lots)
                                \o <<"signal", "decision", "resync">>
  PROVE  /\ agenda \in Seq(Effects) /\ Ranked(agenda) /\ Debts(Owed(agenda), lots)
         /\ "risk" \in Owed(agenda) /\ "fill" \in Owed(agenda) /\ "order" \in Owed(agenda)
         /\ lots > 0 => "trade" \in Owed(agenda) /\ "event" \in Owed(agenda)
         /\ lots = 0 => "trade" \notin Owed(agenda) /\ "event" \notin Owed(agenda)
<1> DEFINE first == <<"feature", "risk", "fill">>
           second == first \o Tripping(trips)
           third == second \o <<"publish">>
           fourth == third \o SavesOf(lots)
<1>1. first \in Seq(Effects) /\ Ranked(first) /\ Owed(first) = {"feature", "risk", "fill"}
  <2>1. first \in Seq(Effects)
    BY DEF Effects
  <2>2. Len(first) = 3 /\ first[1] = "feature" /\ first[2] = "risk" /\ first[3] = "fill"
    OBVIOUS
  <2> HIDE DEF first
  <2>3. Rank(first[1]) = 0 /\ Rank(first[2]) = 1 /\ Rank(first[3]) = 2
    BY <2>2, RankIs DEF Rank
  <2>4. \A i \in 1..Len(first) : i = 1 \/ i = 2 \/ i = 3
    BY <2>2
  <2>5. Ranked(first)
    BY <2>3, <2>4 DEF Ranked
  <2>6. Owed(first) = {"feature", "risk", "fill"}
    BY <2>2 DEF Owed
  <2>7. QED
    BY <2>1, <2>5, <2>6
<1> HIDE DEF first
<1>2. /\ Plain(Tripping(trips)) /\ Plain(<<"publish">>) /\ Plain(<<"signal", "decision", "resync">>)
  BY PlainLists
<1>3. /\ second \in Seq(Effects) /\ Ranked(second)
      /\ Owed(second) = Owed(first) \cup Owed(Tripping(trips))
  BY <1>1, <1>2, JoinPlain
<1> HIDE DEF second
<1>4. /\ third \in Seq(Effects) /\ Ranked(third)
      /\ Owed(third) = Owed(second) \cup Owed(<<"publish">>)
  BY <1>2, <1>3, JoinPlain
<1> HIDE DEF third
<1>5. /\ SavesOf(lots) \in Seq(Effects) /\ Ranked(SavesOf(lots))
      /\ Owed(SavesOf(lots)) = {"order", "snapshot"} \cup IF lots > 0 THEN {"trade", "event"} ELSE {}
  BY SavesRanked
<1>6. ASSUME NEW x \in Owed(third), NEW y \in Owed(SavesOf(lots)) PROVE Rank(x) = 0 \/ Rank(x) < Rank(y)
  <2>1. Rank(x) <= 2
    <3>1. \/ x \in {"feature", "risk", "fill"} \/ x \in Owed(Tripping(trips)) \/ x \in Owed(<<"publish">>)
      BY <1>1, <1>3, <1>4
    <3>2. Rank("feature") = 0 /\ Rank("risk") = 1 /\ Rank("fill") = 2
      BY RankIs DEF Rank
    <3>3. CASE x \in {"feature", "risk", "fill"}
      BY <3>2, <3>3
    <3>4. CASE x \in Owed(Tripping(trips)) \/ x \in Owed(<<"publish">>)
      <4>1. Rank(x) = 0
        BY <1>2, <3>4, Zenon DEF Plain
      <4>2. QED
        BY <4>1
    <3>5. QED
      BY <3>1, <3>3, <3>4
  <2>2. Rank(y) >= 3
    BY <1>5, RankIs
  <2>3. QED
    BY <2>1, <2>2, RankIs
<1>7. /\ fourth \in Seq(Effects) /\ Ranked(fourth)
      /\ Owed(fourth) = Owed(third) \cup Owed(SavesOf(lots))
  BY <1>4, <1>5, <1>6, JoinRanked
<1>8. /\ agenda \in Seq(Effects) /\ Ranked(agenda)
      /\ Owed(agenda) = Owed(fourth) \cup Owed(<<"signal", "decision", "resync">>)
  <2> DEFINE last == <<"signal", "decision", "resync">>
  <2>1. agenda = fourth \o last
    BY DEF fourth, third, second, first
  <2> HIDE DEF fourth, last
  <2>2. Plain(last)
    BY <1>2 DEF last
  <2>3. QED
    BY <1>7, <2>1, <2>2, JoinPlain DEF last
<1>9. \A e \in Key : e \in Owed(agenda) <=> e \in {"risk", "fill", "order"} \/ (lots > 0 /\ e \in {"trade", "event"})
  <2>1. SUFFICES ASSUME NEW e \in Key
                 PROVE  e \in Owed(agenda) <=> e \in {"risk", "fill", "order"} \/ (lots > 0 /\ e \in {"trade", "event"})
    OBVIOUS
  <2>2. Rank(e) # 0 /\ e # "feature" /\ e # "snapshot"
    BY RankIs DEF Key
  <2>3. e \notin Owed(Tripping(trips)) /\ e \notin Owed(<<"publish">>) /\ e \notin Owed(<<"signal", "decision", "resync">>)
    BY <1>2, <2>2 DEF Plain
  <2> HIDE DEF fourth
  <2>4. QED
    BY <1>1, <1>3, <1>4, <1>5, <1>7, <1>8, <2>2, <2>3
<1>10. /\ "risk" \in Owed(agenda) /\ "fill" \in Owed(agenda) /\ "order" \in Owed(agenda)
       /\ lots > 0 => "trade" \in Owed(agenda) /\ "event" \in Owed(agenda)
       /\ lots = 0 => "trade" \notin Owed(agenda) /\ "event" \notin Owed(agenda)
  BY <1>9 DEF Key
<1>11. Debts(Owed(agenda), lots)
  BY <1>10 DEF Debts
<1>12. QED
  BY <1>8, <1>10, <1>11

\* A trade begins: all its rows are owed.
LEMMA TradeBegins ==
  ASSUME TablesInv, NEW t \in Tokens, NEW lots \in Lots, NEW price \in Prices, NEW trips \in BOOLEAN,
         Traded(t, lots, price, trips)
  PROVE  TablesInv'
<1> DEFINE agenda == <<"feature", "risk", "fill">> \o Tripping(trips) \o <<"publish">> \o SavesOf(lots)
                       \o <<"signal", "decision", "resync">>
           op == [token |-> t, lots |-> lots, price |-> price, taken |-> TRUE, cause |-> "DRAWDOWN_EXCEEDED"]
<1>1. /\ proc.up /\ (proc.agenda = <<>> \/ proc.agenda = <<"probe">>)
      /\ db' = db /\ runs' = runs /\ orders' = orders /\ orders < MaxOrders
      /\ proc' = [proc EXCEPT !.agenda = agenda, !.op = op]
  BY DEF Traded, Begin, Spend, Idle, Probing
<1>2. Shape /\ Owing /\ SnapshotReplays(db) /\ proc \in Process /\ proc.unsaved = <<>>
      /\ FilledCids(db, runs) = TradeCids(db, runs) /\ RowsOf(db.trades, runs) = FillEvents(db, runs)
  BY <1>1, IdleSettled DEF TablesInv, Shape
<1>3. lots \in Nat
  BY OutputsAssumption
<1>4. /\ agenda \in Seq(Effects) /\ Ranked(agenda) /\ Debts(Owed(agenda), lots)
      /\ "risk" \in Owed(agenda) /\ "fill" \in Owed(agenda) /\ "order" \in Owed(agenda)
      /\ lots > 0 => "trade" \in Owed(agenda) /\ "event" \in Owed(agenda)
      /\ lots = 0 => "trade" \notin Owed(agenda) /\ "event" \notin Owed(agenda)
  <2> HIDE DEF agenda
  <2>1. QED
    BY <1>3, TradeAgenda DEF agenda
<1>5. op \in Operation /\ op.taken /\ op.lots = lots /\ op.price = price
  BY DEF Operation, Causes
<1> HIDE DEF agenda, op
<1>6. /\ proc' \in Process /\ proc'.agenda = agenda /\ proc'.op = op
      /\ proc'.unsaved = <<>> /\ proc'.ledger = proc.ledger /\ proc'.beside = proc.beside
  BY <1>1, <1>2, <1>4, <1>5 DEF Process
<1>7. Shape'
  BY <1>1, <1>2, <1>6 DEF Shape
<1>8. Trading'
  <2>1. lots = 0 \/ lots > 0
    BY <1>3
  <2>2. /\ FilledCids(db', runs') = TradeCids(db', runs')
        /\ RowsOf(db'.trades, runs') = FillEvents(db', runs')
    BY <1>1, <1>2
  <2>3. "trade" \notin Owed(agenda) => "event" \notin Owed(agenda)
    BY <1>4, <2>1
  <2>4. /\ proc'.op.lots \in Lots /\ proc'.op.price \in Prices
        /\ Ranked(proc'.agenda) /\ Debts(Owed(proc'.agenda), proc'.op.lots)
    BY <1>4, <1>5, <1>6
  <2>5. QED
    BY <1>1, <1>4, <1>6, <2>2, <2>3, <2>4 DEF Trading
<1>9. Owing'
  <2>1. /\ SoundLedger(proc'.ledger)
        /\ SameBookBut(Replayed(RowsOf(db'.events, runs') \o proc'.unsaved), proc'.ledger, proc'.beside)
        /\ Len(proc'.unsaved) = 0
    BY <1>1, <1>2, <1>6 DEF Owing
  <2>2. QED
    BY <1>5, <1>6, <1>8, <2>1 DEF Owing
<1>10. \A run \in 1..runs' : Chained(db', run)
  BY <1>1 DEF TablesInv
<1>11. QED
  BY <1>1, <1>2, <1>7, <1>9, <1>10 DEF TablesInv


\* What a cycle shows at its end writes no row.
CycleShows(fresh) ==
    <<"publish", "sync flag", "sync reason", "feeds">> \o (IF fresh THEN <<"cycle">> ELSE <<>>) \o <<"publish">>

LEMMA CycleAgenda ==
  ASSUME NEW fresh \in BOOLEAN
  PROVE  Plain(CycleShows(fresh)) /\ Quiet(CycleShows(fresh), 0)
<1> DEFINE first == <<"publish", "sync flag", "sync reason", "feeds">>
           cycle == <<"cycle">>
           second == IF fresh THEN cycle ELSE <<>>
           front == first \o second
           last == <<"publish">>
<1>1. \A e \in {"publish", "sync flag", "sync reason", "feeds", "cycle"} : Rank(e) = 0
  BY DEF Rank
<1>2. Plain(first) /\ Quiet(first, 0)
  <2>1. /\ first \in Seq(Effects) /\ Len(first) = 4 /\ first[1] = "publish" /\ first[2] = "sync flag"
        /\ first[3] = "sync reason" /\ first[4] = "feeds"
    BY DEF Effects
  <2> HIDE DEF first
  <2>2. \A i \in 1..4 : i = 1 \/ i = 2 \/ i = 3 \/ i = 4
    OBVIOUS
  <2>3. \A i \in 1..Len(first) : first[i] \in {"publish", "sync flag", "sync reason", "feeds"}
    BY <2>1, <2>2
  <2>4. Quiet(first, 0)
    <3>1. \A i \in 1..Len(first) : first[i] \notin {"fill", "order", "trade"} /\ first[i] # "event"
      BY <2>3
    <3> DEFINE n == Len(first)
    <3> HIDE DEF n
    <3>2. n = 4
      BY <2>1 DEF n
    <3>3. 0 <= n /\ \A i \in 1..n : ~(i <= 0)
      BY <3>2
    <3>4. 0 <= Len(first) /\ \A i \in 1..Len(first) : ~(i <= 0)
      BY <3>3 DEF n
    <3>5. QED
      BY <3>1, <3>4, Zenon DEF Quiet
  <2>5. Plain(first)
    BY <1>1, <2>1, <2>3 DEF Plain, Owed
  <2>6. QED
    BY <2>4, <2>5
<1>3. Plain(second) /\ Quiet(second, 0)
  <2>1. cycle \in Seq(Effects) /\ <<>> \in Seq(Effects)
    BY DEF Effects
  <2>2. Owed(cycle) = {"cycle"} /\ Owed(<<>>) = {}
    BY DEF Owed
  <2>3. Quiet(cycle, 0) /\ Quiet(<<>>, 0)
    BY DEF Quiet
  <2> HIDE DEF cycle
  <2>4. Plain(cycle) /\ Plain(<<>>)
    BY <1>1, <2>1, <2>2 DEF Plain
  <2>5. QED
    BY <2>3, <2>4
<1>4. CycleShows(fresh) = front \o last
  BY DEF CycleShows
<1>5. Plain(last) /\ Quiet(last, 0)
  BY PlainLists
<1> HIDE DEF first, second, last
<1>6. Plain(front) /\ Quiet(front, 0)
  BY <1>2, <1>3, PlainJoin, JoinQuiet DEF Plain
<1> HIDE DEF front
<1>7. Plain(front \o last) /\ Quiet(front \o last, 0)
  BY <1>5, <1>6, PlainJoin, JoinQuiet DEF Plain
<1>8. QED
  BY <1>4, <1>7

\* The end of a cycle marks the book and leaves it as it is.
LEMMA CycleEnds ==
  ASSUME TablesInv, Idle, NEW price \in Prices, EndCycle(price)
  PROVE  TablesInv'
<1> DEFINE agenda == CycleShows(proc.fresh)
           l == proc.ledger
           m == Marked(l, price)
           n == proc.events + NumTokens
           marks == [t \in Tokens |-> price]
<1>1. /\ proc.up /\ proc.agenda = <<>> /\ db' = db /\ runs' = runs /\ orders' = orders
      /\ proc' = [proc EXCEPT !.ledger = m, !.events = n, !.marks = marks, !.agenda = agenda, !.fresh = FALSE]
  BY DEF EndCycle, Spend, Idle, CycleShows
<1>2. Shape /\ Owing /\ SnapshotReplays(db) /\ proc \in Process /\ db \in Tables /\ proc.unsaved = <<>>
      /\ FilledCids(db, runs) = TradeCids(db, runs) /\ RowsOf(db.trades, runs) = FillEvents(db, runs)
  BY <1>1, IdleSettled DEF TablesInv, Shape
<1>3. /\ proc.fresh \in BOOLEAN /\ proc.op.taken \in BOOLEAN /\ proc.events \in Nat /\ NumTokens \in Nat
      /\ price \in Nat
  BY <1>2, LedgerAssumption, OutputsAssumption DEF Process, Operation
<1>4. /\ agenda \in Seq(Effects) /\ Quiet(agenda, 0)
      /\ \A i \in 1..Len(agenda) : Rank(agenda[i]) = 0
  <2>1. Plain(agenda) /\ Quiet(agenda, 0)
    BY <1>3, CycleAgenda
  <2> HIDE DEF agenda
  <2>2. QED
    BY <2>1 DEF Plain, Owed
<1>5. SoundLedger(m) /\ SameBookBut(Replayed(RowsOf(db.events, runs)), m, proc.beside)
  <2>1. SoundLedger(l) /\ SameBookBut(Replayed(RowsOf(db.events, runs)), l, proc.beside)
    BY <1>2, NothingWaits DEF Owing
  <2> HIDE DEF l
  <2>2. QED
    BY <1>3, <2>1, SameBookMarked
<1>6. m \in LedgerType /\ n \in Nat /\ marks \in [Tokens -> Prices \cup {NoMark}]
  BY <1>3, <1>5 DEF SoundLedger
<1> HIDE DEF agenda, m, n, marks, l
<1>7. /\ proc' \in Process /\ proc'.agenda = agenda /\ proc'.op = proc.op
      /\ proc'.unsaved = <<>> /\ proc'.ledger = m /\ proc'.beside = proc.beside
  BY <1>1, <1>2, <1>4, <1>6 DEF Process
<1>8. SameBookBut(Replayed(RowsOf(db.events, runs) \o proc'.unsaved), proc'.ledger, proc'.beside)
  <2> DEFINE rows == RowsOf(db.events, runs)
  <2>1. rows \in Seq(Row)
    BY <1>2, ViewTypes
  <2>2. SameBookBut(Replayed(rows), m, proc.beside)
    BY <1>5
  <2> HIDE DEF rows
  <2>3. rows \o <<>> = rows
    BY <2>1
  <2>4. SameBookBut(Replayed(rows \o proc'.unsaved), proc'.ledger, proc'.beside)
    BY <1>7, <2>2, <2>3
  <2>5. QED
    BY <2>4 DEF rows
<1>9. CASE ~proc.op.taken
  <2>1. Len(proc'.unsaved) = 0 /\ Quiet(proc'.agenda, Len(proc'.unsaved)) /\ ~proc'.op.taken
    BY <1>4, <1>7, <1>9
  <2>2. QED
    BY <1>1, <1>5, <1>7, <1>8, <2>1, RestingBegins
<1>10. CASE proc.op.taken
  <2>1. Trading
    BY <1>2, <1>10 DEF Owing
  <2>2. \A e \in Key : e \notin Owed(agenda)
    BY <1>4, RankIs DEF Owed, Key
  <2>3. /\ "risk" \notin Owed(agenda) /\ "fill" \notin Owed(agenda) /\ "order" \notin Owed(agenda)
        /\ "trade" \notin Owed(agenda) /\ "event" \notin Owed(agenda)
    BY <2>2 DEF Key
  <2>4. Ranked(agenda)
    BY <1>4 DEF Ranked
  <2>5. Debts(Owed(agenda), proc.op.lots)
    BY <2>3 DEF Debts
  <2>6. Trading'
    <3>1. proc.op.lots \in Lots /\ proc.op.price \in Prices
      BY <2>1 DEF Trading
    <3>2. QED
      BY <1>1, <1>2, <1>7, <2>3, <2>4, <2>5, <3>1 DEF Trading
  <2>7. Owing'
    <3>1. Len(proc'.unsaved) = 0 /\ db' = db /\ runs' = runs /\ proc'.op.taken
      BY <1>1, <1>7, <1>10
    <3>2. QED
      BY <1>5, <1>7, <1>8, <2>6, <3>1 DEF Owing
  <2>8. Shape'
    BY <1>1, <1>2, <1>7 DEF Shape
  <2>9. \A run \in 1..runs' : Chained(db', run)
    BY <1>1 DEF TablesInv
  <2>10. QED
    BY <1>1, <1>2, <2>7, <2>8, <2>9 DEF TablesInv
<1>11. QED
  BY <1>3, <1>9, <1>10

\* A flatten closes in memory what it will store row by row.
LEMMA FlattenBegins ==
  ASSUME TablesInv, Idle, NEW trips \in BOOLEAN, Flatten(trips)
  PROVE  TablesInv'
<1> DEFINE l == proc.ledger
           marks == proc.marks
<1>1. PICK order \in SetToSeqs(OpenTokens(l)) :
         proc' = [proc EXCEPT
           !.ledger = FlattenRun(proc.ledger, order, proc.marks)[Len(order)],
           !.events = proc.events + Len(order),
           !.unsaved = [i \in DOMAIN order |->
              FlattenRow(runs, order[i], CloseSide(proc.ledger.pos[order[i]]),
                         Abs(proc.ledger.pos[order[i]].qty), proc.marks[order[i]])],
           !.agenda = [i \in DOMAIN order |-> "event"] \o Tripping(trips) \o <<"publish", "snapshot">>,
           !.op = [NoOp EXCEPT !.cause = "DAILY_LOSS_EXCEEDED"]]
  BY DEF Flatten
<1> DEFINE n == Len(order)
           closes == [i \in DOMAIN order |->
              FlattenRow(runs, order[i], CloseSide(l.pos[order[i]]), Abs(l.pos[order[i]].qty),
                         marks[order[i]])]
           saves == [i \in DOMAIN order |-> "event"]
           front == saves \o Tripping(trips)
           agenda == front \o <<"publish", "snapshot">>
           m == FlattenRun(l, order, marks)[n]
           op == [NoOp EXCEPT !.cause = "DAILY_LOSS_EXCEEDED"]
           count == proc.events + n
<1>2. /\ proc.up /\ proc.agenda = <<>> /\ db' = db /\ runs' = runs /\ orders' = orders
      /\ \A t \in OpenTokens(l) : marks[t] # NoMark
  BY DEF Flatten, Spend, Idle
<1>3. proc' = [proc EXCEPT !.ledger = m, !.events = count, !.unsaved = closes, !.agenda = agenda, !.op = op]
  BY <1>1
<1>4. Shape /\ Owing /\ proc \in Process /\ db \in Tables /\ proc.unsaved = <<>> /\ runs \in 1..MaxRuns
  BY <1>2, IdleSettled DEF TablesInv, Shape
<1>5. /\ l \in LedgerType /\ SoundLedger(l) /\ marks \in [Tokens -> Prices \cup {NoMark}] /\ proc.events \in Nat
      /\ proc.beside \in Int
      /\ Prices \in SUBSET (Nat \ {0}) /\ MaxOrders \in Nat
  BY <1>4, OutputsAssumption DEF Process, Owing
<1>6. /\ OpenTokens(l) \in SUBSET Tokens
      /\ \A t \in OpenTokens(l) : marks[t] \in Prices /\ l.pos[t].qty # 0 /\ l.pos[t].qty \in Int
  BY <1>2, <1>5 DEF OpenTokens, LedgerType, Positions
<1>7. order \in Seq(OpenTokens(l)) /\ n \in Nat /\ DOMAIN order = 1..n /\ \A i \in 1..n : order[i] \in OpenTokens(l)
  <2>1. IsFiniteSet(OpenTokens(l))
    BY FiniteTokens DEF OpenTokens
  <2>2. QED
    BY <2>1, EnumerationIs
<1>8. /\ closes \in Seq(Row) /\ Len(closes) = n
      /\ \A i \in 1..n : closes[i].kind = "FLATTEN" /\ closes[i].run = runs
  <2>1. ASSUME NEW i \in 1..n
        PROVE  /\ closes[i] \in Row /\ closes[i].kind = "FLATTEN" /\ closes[i].run = runs
    <3> DEFINE t == order[i]
               p == l.pos[t]
               side == CloseSide(p)
               size == Abs(p.qty)
               mark == marks[t]
    <3>1. t \in Tokens /\ mark \in Prices /\ p.qty \in Int /\ p.qty # 0
      BY <1>6, <1>7
    <3>2. side \in Sides /\ size \in Nat \ {0}
      <4> DEFINE q == p.qty
      <4>1. q \in Int /\ q # 0
        BY <3>1
      <4>2. side \in Sides
        BY DEF CloseSide, Sides
      <4> HIDE DEF q
      <4>3. Abs(q) \in Nat \ {0}
        BY <4>1 DEF Abs
      <4>4. QED
        BY <4>2, <4>3 DEF q
    <3>3. closes[i] = FlattenRow(runs, t, side, size, mark)
      BY <1>7
    <3> HIDE DEF t, side, size, mark, closes
    <3>4. QED
      BY <1>4, <1>5, <3>1, <3>2, <3>3 DEF FlattenRow, Row
  <2> HIDE DEF n
  <2>2. closes = [i \in 1..n |-> closes[i]]
    BY <1>7
  <2> HIDE DEF closes
  <2>3. closes \in Seq(Row) /\ Len(closes) = n
    BY <1>7, <2>1, <2>2
  <2>4. QED
    BY <2>1, <2>3
<1>9. agenda \in Seq(Effects) /\ Quiet(agenda, n)
  <2>1. saves \in Seq(Effects) /\ Len(saves) = n /\ \A i \in 1..n : saves[i] = "event"
    BY <1>7 DEF Effects
  <2> HIDE DEF saves, n
  <2>2. Quiet(saves, n)
    BY <1>7, <2>1 DEF Quiet
  <2>3. Tripping(trips) \in Seq(Effects) /\ Quiet(Tripping(trips), 0)
    BY PlainLists DEF Plain
  <2>4. front \in Seq(Effects) /\ Quiet(front, n)
    BY <1>7, <2>1, <2>2, <2>3, JoinQuiet
  <2> HIDE DEF front
  <2>5. QED
    BY <1>7, <2>4, PlainLists, JoinQuiet
<1>10. SoundLedger(m) /\ SameBookBut(Replayed(RowsOf(db.events, runs) \o closes), m, proc.beside)
  <2> DEFINE rows == RowsOf(db.events, runs)
  <2>1. rows \in Seq(Row) /\ SameBookBut(Replayed(rows), l, proc.beside)
    BY <1>4, ViewTypes, NothingWaits
  <2>2. \A i \in 1..Len(rows) : Bookable(rows[i])
    <3>1. \A row \in Row : Bookable(row)
      BY <1>5 DEF Row, Bookable
    <3> HIDE DEF rows
    <3>2. QED
      BY <2>1, <3>1
  <2>3. \A t \in OpenTokens(l) : marks[t] \in Nat
    BY <1>5, <1>6
  <2> DEFINE k == m
             c == closes
  <2>4. /\ k = FlattenRun(l, order, marks)[Len(order)]
        /\ c = [i \in DOMAIN order |->
              FlattenRow(runs, order[i], CloseSide(l.pos[order[i]]), Abs(l.pos[order[i]].qty),
                         marks[order[i]])]
    OBVIOUS
  <2> DEFINE made == proc.beside
  <2>5. made \in Int /\ SoundLedger(l) /\ SameBookBut(Replayed(rows), l, made)
    BY <1>5, <2>1
  <2> HIDE DEF rows, k, c, l, marks, made
  <2>6. SoundLedger(k) /\ SameBookBut(Replayed(rows \o c), k, made)
    BY <2>1, <2>2, <2>3, <2>4, <2>5, FlattenBooks
  <2>7. QED
    BY <2>6 DEF rows, k, c, l, marks, made
<1>11. op \in Operation /\ ~op.taken
  BY NoOps DEF Causes
<1>12. m \in LedgerType /\ count \in Nat
  <2> HIDE DEF m, l, n, closes
  <2>1. m \in LedgerType
    BY <1>10 DEF SoundLedger
  <2>2. count \in Nat
    BY <1>5, <1>7
  <2>3. QED
    BY <2>1, <2>2
<1> HIDE DEF agenda, m, op, count, closes
<1>13. /\ proc' \in Process /\ proc'.agenda = agenda /\ proc'.op = op
       /\ proc'.unsaved = closes /\ proc'.ledger = m /\ proc'.beside = proc.beside
  BY <1>3, <1>4, <1>8, <1>9, <1>11, <1>12 DEF Process
<1>14. /\ ~proc'.op.taken /\ Quiet(proc'.agenda, Len(proc'.unsaved))
       /\ \A i \in 1..Len(proc'.unsaved) : proc'.unsaved[i].kind = "FLATTEN" /\ proc'.unsaved[i].run = runs
       /\ SoundLedger(proc'.ledger)
       /\ SameBookBut(Replayed(RowsOf(db.events, runs) \o proc'.unsaved), proc'.ledger, proc'.beside)
  BY <1>8, <1>9, <1>10, <1>11, <1>13
<1>15. QED
  BY <1>2, <1>13, <1>14, RestingBegins


\* A round trip moves the money of a book by what it made.
LEMMA SameBookRoundTrip ==
  ASSUME NEW l, SoundLedger(l), NEW a, NEW made \in Int, SameBookBut(a, l, made), SoundLedger(a),
         NEW best \in Int, NEW more \in Int, NEW m, m = RoundTrip(l, best, more)
  PROVE  SoundLedger(m) /\ SameBookBut(a, m, made + more)
<1> DEFINE peak == Greater(l.peak, Equity(l) + best)
           cash == l.cash + more
           realized == l.realized + more
<1>1. /\ l \in LedgerType /\ l.cash \in Int /\ l.realized \in Int /\ l.peak \in Nat
      /\ a.cash \in Int /\ a.realized \in Int
  BY DEF SoundLedger, LedgerType
<1>2. Equity(l) \in Int
  BY CommitSound
<1>3. peak \in Nat /\ cash \in Int /\ realized \in Int
  BY <1>1, <1>2 DEF Greater
<1>4. m = [l EXCEPT !.cash = cash, !.realized = realized, !.peak = peak]
  BY DEF RoundTrip
<1>5. l.cash = a.cash + made /\ l.realized = a.realized + made
  BY DEF SameBookBut
<1>6. cash = a.cash + (made + more) /\ realized = a.realized + (made + more)
  BY <1>1, <1>5
<1> HIDE DEF peak, cash, realized
<1>7. m \in LedgerType /\ m.pos = l.pos /\ m.cash = cash /\ m.realized = realized
  BY <1>1, <1>3, <1>4 DEF LedgerType
<1>8. SoundLedger(m)
  BY <1>7 DEF SoundLedger
<1>9. QED
  BY <1>6, <1>7, <1>8 DEF SameBookBut

\* A drill or a soak lot leaves no lot and no row, and is remembered by what it made.
LEMMA PracticeBegins ==
  ASSUME TablesInv, Idle, NEW best \in Int, NEW made \in Int, NEW events \in Nat, NEW trips \in BOOLEAN,
         NEW last, last = <<>> \/ last = <<"probe">>, Practices(best, made, events, trips, last)
  PROVE  TablesInv'
<1> DEFINE l == proc.ledger
           m == RoundTrip(l, best, made)
           beside == proc.beside + made
           count == proc.events + events
           front == Tripping(trips) \o <<"publish">>
           agenda == front \o last
           op == [NoOp EXCEPT !.cause = "DAILY_LOSS_EXCEEDED"]
           rows == RowsOf(db.events, runs)
<1>1. /\ proc.up /\ proc.agenda = <<>> /\ db' = db /\ runs' = runs /\ orders' = orders
      /\ proc' = [proc EXCEPT !.ledger = m, !.beside = beside, !.events = count, !.agenda = agenda, !.op = op]
  BY DEF Practices, Spend, Idle
<1>2. Shape /\ Owing /\ proc \in Process /\ db \in Tables /\ proc.unsaved = <<>>
  BY <1>1, IdleSettled DEF TablesInv, Shape
<1>3. agenda \in Seq(Effects) /\ Quiet(agenda, 0)
  <2>1. last \in Seq(Effects) /\ Quiet(last, 0)
    <3>1. <<>> \in Seq(Effects) /\ <<"probe">> \in Seq(Effects)
      BY DEF Effects
    <3>2. Quiet(<<>>, 0) /\ Quiet(<<"probe">>, 0)
      BY DEF Quiet
    <3>3. QED
      BY <3>1, <3>2
  <2>2. front \in Seq(Effects) /\ Quiet(front, 0)
    BY PlainLists, JoinQuiet DEF Plain
  <2> HIDE DEF front
  <2>3. QED
    BY <2>1, <2>2, JoinQuiet
<1>4. rows \in Seq(Row) /\ SameBookBut(Replayed(rows), l, proc.beside) /\ SoundLedger(l)
  BY <1>2, ViewTypes, NothingWaits DEF Owing
<1>5. SoundLedger(Replayed(rows))
  <2>1. \A i \in 1..Len(rows) : Bookable(rows[i])
    <3>1. \A row \in Row : Bookable(row)
      BY OutputsAssumption DEF Row, Bookable
    <3> HIDE DEF rows
    <3>2. QED
      BY <1>4, <3>1
  <2>2. Len(rows) \in Nat
    BY <1>4
  <2> HIDE DEF rows
  <2>3. QED
    BY <2>1, <2>2, ReplaySound DEF Replayed
<1>6. proc.beside \in Int /\ beside \in Int /\ count \in Nat
  BY <1>2 DEF Process
<1>7. SoundLedger(m) /\ SameBookBut(Replayed(rows), m, beside)
  <2> HIDE DEF rows, l
  <2>1. QED
    BY <1>4, <1>5, <1>6, SameBookRoundTrip
<1>8. op \in Operation /\ ~op.taken
  BY NoOps DEF Causes
<1>9. m \in LedgerType
  BY <1>7 DEF SoundLedger
<1>10. rows \o <<>> = rows
  BY <1>4
<1> HIDE DEF l, m, beside, count, agenda, op, rows
<1>11. /\ proc' \in Process /\ proc'.agenda = agenda /\ proc'.op = op
       /\ proc'.unsaved = <<>> /\ proc'.ledger = m /\ proc'.beside = beside
  BY <1>1, <1>2, <1>3, <1>6, <1>8, <1>9 DEF Process
<1>12. Quiet(proc'.agenda, Len(proc'.unsaved)) /\ Len(proc'.unsaved) = 0 /\ ~proc'.op.taken
  BY <1>3, <1>8, <1>11
<1>13. SameBookBut(Replayed(rows \o proc'.unsaved), proc'.ledger, proc'.beside)
  BY <1>7, <1>10, <1>11
<1>14. SameBookBut(Replayed(RowsOf(db.events, runs) \o proc'.unsaved), proc'.ledger, proc'.beside)
  BY <1>13 DEF rows
<1>15. QED
  BY <1>1, <1>7, <1>11, <1>12, <1>14, RestingBegins

LEMMA RoundTripStep ==
  ASSUME TablesInv, Idle, NEW trips \in BOOLEAN, NEW made \in Results,
         KillDrill(made, trips) \/ \E rise \in Prices : SoakLot(rise, made, trips)
  PROVE  TablesInv'
<1>1. made \in Int /\ Greater(0, made) \in Int /\ \A rise \in Prices : rise \in Int
  BY OutputsAssumption DEF Greater
<1>2. 2 \in Nat /\ 4 \in Nat
  OBVIOUS
<1>3. CASE KillDrill(made, trips)
  BY <1>1, <1>2, <1>3, PracticeBegins DEF KillDrill
<1>4. CASE \E rise \in Prices : SoakLot(rise, made, trips)
  BY <1>1, <1>2, <1>4, PracticeBegins DEF SoakLot
<1>5. QED
  BY <1>3, <1>4

-----------------------------------------------------------------------------
(* Crashes, restarts and the theorem *)

\* A process that is down owes nothing: what it owed is lost.
DownOwesNothing == ~proc.up => proc.agenda = <<>> /\ proc.unsaved = <<>>

\* Only a crash takes the process down.
LEMMA StaysUp ==
  ASSUME Shape, DownOwesNothing, Evaluate \/ Operate \/ Effect
  PROVE  proc.up /\ proc'.up = proc.up
<1> DEFINE r == Rest
<1>1. proc \in Process
  BY DEF Shape
<1>2. CASE Evaluate \/ Operate
  <2>1. proc.up
    BY <1>2, Zenon DEF Evaluate, Operate, Filtered, StaleCritical, Vetoed, Traded, Begin, Idle, Probing
  <2>2. proc'.up = proc.up
    <3>1. ASSUME NEW agenda, NEW op, NEW trips, Begin(agenda, op, trips) PROVE proc'.up = proc.up
      BY <1>1, <3>1 DEF Begin, Process
    <3>2. ASSUME NEW trips, Flatten(trips) PROVE proc'.up = proc.up
      BY <1>1, <3>2 DEF Flatten, Process
    <3>3. ASSUME NEW price, EndCycle(price) PROVE proc'.up = proc.up
      BY <1>1, <3>3 DEF EndCycle, Process
    <3>4. ASSUME NEW best, NEW made, NEW events, NEW trips, NEW last, Practices(best, made, events, trips, last)
          PROVE  proc'.up = proc.up
      BY <1>1, <3>4 DEF Practices, Process
    <3>5. CASE Evaluate
      BY <3>1, <3>5, Zenon DEF Evaluate, Filtered, StaleCritical, Vetoed, Traded
    <3>6. CASE Operate
      BY <3>1, <3>2, <3>3, <3>4, <3>6, Zenon DEF Operate, KillDrill, SoakLot, PositionMismatch, Reset
    <3>7. QED
      BY <1>2, <3>5, <3>6
  <2>3. QED
    BY <2>1, <2>2
<1>3. CASE Effect
  <2>1. proc.agenda # <<>>
    BY <1>3, Zenon DEF Effect, SaveFeature, SaveRisk, Fill, SaveOrderRow, SaveTrade, SaveEvent, SaveLedgerSnapshot,
         SaveSignal, Trip, Clear, FlagKill, NameReason, SyncKill, Resync, PublishLedger, ShowDecision,
         ShowFeeds, ShowCycle, Does
  <2>2. proc.up
    BY <2>1 DEF DownOwesNothing
  <2>3. r \in Process /\ r.up = proc.up
    BY <1>3, <2>1, RestIs DEF Shape
  <2>4. \/ proc' = r
        \/ SaveEvent \/ SaveSignal \/ Trip \/ Clear \/ Fill
    BY <1>3, Zenon DEF Effect, SaveFeature, SaveRisk, SaveOrderRow, SaveTrade, SaveLedgerSnapshot,
         FlagKill, NameReason, SyncKill, Resync, PublishLedger, ShowDecision, ShowFeeds, ShowCycle,
         Commits, Sets, Shows
  <2>5. CASE SaveEvent
    <3>1. proc' = [r EXCEPT !.unsaved = Tail(r.unsaved)]
      BY <2>5 DEF SaveEvent
    <3> HIDE DEF r
    <3>2. QED
      BY <2>2, <2>3, <3>1 DEF Process
  <2>6. CASE SaveSignal \/ Trip \/ Clear
    <3>1. proc' = [r EXCEPT !.fresh = TRUE] \/ \E cause : proc' = [r EXCEPT !.kill = cause]
      BY <2>6 DEF SaveSignal, Trip, Clear, Remembers
    <3> HIDE DEF r
    <3>2. QED
      BY <2>2, <2>3, <3>1 DEF Process
  <2>7. CASE Fill
    <3>1. \/ proc' = r
          \/ \E ledger, events, unsaved :
               proc' = [r EXCEPT !.ledger = ledger, !.events = events, !.unsaved = unsaved]
      BY <2>7 DEF Fill, Remembers
    <3> HIDE DEF r
    <3>2. QED
      BY <2>2, <2>3, <3>1 DEF Process
  <2>8. QED
    BY <2>2, <2>3, <2>4, <2>5, <2>6, <2>7
<1>4. QED
  BY <1>2, <1>3

\* A process starts with nothing to store.
LEMMA NewProcessIs ==
  ASSUME NEW serves \in BOOLEAN, NEW p, p = NewProcess(serves) \/ p = NoProcess
  PROVE  /\ p \in Process /\ p.agenda = <<>> /\ p.unsaved = <<>> /\ ~p.op.taken
         /\ p.ledger = FreshLedger /\ SoundLedger(p.ledger) /\ p.beside = 0
         /\ p = NewProcess(serves) => p.up
         /\ p = NoProcess => ~p.up
<1>1. FreshLedger \in LedgerType /\ SoundLedger(FreshLedger)
  BY FreshSound DEF SoundLedger
<1>2. <<>> \in Seq(Effects) /\ <<>> \in Seq(Row) /\ NoReason \in Causes
      /\ [t \in Tokens |-> NoMark] \in [Tokens -> Prices \cup {NoMark}]
  BY DEF Causes
<1>3. NoOp \in Operation /\ ~NoOp.taken
  BY NoOps
<1>4. ASSUME NEW s \in BOOLEAN
      PROVE  /\ NewProcess(s) \in Process /\ NewProcess(s).up
             /\ NewProcess(s).agenda = <<>> /\ NewProcess(s).unsaved = <<>>
             /\ NewProcess(s).op = NoOp /\ NewProcess(s).ledger = FreshLedger
             /\ NewProcess(s).beside = 0
  BY <1>1, <1>2, <1>3 DEF NewProcess, Process
<1>5. /\ NoProcess \in Process /\ ~NoProcess.up
      /\ NoProcess.agenda = <<>> /\ NoProcess.unsaved = <<>>
      /\ NoProcess.op = NoOp /\ NoProcess.ledger = FreshLedger /\ NoProcess.beside = 0
  <2> DEFINE q == NewProcess(FALSE)
  <2>1. q \in Process /\ q.agenda = <<>> /\ q.unsaved = <<>> /\ q.op = NoOp /\ q.ledger = FreshLedger
         /\ q.beside = 0
    BY <1>4
  <2> HIDE DEF q
  <2>2. NoProcess = [q EXCEPT !.up = FALSE]
    BY DEF NoProcess, q
  <2>3. QED
    BY <2>1, <2>2 DEF Process
<1>6. QED
  BY <1>1, <1>3, <1>4, <1>5

\* The tables of a run that has not begun hold nothing of it.
LEMMA NoRows ==
  ASSUME Shape, NEW run \in Nat, run > runs
  PROVE  /\ RowsOf(db.events, run) = <<>> /\ RowsOf(db.trades, run) = <<>> /\ RowsOf(db.orders, run) = <<>>
         /\ FilledOrders(db, run) = <<>> /\ FillEvents(db, run) = <<>>
<1>1. /\ db.events \in Seq(Row) /\ db.trades \in Seq(Row) /\ db.orders \in Seq(StoredOrder) /\ runs \in Nat
      /\ MaxRuns \in Nat
  BY OutputsAssumption DEF Shape, Tables
<1>2. /\ \A i \in 1..Len(db.orders) : db.orders[i].run <= runs /\ db.orders[i].run \in Nat
      /\ \A i \in 1..Len(db.trades) : db.trades[i].run <= runs /\ db.trades[i].run \in Nat
      /\ \A i \in 1..Len(db.events) : db.events[i].run <= runs /\ db.events[i].run \in Nat
  <2>1. \A row \in Row : row.run \in Nat
    BY <1>1 DEF Row
  <2>2. \A row \in StoredOrder : row.run \in Nat
    BY <1>1 DEF StoredOrder
  <2>3. QED
    BY <1>1, <2>1, <2>2 DEF Shape
<1>3. /\ \A i \in 1..Len(db.orders) : db.orders[i].run # run
      /\ \A i \in 1..Len(db.trades) : db.trades[i].run # run
      /\ \A i \in 1..Len(db.events) : db.events[i].run # run
  <2>1. \A i \in 1..Len(db.orders) : db.orders[i].run # run
    BY <1>1, <1>2
  <2>2. \A i \in 1..Len(db.trades) : db.trades[i].run # run
    BY <1>1, <1>2
  <2>3. \A i \in 1..Len(db.events) : db.events[i].run # run
    BY <1>1, <1>2
  <2>4. QED
    BY <2>1, <2>2, <2>3
<1>4. ASSUME NEW S, NEW rows \in Seq(S), \A i \in 1..Len(rows) : rows[i].run # run
      PROVE  RowsOf(rows, run) = <<>>
  <2> DEFINE places == {i \in DOMAIN rows : rows[i].run = run}
  <2>1. \A i \in 1..Len(rows) : i \notin places
    BY <1>4
  <2> HIDE DEF places
  <2>2. Select(rows, places) = <<>>
    BY <2>1, SelectNone
  <2>3. QED
    BY <2>2 DEF RowsOf, places
<1>5. FilledOrders(db, run) = <<>>
  <2> DEFINE rows == db.orders
             places == {i \in DOMAIN rows : rows[i].run = run /\ rows[i].filled > 0}
  <2>1. \A i \in 1..Len(rows) : i \notin places
    BY <1>3
  <2> HIDE DEF places
  <2>2. Select(rows, places) = <<>>
    BY <1>1, <2>1, SelectNone
  <2>3. QED
    BY <2>2 DEF FilledOrders, places
<1>6. FillEvents(db, run) = <<>>
  <2> DEFINE rows == db.events
             places == {i \in DOMAIN rows : rows[i].run = run /\ rows[i].kind = "FILL"}
  <2>1. \A i \in 1..Len(rows) : i \notin places
    BY <1>3
  <2> HIDE DEF places
  <2>2. Select(rows, places) = <<>>
    BY <1>1, <2>1, SelectNone
  <2>3. QED
    BY <2>2 DEF FillEvents, places
<1>7. QED
  BY <1>1, <1>3, <1>4, <1>5, <1>6

\* The tables of a run without rows agree.
LEMMA EmptyAgrees ==
  CidsOf(<<>>) = <<>> /\ Follows(<<>>, <<>>) /\ SameBookBut(Replayed(<<>>), FreshLedger, 0)
<1>1. CidsOf(<<>>) = <<>>
  BY DEF CidsOf
<1>2. <<>> \in Seq(Int)
  OBVIOUS
<1>3. Follows(<<>>, <<>>)
  BY <1>2, FollowsAppend
<1>4. Replayed(<<>>) = FreshLedger
  <2>1. Len(<<>>) = 0
    OBVIOUS
  <2>2. QED
    BY <2>1, ReplayNone DEF Replayed
<1>5. FreshLedger.cash \in Int /\ FreshLedger.realized \in Int
  BY LedgerAssumption DEF FreshLedger
<1>6. QED
  BY <1>1, <1>3, <1>4, <1>5 DEF SameBookBut

\* A crash keeps the tables, and every run is cut where the invariant allows it.
LEMMA CrashStep ==
  ASSUME TablesInv, Crash
  PROVE  TablesInv' /\ DownOwesNothing'
<1>1. proc' = NoProcess /\ db' = db /\ runs' = runs /\ orders' = orders
  BY DEF Crash
<1>2. proc' \in Process /\ ~proc'.up /\ proc'.agenda = <<>> /\ proc'.unsaved = <<>>
  BY <1>1, NewProcessIs
<1>3. Shape'
  BY <1>1, <1>2 DEF TablesInv, Shape
<1>4. QED
  BY <1>1, <1>2, <1>3 DEF TablesInv, DownOwesNothing

\* A restart begins a run of which the tables hold nothing.
LEMMA StartStep ==
  ASSUME TablesInv, Start
  PROVE  TablesInv' /\ DownOwesNothing'
<1>1. /\ \E serves \in BOOLEAN : proc' = NewProcess(serves)
      /\ runs < MaxRuns /\ runs' = runs + 1 /\ db' = db /\ orders' = orders
  BY DEF Start
<1>2. Shape /\ runs \in 1..MaxRuns /\ MaxRuns \in Nat /\ db \in Tables
  BY OutputsAssumption DEF TablesInv, Shape
<1>3. /\ proc' \in Process /\ proc'.up /\ proc'.agenda = <<>> /\ proc'.unsaved = <<>> /\ ~proc'.op.taken
      /\ proc'.ledger = FreshLedger /\ SoundLedger(proc'.ledger) /\ proc'.beside = 0
  BY <1>1, NewProcessIs
<1> DEFINE next == runs + 1
<1>4. next \in Nat /\ next > runs /\ next \in 1..MaxRuns /\ runs' = next
  BY <1>1, <1>2
<1>5. /\ RowsOf(db.events, next) = <<>> /\ RowsOf(db.trades, next) = <<>> /\ RowsOf(db.orders, next) = <<>>
      /\ FilledOrders(db, next) = <<>> /\ FillEvents(db, next) = <<>>
  BY <1>2, <1>4, NoRows
<1>6. FilledCids(db, next) = <<>> /\ TradeCids(db, next) = <<>>
  BY <1>5, EmptyAgrees DEF FilledCids, TradeCids
<1>7. Shape'
  <2>1. /\ db.snapshot.run <= next
        /\ \A i \in 1..Len(db.orders) : db.orders[i].run <= next /\ db.orders[i].cid <= orders
        /\ \A i \in 1..Len(db.trades) : db.trades[i].run <= next
        /\ \A i \in 1..Len(db.events) : db.events[i].run <= next
        /\ \A i \in 1..Len(db.risk) : db.risk[i].run <= next
    <3>1. \A x \in Int : x <= runs => x <= next
      BY <1>2
    <3>2. /\ db.snapshot.run \in Int
          /\ \A i \in 1..Len(db.orders) : db.orders[i].run \in Int
          /\ \A i \in 1..Len(db.trades) : db.trades[i].run \in Int
          /\ \A i \in 1..Len(db.events) : db.events[i].run \in Int
          /\ \A i \in 1..Len(db.risk) : db.risk[i].run \in Int
      <4>1. /\ \A row \in Row : row.run \in Int
            /\ \A row \in StoredOrder : row.run \in Int
            /\ \A row \in Decision : row.run \in Int
            /\ \A row \in Snapshot : row.run \in Int
        BY <1>2 DEF Row, StoredOrder, Decision, Snapshot
      <4>2. /\ db.orders \in Seq(StoredOrder) /\ db.trades \in Seq(Row) /\ db.events \in Seq(Row)
            /\ db.risk \in Seq(Decision) /\ db.snapshot \in Snapshot
        BY <1>2 DEF Tables
      <4>3. QED
        BY <4>1, <4>2
    <3> HIDE DEF next
    <3>3. QED
      BY <1>2, <3>1, <3>2 DEF Shape
  <2> HIDE DEF next
  <2>2. QED
    BY <1>1, <1>2, <1>3, <1>4, <2>1 DEF Shape
<1> HIDE DEF next
<1>8. Chained(db, next)
  <2>1. Allowed(db, next) \in Seq(Decision)
    BY <1>2, ViewTypes
  <2>2. Len(RowsOf(db.orders, next)) <= Len(Allowed(db, next))
    <3>1. Len(<<>>) = 0 /\ Len(Allowed(db, next)) \in Nat
      BY <2>1
    <3>2. QED
      BY <1>5, <3>1
  <2>3. QED
    BY <1>5, <1>6, <2>2, EmptyAgrees DEF Chained
<1>9. \A run \in 1..runs' : Chained(db', run)
  <2>1. \A run \in 1..runs : Chained(db, run)
    BY DEF TablesInv
  <2>2. \A run \in 1..next : run \in 1..runs \/ run = next
    BY <1>2, <1>4 DEF next
  <2>3. QED
    BY <1>1, <1>4, <1>8, <2>1, <2>2
<1>10. SnapshotReplays(db')
  BY <1>1 DEF TablesInv
<1>11. Resting'
  <2>1. Quiet(proc'.agenda, Len(proc'.unsaved)) /\ Len(proc'.unsaved) = 0
    <3>1. Quiet(<<>>, 0) /\ Len(<<>>) = 0
      BY DEF Quiet
    <3>2. QED
      BY <1>3, <3>1
  <2>2. FilledCids(db', runs') = TradeCids(db', runs') /\ RowsOf(db'.trades, runs') = FillEvents(db', runs')
    BY <1>1, <1>4, <1>5, <1>6
  <2>3. QED
    BY <2>1, <2>2 DEF Resting
<1>12. Owing'
  <2>1. SameBookBut(Replayed(RowsOf(db'.events, runs') \o proc'.unsaved), proc'.ledger, proc'.beside)
    <3>1. <<>> \o <<>> = <<>>
      OBVIOUS
    <3>2. RowsOf(db'.events, runs') = <<>> /\ proc'.unsaved = <<>>
      BY <1>1, <1>3, <1>4, <1>5
    <3>3. QED
      BY <1>3, <3>1, <3>2, EmptyAgrees
  <2>2. Len(proc'.unsaved) = 0
    BY <1>3
  <2>3. QED
    BY <1>3, <1>11, <2>1, <2>2 DEF Owing
<1>13. QED
  BY <1>3, <1>7, <1>9, <1>10, <1>12 DEF TablesInv, DownOwesNothing

\* The tables are empty when the first process starts.
LEMMA TablesBegin ==
  ASSUME Init
  PROVE  TablesInv /\ DownOwesNothing
<1>1. (\E serves \in BOOLEAN : proc = NewProcess(serves)) /\ db = EmptyTables /\ runs = 1 /\ orders = 0
  BY DEF Init
<1>2. /\ proc \in Process /\ proc.up /\ proc.agenda = <<>> /\ proc.unsaved = <<>> /\ ~proc.op.taken
      /\ proc.ledger = FreshLedger /\ SoundLedger(proc.ledger) /\ proc.beside = 0
  BY <1>1, NewProcessIs
<1>3. /\ db.events = <<>> /\ db.trades = <<>> /\ db.orders = <<>> /\ db.risk = <<>>
      /\ db.snapshot = NoSnapshot /\ db \in Tables
  <2>1. NoSnapshot \in Snapshot
    <3>1. FreshLedger \in LedgerType
      BY FreshSound DEF SoundLedger
    <3>2. 0 \in 0..MaxRuns
      BY OutputsAssumption
    <3>3. QED
      BY <3>1, <3>2 DEF NoSnapshot, Snapshot
  <2>2. QED
    BY <1>1, <2>1 DEF EmptyTables, Tables
<1>4. Shape
  <2>1. Len(<<>>) = 0 /\ NoSnapshot.run = 0
    BY DEF NoSnapshot
  <2>2. 1 \in 1..MaxRuns /\ 0 \in 0..MaxOrders
    BY OutputsAssumption
  <2>3. QED
    BY <1>1, <1>2, <1>3, <2>1, <2>2 DEF Shape
<1>5. \A run : RowsOf(<<>>, run) = <<>>
  BY SelectEmpty DEF RowsOf
<1>6. /\ RowsOf(db.events, 1) = <<>> /\ RowsOf(db.trades, 1) = <<>> /\ RowsOf(db.orders, 1) = <<>>
      /\ FilledOrders(db, 1) = <<>> /\ FillEvents(db, 1) = <<>> /\ Allowed(db, 1) = <<>>
      /\ RowsOf(db.events, 0) = <<>>
  BY <1>3, <1>5, SelectEmpty DEF FilledOrders, FillEvents, Allowed
<1>7. FilledCids(db, 1) = <<>> /\ TradeCids(db, 1) = <<>>
  BY <1>6, EmptyAgrees DEF FilledCids, TradeCids
<1>8. \A run \in 1..runs : Chained(db, run)
  <2>1. Len(RowsOf(db.orders, 1)) <= Len(Allowed(db, 1))
    BY <1>6
  <2>2. Chained(db, 1)
    BY <1>6, <1>7, <2>1, EmptyAgrees DEF Chained
  <2>3. QED
    BY <1>1, <2>2
<1>9. SnapshotReplays(db)
  <2>1. db.snapshot.run = 0 /\ db.snapshot.ledger = FreshLedger /\ db.snapshot.beside = 0
    BY <1>3 DEF NoSnapshot
  <2>2. 0 \in 0..Len(<<>>) /\ SameBookBut(ReplayedTo(<<>>, 0), FreshLedger, 0)
    BY EmptyAgrees DEF Replayed
  <2>3. QED
    BY <1>6, <2>1, <2>2 DEF SnapshotReplays
<1>10. Resting
  <2>1. Quiet(<<>>, 0) /\ Len(<<>>) = 0
    BY DEF Quiet
  <2>2. QED
    BY <1>1, <1>2, <1>6, <1>7, <2>1 DEF Resting
<1>11. Owing
  <2>1. <<>> \o <<>> = <<>> /\ Len(<<>>) = 0
    OBVIOUS
  <2>2. QED
    BY <1>1, <1>2, <1>6, <1>10, <2>1, EmptyAgrees DEF Owing
<1>12. QED
  BY <1>2, <1>4, <1>8, <1>9, <1>11 DEF TablesInv, DownOwesNothing

\* The invariant is preserved.
LEMMA TablesNext ==
  ASSUME TablesInv, DownOwesNothing, [Next]_vars
  PROVE  TablesInv' /\ DownOwesNothing'
<1>1. Shape
  BY DEF TablesInv
<1>2. CASE Evaluate \/ Operate
  <2>1. TablesInv'
    <3>1. ASSUME NEW trips \in BOOLEAN, Vetoed(trips) PROVE TablesInv'
      BY <3>1, RefusalStep
    <3>2. ASSUME Filtered \/ StaleCritical \/ PositionMismatch \/ Reset PROVE TablesInv'
      BY <3>2, RefusalStep
    <3>3. ASSUME NEW t \in Tokens, NEW lots \in Lots, NEW price \in Prices, NEW trips \in BOOLEAN,
                 Traded(t, lots, price, trips)
          PROVE  TablesInv'
      BY <3>3, TradeBegins
    <3>4. CASE Evaluate
      BY <3>1, <3>2, <3>3, <3>4 DEF Evaluate
    <3>5. ASSUME Idle, NEW price \in Prices, EndCycle(price) PROVE TablesInv'
      BY <3>5, CycleEnds
    <3>6. ASSUME Idle, NEW trips \in BOOLEAN, Flatten(trips) PROVE TablesInv'
      BY <3>6, FlattenBegins
    <3>7. ASSUME Idle, NEW trips \in BOOLEAN, NEW made \in Results,
                 KillDrill(made, trips) \/ \E rise \in Prices : SoakLot(rise, made, trips)
          PROVE  TablesInv'
      BY <3>7, RoundTripStep
    <3>8. CASE Operate
      BY <3>2, <3>5, <3>6, <3>7, <3>8 DEF Operate
    <3>9. QED
      BY <1>2, <3>4, <3>8
  <2>2. proc'.up
    BY <1>1, <1>2, StaysUp
  <2>3. QED
    BY <2>1, <2>2 DEF DownOwesNothing
<1>3. CASE Effect
  <2>1. proc.up /\ proc'.up
    BY <1>1, <1>3, StaysUp
  <2>2. TablesInv'
    <3>1. \/ Wordless \/ SaveRisk \/ Fill \/ SaveOrderRow \/ SaveTrade \/ SaveEvent \/ SaveLedgerSnapshot
      BY <1>3 DEF Effect, Wordless
    <3>2. QED
      BY <2>1, <3>1, WordlessStep, RiskStep, FillStep, OrderStep, TradeStep, EventStep, SnapshotStep
  <2>3. QED
    BY <2>1, <2>2 DEF DownOwesNothing
<1>4. CASE Crash
  BY <1>4, CrashStep
<1>5. CASE Start
  BY <1>5, StartStep
<1>6. CASE Serve \/ UNCHANGED vars
  <2>1. proc' = proc /\ db' = db /\ runs' = runs /\ orders' = orders
    BY <1>6 DEF Serve, vars, outputVars
  <2>2. Shape'
    BY <1>1, <2>1 DEF Shape
  <2>3. Owing => Owing'
    <3>1. Trading => Trading'
      BY <2>1 DEF Trading, TheFill
    <3>2. Resting => Resting'
      BY <2>1 DEF Resting
    <3>3. QED
      BY <2>1, <3>1, <3>2 DEF Owing
  <2>4. QED
    BY <2>1, <2>2, <2>3 DEF TablesInv, DownOwesNothing
<1>7. QED
  BY <1>2, <1>3, <1>4, <1>5, <1>6 DEF Next

\* The invariant says of the tables what TablesAgree says of them.
LEMMA TablesFollow ==
  ASSUME TablesInv, DownOwesNothing
  PROVE  TablesAgree
<1>1. \A run \in 1..runs :
         /\ Follows(CidsOf(RowsOf(db.trades, run)), CidsOf(FilledOrders(db, run)))
         /\ Follows(FillEvents(db, run), RowsOf(db.trades, run))
         /\ Len(RowsOf(db.orders, run)) <= Len(Allowed(db, run))
  BY DEF TablesInv, Chained, TradeCids, FilledCids
<1>2. LET rows == RowsOf(db.events, db.snapshot.run)
      IN  \E n \in 0..Len(rows) : SameBookBut(ReplayedTo(rows, n), db.snapshot.ledger, db.snapshot.beside)
  BY DEF TablesInv, SnapshotReplays
<1>3. ASSUME Idle
      PROVE  /\ SameBookBut(Replayed(RowsOf(db.events, runs)), proc.ledger, proc.beside)
             /\ CidsOf(FillEvents(db, runs)) = CidsOf(FilledOrders(db, runs))
  <2>1. Shape /\ Owing /\ proc.agenda = <<>>
    BY <1>3 DEF Idle, TablesInv
  <2>2. /\ proc.unsaved = <<>> /\ FilledCids(db, runs) = TradeCids(db, runs)
        /\ RowsOf(db.trades, runs) = FillEvents(db, runs)
    BY <2>1, IdleSettled
  <2>3. SameBookBut(Replayed(RowsOf(db.events, runs)), proc.ledger, proc.beside)
    BY <2>1, <2>2, NothingWaits
  <2>4. QED
    BY <2>2, <2>3 DEF FilledCids, TradeCids
<1>4. QED
  BY <1>1, <1>2, <1>3, Zenon DEF TablesAgree

\* After any crashes and restarts the tables agree with each other as far as a crash
\* between two commits allows, and with the memory of the process at rest: for any
\* number of markets, prices, orders, operations and runs, while dashboards read.
THEOREM TablesCorrect == Spec => []TablesAgree
<1>1. Init => TablesInv /\ DownOwesNothing
  BY TablesBegin
<1>2. TablesInv /\ DownOwesNothing /\ [Next]_vars => TablesInv' /\ DownOwesNothing'
  BY TablesNext
<1>3. TablesInv /\ DownOwesNothing => TablesAgree
  BY TablesFollow
<1>4. QED
  BY <1>1, <1>2, <1>3, PTL DEF Spec


-----------------------------------------------------------------------------
(* Types, and the lock and ring of the dashboard *)

KillState == [kill : BOOLEAN, reason : Causes]

Hub == [events : Nat, open : Nat, recent : Seq({"TRADE", "SKIP"}), feeds : BOOLEAN, cycles : Nat]

Places == {"off", "ask", "waiting", "woken", "copy", "rest", "send"}

ReaderState == [at : Places, current : BOOLEAN, status : KillState, kill : KillState]

\* the ring of decisions is never longer than its bound
Ringed(content) == content \in Hub /\ Len(content.recent) <= MaxRecent

\* who copies holds the lock, and one alone
HubInv ==
    /\ Ringed(hub) /\ health \in KillState
    /\ lock \in Readers \cup {"free"}
    /\ reader \in [Readers -> ReaderState]
    /\ \A r \in Readers : lock = r <=> reader[r].at \in {"copy", "rest"}
    /\ connections \in 0..MaxConnections

LEMMA HubBegins ==
  ASSUME HubInit
  PROVE  HubInv
<1>1. /\ hub = NewHub /\ health = Healthy /\ lock = "free"
      /\ reader = [r \in Readers |-> Off] /\ connections = 0
  BY DEF HubInit
<1>2. Healthy \in KillState
  BY DEF Healthy, KillState, Causes
<1>3. Off \in ReaderState /\ Off.at = "off"
  BY <1>2 DEF Off, ReaderState, Places
<1>4. Ringed(NewHub)
  <2>1. <<>> \in Seq({"TRADE", "SKIP"}) /\ Len(<<>>) = 0
    OBVIOUS
  <2>2. NewHub \in Hub /\ NewHub.recent = <<>>
    BY <2>1 DEF NewHub, Hub
  <2>3. QED
    BY <2>1, <2>2, HubAssumption DEF Ringed
<1>5. QED
  BY <1>1, <1>2, <1>3, <1>4, HubAssumption DEF HubInv

\* A crash leaves no dashboard.
LEMMA HubFalls ==
  ASSUME HubInv, HubDown
  PROVE  HubInv'
<1>1. /\ hub' = NewHub /\ health' = Healthy /\ lock' = "free"
      /\ reader' = [r \in Readers |-> Off] /\ connections' = connections
  BY DEF HubDown
<1>2. Healthy \in KillState
  BY DEF Healthy, KillState, Causes
<1>3. Off \in ReaderState /\ Off.at = "off"
  BY <1>2 DEF Off, ReaderState, Places
<1>4. Ringed(NewHub)
  <2>1. <<>> \in Seq({"TRADE", "SKIP"}) /\ Len(<<>>) = 0
    OBVIOUS
  <2>2. NewHub \in Hub /\ NewHub.recent = <<>>
    BY <2>1 DEF NewHub, Hub
  <2>3. QED
    BY <2>1, <2>2, HubAssumption DEF Ringed
<1>5. QED
  BY <1>1, <1>2, <1>3, <1>4, HubAssumption DEF HubInv

\* A publication finds nobody inside the lock, and wakes who waits.
LEMMA PublishStep ==
  ASSUME HubInv, NEW content, Ringed(content), Publish(content)
  PROVE  HubInv'
<1>1. /\ lock = "free" /\ hub' = content /\ reader' = [r \in Readers |-> Outdated(reader[r])]
      /\ health' = health /\ lock' = lock /\ connections' = connections
  BY DEF Publish
<1>2. ASSUME NEW r \in Readers
      PROVE  /\ Outdated(reader[r]) \in ReaderState
             /\ Outdated(reader[r]).at \notin {"copy", "rest"}
  <2> DEFINE s == reader[r]
             at == IF s.at = "waiting" THEN "woken" ELSE s.at
  <2>1. s \in ReaderState /\ s.at \notin {"copy", "rest"}
    BY <1>1, HubAssumption DEF HubInv
  <2>2. at \in Places /\ at \notin {"copy", "rest"}
    BY <2>1 DEF ReaderState, Places
  <2>3. Outdated(s) = [s EXCEPT !.current = FALSE, !.at = at]
    BY DEF Outdated
  <2> HIDE DEF s, at
  <2>4. Outdated(s) \in ReaderState /\ Outdated(s).at = at
    BY <2>1, <2>2, <2>3 DEF ReaderState
  <2>5. QED
    BY <2>2, <2>4 DEF s
<1>3. /\ reader' \in [Readers -> ReaderState]
      /\ \A r \in Readers : lock' = r <=> reader'[r].at \in {"copy", "rest"}
  BY <1>1, <1>2, HubAssumption
<1>4. QED
  BY <1>1, <1>3 DEF HubInv

\* One reader moves: it holds the lock exactly while it copies.
LEMMA ReaderStep ==
  ASSUME HubInv, NEW r \in Readers, Connect(r) \/ Reads(r) \/ Gone(r)
  PROVE  HubInv'
<1> DEFINE s == reader[r]
<1>1. s \in ReaderState /\ health \in KillState /\ Off \in ReaderState /\ Copying \in ReaderState
      /\ Off.at = "off" /\ Copying.at = "copy"
  <2>1. Healthy \in KillState
    BY DEF Healthy, KillState, Causes
  <2>2. Off \in ReaderState /\ Off.at = "off"
    BY <2>1 DEF Off, ReaderState, Places
  <2>3. Copying \in ReaderState /\ Copying.at = "copy"
    BY <2>2 DEF Copying, ReaderState, Places
  <2>4. QED
    BY <2>2, <2>3 DEF HubInv
<1>2. ASSUME NEW at \in Places PROVE [s EXCEPT !.at = at] \in ReaderState /\ [s EXCEPT !.at = at].at = at
  BY <1>1 DEF ReaderState
<1>3. ASSUME NEW changed \in ReaderState, reader' = [reader EXCEPT ![r] = changed],
             hub' = hub, health' = health, connections' \in 0..MaxConnections,
             \/ lock' = lock /\ (changed.at \in {"copy", "rest"} <=> s.at \in {"copy", "rest"})
             \/ lock = "free" /\ lock' = r /\ changed.at \in {"copy", "rest"}
             \/ lock = r /\ lock' = "free" /\ changed.at \notin {"copy", "rest"}
      PROVE  HubInv'
  <2>1. reader \in [Readers -> ReaderState] /\ lock \in Readers \cup {"free"}
        /\ \A q \in Readers : lock = q <=> reader[q].at \in {"copy", "rest"}
    BY DEF HubInv
  <2>2. reader' \in [Readers -> ReaderState] /\ reader'[r] = changed
        /\ \A q \in Readers : q # r => reader'[q] = reader[q]
    BY <1>3, <2>1
  <2>3. lock' \in Readers \cup {"free"}
    BY <1>3, <2>1
  <2>4. \A q \in Readers : lock' = q <=> reader'[q].at \in {"copy", "rest"}
    BY <1>3, <2>1, <2>2, HubAssumption
  <2>5. QED
    BY <1>3, <2>2, <2>3, <2>4 DEF HubInv
<1>4. connections \in 0..MaxConnections /\ MaxConnections \in Nat /\ (lock = r <=> s.at \in {"copy", "rest"})
  BY HubAssumption DEF HubInv
<1>5. CASE Connect(r)
  <2> DEFINE changed == [Off EXCEPT !.at = "ask"]
  <2>1. changed \in ReaderState /\ changed.at = "ask"
    BY <1>1 DEF ReaderState, Places
  <2>2. /\ s.at = "off" /\ connections < MaxConnections /\ connections' = connections + 1
        /\ reader' = [reader EXCEPT ![r] = changed] /\ hub' = hub /\ health' = health /\ lock' = lock
    BY <1>5 DEF Connect
  <2> HIDE DEF s, changed
  <2>3. connections' \in 0..MaxConnections
    BY <1>4, <2>2
  <2>4. QED
    BY <1>3, <2>1, <2>2, <2>3
<1>6. CASE Ask(r) /\ s.current
  <2> DEFINE changed == [s EXCEPT !.at = "waiting"]
  <2>1. changed \in ReaderState /\ changed.at = "waiting"
    BY <1>2 DEF Places
  <2>2. /\ s.at = "ask" /\ reader' = [reader EXCEPT ![r] = changed]
        /\ hub' = hub /\ health' = health /\ lock' = lock /\ connections' = connections
    BY <1>6 DEF Ask, Step
  <2> HIDE DEF s, changed
  <2>3. QED
    BY <1>3, <1>4, <2>1, <2>2
<1>7. CASE (Ask(r) /\ ~s.current) \/ Reacquire(r)
  <2>1. /\ lock = "free" /\ lock' = r /\ reader' = [reader EXCEPT ![r] = Copying]
        /\ hub' = hub /\ health' = health /\ connections' = connections
    BY <1>7 DEF Ask, Reacquire, Step
  <2> HIDE DEF s
  <2>2. QED
    BY <1>1, <1>3, <1>4, <2>1
<1>8. CASE TimesOut(r)
  <2> DEFINE changed == [s EXCEPT !.at = "woken"]
  <2>1. changed \in ReaderState /\ changed.at = "woken"
    BY <1>2 DEF Places
  <2>2. /\ s.at = "waiting" /\ reader' = [reader EXCEPT ![r] = changed]
        /\ hub' = hub /\ health' = health /\ lock' = lock /\ connections' = connections
    BY <1>8 DEF TimesOut, Step
  <2> HIDE DEF s, changed
  <2>3. QED
    BY <1>3, <1>4, <2>1, <2>2
<1>9. CASE CopyStatus(r)
  <2> DEFINE changed == [s EXCEPT !.at = "rest", !.status = health]
  <2>1. changed \in ReaderState /\ changed.at = "rest"
    BY <1>1 DEF ReaderState, Places
  <2>2. /\ s.at = "copy" /\ reader' = [reader EXCEPT ![r] = changed]
        /\ hub' = hub /\ health' = health /\ lock' = lock /\ connections' = connections
    BY <1>9 DEF CopyStatus, Step
  <2> HIDE DEF s, changed
  <2>3. QED
    BY <1>3, <1>4, <2>1, <2>2
<1>10. CASE CopyRest(r)
  <2> DEFINE changed == [s EXCEPT !.at = "send", !.current = TRUE, !.kill = health]
  <2>1. changed \in ReaderState /\ changed.at = "send"
    BY <1>1 DEF ReaderState, Places
  <2>2. /\ s.at = "rest" /\ reader' = [reader EXCEPT ![r] = changed]
        /\ hub' = hub /\ health' = health /\ lock' = "free" /\ connections' = connections
    BY <1>10 DEF CopyRest, Step
  <2>3. lock = r
    BY <1>4, <2>2
  <2> HIDE DEF s, changed
  <2>4. QED
    BY <1>3, <1>4, <2>1, <2>2, <2>3
<1>11. CASE Send(r)
  <2> DEFINE changed == [s EXCEPT !.at = "ask"]
  <2>1. changed \in ReaderState /\ changed.at = "ask"
    BY <1>2 DEF Places
  <2>2. /\ s.at = "send" /\ reader' = [reader EXCEPT ![r] = changed]
        /\ hub' = hub /\ health' = health /\ lock' = lock /\ connections' = connections
    BY <1>11 DEF Send, Step
  <2> HIDE DEF s, changed
  <2>3. QED
    BY <1>3, <1>4, <2>1, <2>2
<1>12. CASE Gone(r)
  <2>1. /\ s.at = "send" /\ reader' = [reader EXCEPT ![r] = Off]
        /\ hub' = hub /\ health' = health /\ lock' = lock /\ connections' = connections
    BY <1>12 DEF Gone, Step
  <2> HIDE DEF s
  <2>2. QED
    BY <1>1, <1>3, <1>4, <2>1
<1>13. QED
  BY <1>5, <1>6, <1>7, <1>8, <1>9, <1>10, <1>11, <1>12 DEF Reads

\* The newest decisions fit the ring.
LEMMA PushedFits ==
  ASSUME NEW recent \in Seq({"TRADE", "SKIP"}), Len(recent) <= MaxRecent, NEW decision \in {"TRADE", "SKIP"}
  PROVE  Pushed(recent, decision) \in Seq({"TRADE", "SKIP"}) /\ Len(Pushed(recent, decision)) <= MaxRecent
<1> DEFINE all == <<decision>> \o recent
           k == IF Len(recent) < MaxRecent THEN Len(recent) + 1 ELSE MaxRecent
           n == Len(recent)
<1>1. all \in Seq({"TRADE", "SKIP"}) /\ Len(all) = n + 1 /\ n \in Nat
  OBVIOUS
<1>2. k \in 1..(n + 1) /\ k <= MaxRecent /\ MaxRecent \in Nat
  BY HubAssumption
<1>3. Pushed(recent, decision) = SubSeq(all, 1, k)
  BY DEF Pushed
<1> HIDE DEF all, k
<1>4. SubSeq(all, 1, k) \in Seq({"TRADE", "SKIP"}) /\ Len(SubSeq(all, 1, k)) = k
  BY <1>1, <1>2
<1>5. QED
  BY <1>2, <1>3, <1>4

\* What the effects show fits the hub and the health record.
LEMMA HubEffect ==
  ASSUME HubInv, Shape, Effect
  PROVE  HubInv'
<1>1. /\ hub \in Hub /\ hub.recent \in Seq({"TRADE", "SKIP"}) /\ Len(hub.recent) <= MaxRecent
      /\ health \in KillState /\ proc \in Process /\ proc.op.cause \in Causes /\ proc.kill \in Causes
      /\ NoReason \in Causes
  BY DEF HubInv, Ringed, Hub, Shape, Process, Operation, Causes
<1>2. CASE UNCHANGED hubVars
  BY <1>2 DEF hubVars, HubInv
<1>3. ASSUME NEW changed \in KillState, SetHealth(changed) PROVE HubInv'
  BY <1>3 DEF SetHealth, HubInv
<1>4. \/ UNCHANGED hubVars
      \/ FlagKill \/ NameReason \/ SyncKill \/ Resync \/ PublishLedger \/ ShowDecision \/ ShowFeeds \/ ShowCycle
  BY Zenon DEF Effect, SaveFeature, SaveRisk, Fill, SaveOrderRow, SaveTrade, SaveEvent, SaveLedgerSnapshot,
     SaveSignal, Trip, Clear, Commits, Remembers
<1>5. CASE FlagKill \/ NameReason \/ SyncKill \/ Resync
  <2>1. /\ [health EXCEPT !.kill = TRUE] \in KillState /\ [health EXCEPT !.kill = FALSE] \in KillState
        /\ [health EXCEPT !.reason = proc.op.cause] \in KillState
        /\ [health EXCEPT !.reason = NoReason] \in KillState
        /\ [health EXCEPT !.kill = proc.kill # NoReason] \in KillState
        /\ [health EXCEPT !.reason = proc.kill] \in KillState
    BY <1>1 DEF KillState
  <2>2. PICK changed \in KillState : SetHealth(changed)
    BY <1>1, <1>5, <2>1 DEF FlagKill, NameReason, SyncKill, Resync, Sets
  <2>3. QED
    BY <1>3, <2>2
<1>6. CASE PublishLedger
  <2> DEFINE open == Cardinality(OpenTokens(proc.ledger))
             content == [hub EXCEPT !.events = proc.events, !.open = open]
  <2>1. open \in Nat
    <3>1. IsFiniteSet(OpenTokens(proc.ledger))
      BY FiniteTokens DEF OpenTokens
    <3>2. QED
      BY <3>1, FS_CardinalityType
  <2>2. proc.events \in Nat
    BY <1>1 DEF Process
  <2>3. Publish(content)
    BY <1>6 DEF PublishLedger, Shows, NoteLedger
  <2> HIDE DEF open
  <2>4. Ringed(content)
    BY <1>1, <2>1, <2>2 DEF Ringed, Hub
  <2>5. QED
    BY <2>3, <2>4, PublishStep
<1>7. CASE ShowDecision
  <2>1. PICK decision \in {"TRADE", "SKIP"} : NoteDecision(decision)
    BY <1>7 DEF ShowDecision, Shows
  <2> DEFINE recent == Pushed(hub.recent, decision)
             content == [hub EXCEPT !.recent = recent]
  <2>2. recent \in Seq({"TRADE", "SKIP"}) /\ Len(recent) <= MaxRecent
    BY <1>1, PushedFits
  <2>3. Publish(content)
    BY <2>1 DEF NoteDecision
  <2> HIDE DEF recent
  <2>4. Ringed(content)
    BY <1>1, <2>2 DEF Ringed, Hub
  <2>5. QED
    BY <2>3, <2>4, PublishStep
<1>8. CASE ShowFeeds
  <2> DEFINE content == [hub EXCEPT !.feeds = TRUE]
  <2>1. Publish(content)
    BY <1>8 DEF ShowFeeds, Shows, NoteFeeds
  <2>2. Ringed(content)
    BY <1>1 DEF Ringed, Hub
  <2>3. QED
    BY <2>1, <2>2, PublishStep
<1>9. CASE ShowCycle
  <2> DEFINE n == hub.cycles + 1
             content == [hub EXCEPT !.cycles = n]
  <2>1. Publish(content) /\ n \in Nat
    BY <1>1, <1>9 DEF ShowCycle, Shows, NoteCycle, Hub
  <2> HIDE DEF n
  <2>2. Ringed(content)
    BY <1>1, <2>1 DEF Ringed, Hub
  <2>3. QED
    BY <2>1, <2>2, PublishStep
<1>10. QED
  BY <1>2, <1>4, <1>5, <1>6, <1>7, <1>8, <1>9

LEMMA HubNext ==
  ASSUME HubInv, Shape, [Next]_vars
  PROVE  HubInv'
<1>1. CASE UNCHANGED hubVars
  BY <1>1 DEF hubVars, HubInv
<1>2. CASE Evaluate \/ Operate
  <2>1. UNCHANGED hubVars
    BY <1>2, Zenon DEF Evaluate, Operate, Filtered, StaleCritical, Vetoed, Flatten, Traded, EndCycle, KillDrill,
                       SoakLot, Practices, PositionMismatch, Reset, Begin, Spend
  <2>2. QED
    BY <1>1, <2>1
<1>3. CASE Crash
  BY <1>3, HubFalls DEF Crash
<1>4. CASE Serve
  BY <1>4, ReaderStep DEF Serve, HubStep
<1>5. QED
  BY <1>1, <1>2, <1>3, <1>4, HubEffect DEF Next, Start, vars

\* Every part of the state has its type; the ring of decisions and the readers keep
\* their bounds; the lock is held by the one reader that copies.
THEOREM TypeCorrect == Spec => []TypeOK
<1>1. Init => TablesInv /\ DownOwesNothing /\ HubInv
  BY TablesBegin, HubBegins DEF Init
<1>2. TablesInv /\ DownOwesNothing /\ HubInv /\ [Next]_vars => TablesInv' /\ DownOwesNothing' /\ HubInv'
  BY TablesNext, HubNext DEF TablesInv
<1>3. ASSUME TablesInv, DownOwesNothing, HubInv PROVE TypeOK
  <2>1. /\ proc \in Process /\ db \in Tables /\ runs \in 1..MaxRuns /\ orders \in 0..MaxOrders /\ Shape
    BY <1>3 DEF TablesInv, Shape
  <2>2. /\ proc.ledger \in LedgerType /\ proc.unsaved \in Seq(Row)
        /\ db.events \in Seq(Row) /\ db.trades \in Seq(Row) /\ db.risk \in Seq(Decision)
        /\ db.signals \in Nat /\ db.features \in Nat /\ db.snapshot \in Snapshot
    BY <2>1 DEF Process, Tables
  <2>3. ASSUME NEW S, NEW s \in Seq(S) PROVE Range(s) \subseteq S
    BY DEF Range
  <2>4. proc.agenda = <<>> => proc.unsaved = <<>>
    BY <1>3, <2>1, IdleSettled DEF TablesInv, DownOwesNothing
  <2>5. db.snapshot.run \in 0..MaxRuns /\ db.snapshot.ledger \in LedgerType
    BY <2>2 DEF Snapshot
  <2>6. HubTypeOK
    <3>1. \A r \in Readers : reader[r].at \in Places /\ reader[r].current \in BOOLEAN
      BY <1>3 DEF HubInv, ReaderState
    <3>2. health.kill \in BOOLEAN
      BY <1>3 DEF HubInv, KillState
    <3>3. QED
      BY <1>3, <3>1, <3>2 DEF HubInv, HubTypeOK, Ringed, Hub, Places
  <2>7. QED
    BY <2>1, <2>2, <2>3, <2>4, <2>5, <2>6 DEF TypeOK
<1>4. QED
  BY <1>1, <1>2, <1>3, PTL DEF Spec


=============================================================================
