------------------------- MODULE PaperLedgerProofs -------------------------
(***************************************************************************)
(* PaperLedger for every number of tokens, every price, size, fee and      *)
(* bound: it stays a well-formed double-entry ledger, its event list       *)
(* replays to exactly the ledger it describes, its peak is the high-water  *)
(* mark of the recorded equities, a flatten leaves only cash, and equity   *)
(* moves by marks and fees alone.                                          *)
(***************************************************************************)
EXTENDS PaperLedger, RulesProofs, SequenceTheorems

-----------------------------------------------------------------------------
(* Events *)

\* A fill between two ledgers records an event of the event type.
LEMMA FillEventType ==
  ASSUME NEW kind \in Kinds, NEW t \in Tokens, NEW side \in Sides, NEW size \in Nat,
         NEW price \in Nat, NEW fee \in Nat,
         NEW before, SoundLedger(before), NEW after, SoundLedger(after)
  PROVE  FillEvent(kind, t, side, size, price, fee, before, after) \in EventType
<1>1. /\ after.realized \in Int /\ before.realized \in Int /\ after.cash \in Int
  BY DEF SoundLedger, LedgerType
<1>2. Equity(after) \in Int
  BY CommitSound
<1>3. (~Adds(before.pos[t], Signed(side, size))) \in BOOLEAN
  OBVIOUS
<1>4. after.realized - before.realized \in Int
  BY <1>1
<1> DEFINE closed == ~Adds(before.pos[t], Signed(side, size))
           gain == after.realized - before.realized
           equity == Equity(after)
<1> HIDE DEF closed, gain, equity
<1>5. [kind |-> kind, token |-> t, side |-> side, size |-> size, price |-> price,
       fee |-> fee, closed |-> closed, realized |-> gain,
       cash |-> after.cash, equity |-> equity] \in EventType
  <2>1. closed \in BOOLEAN /\ gain \in Int /\ equity \in Int /\ after.cash \in Int
    BY <1>1, <1>2, <1>3, <1>4 DEF closed, gain, equity
  <2>2. QED
    BY <2>1 DEF EventType
<1>6. QED
  BY <1>5, Zenon DEF FillEvent, closed, gain, equity

\* A mark on a sound ledger is recorded as a well-formed event.
LEMMA MarkEventType ==
  ASSUME NEW t \in Tokens, NEW price \in Nat, NEW after, SoundLedger(after)
  PROVE  MarkEvent(t, price, after) \in EventType
<1>1. after.cash \in Int
  BY DEF SoundLedger, LedgerType
<1>2. Equity(after) \in Int
  BY CommitSound
<1>3. QED
  BY <1>1, <1>2 DEF MarkEvent, EventType, Kinds

\* The fees of the opening fills of a list of events.
FeesOf(evts) ==
  SumUpTo([i \in 1..Len(evts) |-> IF evts[i].closed THEN 0 ELSE evts[i].fee], Len(evts))

\* The terms of OpeningFees are integers, so the sum lemmas apply to them.
LEMMA FeesSummable ==
  ASSUME NEW evts \in Seq(EventType)
  PROVE  Summable([i \in 1..Len(evts) |-> IF evts[i].closed THEN 0 ELSE evts[i].fee], Len(evts))
<1> DEFINE f == [i \in 1..Len(evts) |-> IF evts[i].closed THEN 0 ELSE evts[i].fee]
<1>1. \A i \in 1..Len(evts) : evts[i].fee \in Nat
  <2>1. \A e \in EventType : e.fee \in Nat
    BY DEF EventType
  <2>2. \A i \in 1..Len(evts) : evts[i] \in EventType
    OBVIOUS
  <2>3. QED
    BY <2>1, <2>2
<1>2. QED
  BY <1>1 DEF Summable

\* OpeningFees is an integer.
LEMMA FeesInt ==
  ASSUME NEW evts \in Seq(EventType)
  PROVE  FeesOf(evts) \in Int
<1> DEFINE f == [i \in 1..Len(evts) |-> IF evts[i].closed THEN 0 ELSE evts[i].fee]
<1>1. Summable(f, Len(evts)) /\ Len(evts) \in Nat
  BY FeesSummable
<1>2. FeesOf(evts) = SumUpTo(f, Len(evts))
  BY DEF FeesOf
<1> HIDE DEF f
<1>3. QED
  BY <1>1, <1>2, SumInt

\* One more event adds its fee, unless it closes.
LEMMA FeesAppend ==
  ASSUME NEW evts \in Seq(EventType), NEW e \in EventType
  PROVE  FeesOf(Append(evts, e)) = FeesOf(evts) + (IF e.closed THEN 0 ELSE e.fee)
<1> DEFINE n == Len(evts)
           more == Append(evts, e)
           f == [i \in 1..n |-> IF evts[i].closed THEN 0 ELSE evts[i].fee]
           g == [i \in 1..(n + 1) |-> IF more[i].closed THEN 0 ELSE more[i].fee]
<1>1. n \in Nat /\ more \in Seq(EventType) /\ Len(more) = n + 1
  OBVIOUS
<1>2. more[n + 1] = e /\ \A i \in 1..n : more[i] = evts[i]
  OBVIOUS
<1>3. Summable(f, n) /\ Summable(g, n + 1)
  BY <1>1, FeesSummable
<1>4. FeesOf(evts) = SumUpTo(f, n) /\ FeesOf(more) = SumUpTo(g, n + 1)
  BY <1>1 DEF FeesOf
<1>5. (\A i \in 1..n : g[i] = f[i]) /\ g[n + 1] = IF e.closed THEN 0 ELSE e.fee
  BY <1>1, <1>2
<1> HIDE DEF f, g, n, more
<1>6. SumUpTo(g, n + 1) = SumUpTo(g, n) + g[n + 1]
  BY <1>1, <1>3, SumStep
<1>7. SumUpTo(g, n) = SumUpTo(f, n)
  BY <1>1, <1>3, <1>5, SumPadded
<1>8. QED
  BY <1>4, <1>5, <1>6, <1>7 DEF more

\* Events without a fee add nothing.
LEMMA FeesConcat ==
  ASSUME NEW evts \in Seq(EventType), NEW more \in Seq(EventType),
         \A i \in 1..Len(more) : more[i].fee = 0
  PROVE  FeesOf(evts \o more) = FeesOf(evts)
<1> DEFINE n == Len(evts)
           all == evts \o more
           m == Len(all)
           f == [i \in 1..n |-> IF evts[i].closed THEN 0 ELSE evts[i].fee]
           g == [i \in 1..m |-> IF all[i].closed THEN 0 ELSE all[i].fee]
<1>1. n \in Nat /\ m \in Nat /\ n <= m /\ m = n + Len(more)
  OBVIOUS
<1>2. \A i \in 1..n : all[i] = evts[i]
  OBVIOUS
<1>3. \A i \in (n + 1)..m : all[i] = more[i - n] /\ i - n \in 1..Len(more)
  BY <1>1
<1>4. Summable(f, n)
  BY FeesSummable
<1>5. \A i \in 1..n : g[i] = f[i]
  BY <1>1, <1>2
<1>6. \A i \in (n + 1)..m : g[i] = 0
  BY <1>1, <1>3
<1>7. FeesOf(evts) = SumUpTo(f, n) /\ FeesOf(all) = SumUpTo(g, m)
  BY DEF FeesOf
<1> HIDE DEF f, g, n, m, all
<1>8. SumUpTo(g, m) = SumUpTo(f, n)
  BY <1>1, <1>4, <1>5, <1>6, SumPadded
<1>9. QED
  BY <1>7, <1>8 DEF all

-----------------------------------------------------------------------------
(* Invariants *)

Inv == TypeOK /\ CashIdentity

\* TypeOK and the opening fees in the terms the step lemmas use.
LEMMA InvMeaning ==
  /\ TypeOK <=> SoundLedger(ledger) /\ events \in Seq(EventType)
  /\ OpeningFees = FeesOf(events)
BY DEF TypeOK, SoundLedger, OpeningFees, FeesOf

\* The double-entry identity is the balance of the ledger.
LEMMA IdentityMeaning ==
  ASSUME TypeOK
  PROVE  CashIdentity <=> Balance(ledger) = StartingCash - FeesOf(events)
<1>1. ledger.cash \in Int /\ ledger.realized \in Int /\ ledger.pos \in [Tokens -> Positions]
  BY DEF TypeOK, LedgerType
<1>2. BookValue(ledger) \in Int
  BY <1>1, ValueType DEF BookValue
<1>3. FeesOf(events) \in Int /\ StartingCash \in Nat
  BY FeesInt, LedgerAssumption DEF TypeOK
<1>4. OpeningFees = FeesOf(events)
  BY InvMeaning
<1> DEFINE c == ledger.cash
           r == ledger.realized
           b == BookValue(ledger)
           f == FeesOf(events)
<1>5. CashIdentity <=> c + b = StartingCash + r - f
  BY <1>4 DEF CashIdentity
<1>6. Balance(ledger) = c + b - r
  BY DEF Balance
<1>7. c \in Int /\ r \in Int /\ b \in Int /\ f \in Int /\ StartingCash \in Int
  BY <1>1, <1>2, <1>3
<1> HIDE DEF c, r, b, f
<1>8. c + b = StartingCash + r - f <=> c + b - r = StartingCash - f
  BY <1>7
<1>9. QED
  BY <1>5, <1>6, <1>8 DEF f

\* A fresh ledger balances.
LEMMA InitInv == Init => Inv
<1>1. SUFFICES ASSUME Init PROVE Inv
  OBVIOUS
<1>2. ledger = FreshLedger /\ events = <<>>
  BY <1>1 DEF Init
<1>3. events \in Seq(EventType)
  BY <1>2
<1>4. TypeOK
  BY <1>2, <1>3, FreshSound, InvMeaning
<1>5. FeesOf(events) = 0
  BY <1>2, SumZero DEF FeesOf
<1>6. QED
  BY <1>2, <1>4, <1>5, FreshSound, IdentityMeaning, LedgerAssumption DEF Inv

\* What a step must establish, in terms of the new ledger and events.
LEMMA InvNext ==
  ASSUME SoundLedger(ledger'), events' \in Seq(EventType),
         Balance(ledger') = StartingCash - FeesOf(events')
  PROVE  Inv'
<1>1. /\ TypeOK' <=> SoundLedger(ledger') /\ events' \in Seq(EventType)
      /\ OpeningFees' = FeesOf(events')
  BY DEF TypeOK, SoundLedger, OpeningFees, FeesOf
<1>2. TypeOK'
  BY <1>1
<1>3. /\ ledger'.cash \in Int /\ ledger'.realized \in Int
      /\ ledger'.pos \in [Tokens -> Positions]
  BY DEF SoundLedger, LedgerType
<1>4. BookValue(ledger') \in Int
  BY <1>3, ValueType DEF BookValue
<1>5. FeesOf(events') \in Int /\ StartingCash \in Int
  BY FeesInt, LedgerAssumption
<1> DEFINE c == ledger'.cash
           r == ledger'.realized
           b == BookValue(ledger')
           f == FeesOf(events')
<1>6. CashIdentity' <=> c + b = StartingCash + r - f
  <2>1. BookValue(ledger)' = BookValue(ledger')
    BY DEF BookValue
  <2>2. QED
    BY <1>1, <2>1 DEF CashIdentity
<1>7. c + b - r = StartingCash - f
  BY DEF Balance
<1>8. c \in Int /\ r \in Int /\ b \in Int /\ f \in Int /\ StartingCash \in Int
  BY <1>3, <1>4, <1>5
<1> HIDE DEF c, r, b, f
<1>9. c + b = StartingCash + r - f
  BY <1>7, <1>8
<1>10. QED
  BY <1>2, <1>6, <1>9 DEF Inv

\* apply_fill keeps the ledger sound and balanced.
LEMMA FillInv ==
  ASSUME Inv, NEW t \in Tokens, NEW side \in Sides, NEW size \in Sizes, NEW price \in Prices,
         NEW fee \in Fees, Fill(t, side, size, price, fee)
  PROVE  Inv'
<1> DEFINE after == ApplyFill(ledger, t, side, size, price, fee)
           e == FillEvent("FILL", t, side, size, price, fee, ledger, after)
           adds == Adds(ledger.pos[t], Signed(side, size))
<1>1. size \in Nat /\ price \in Nat /\ fee \in Nat
  BY InputAssumption
<1>2. ledger' = after /\ events' = Append(events, e)
  BY DEF Fill
<1>3. /\ SoundLedger(ledger) /\ events \in Seq(EventType)
      /\ Balance(ledger) = StartingCash - FeesOf(events)
  BY InvMeaning, IdentityMeaning DEF Inv
<1>4. SoundLedger(after) /\ Balance(after) = Balance(ledger) - (IF adds THEN fee ELSE 0)
  BY <1>1, <1>3, FillBalances
<1>5. "FILL" \in Kinds
  BY DEF Kinds
<1>6. e.closed = ~adds /\ e.fee = fee
  BY DEF FillEvent
<1> HIDE DEF after
<1>7. e \in EventType
  BY <1>1, <1>3, <1>4, <1>5, FillEventType
<1> HIDE DEF e, adds
<1>8. FeesOf(events') = FeesOf(events) + (IF adds THEN fee ELSE 0)
  BY <1>2, <1>3, <1>6, <1>7, FeesAppend
<1>9. events' \in Seq(EventType)
  BY <1>2, <1>3, <1>7
<1>10. Balance(ledger') = StartingCash - FeesOf(events')
  <2>1. FeesOf(events) \in Int /\ StartingCash \in Int
    BY <1>3, FeesInt, LedgerAssumption
  <2>2. QED
    BY <1>1, <1>2, <1>3, <1>4, <1>8, <2>1
<1>11. QED
  BY <1>2, <1>4, <1>9, <1>10, InvNext

\* mark keeps the ledger sound and balanced.
LEMMA MarkInv ==
  ASSUME Inv, NEW t \in Tokens, NEW price \in Prices, Mark(t, price)
  PROVE  Inv'
<1> DEFINE after == ApplyMark(ledger, t, price)
           e == MarkEvent(t, price, after)
<1>1. price \in Nat
  BY InputAssumption
<1>2. ledger' = after /\ events' = Append(events, e)
  BY DEF Mark
<1>3. /\ SoundLedger(ledger) /\ events \in Seq(EventType)
      /\ Balance(ledger) = StartingCash - FeesOf(events)
  BY InvMeaning, IdentityMeaning DEF Inv
<1>4. SoundLedger(after) /\ Balance(after) = Balance(ledger)
  BY <1>1, <1>3, MarkBalances
<1>5. e.closed = FALSE /\ e.fee = 0
  BY DEF MarkEvent
<1> HIDE DEF after
<1>6. e \in EventType
  BY <1>1, <1>4, MarkEventType
<1> HIDE DEF e
<1>7. FeesOf(events') = FeesOf(events) + 0
  BY <1>2, <1>3, <1>5, <1>6, FeesAppend
<1>8. events' \in Seq(EventType)
  BY <1>2, <1>3, <1>6
<1>9. FeesOf(events) \in Int
  BY <1>3, FeesInt
<1>10. QED
  BY <1>2, <1>3, <1>4, <1>7, <1>8, <1>9, InvNext

\* flatten, close by close, keeps the ledger sound and balanced.
LEMMA FlattenInv ==
  ASSUME Inv, NEW marks \in [Tokens -> Prices \cup {NoMark}], Flatten(marks)
  PROVE  Inv'
<1>1. PICK order \in SetToSeqs(OpenTokens(ledger)) :
        /\ \A t \in OpenTokens(ledger) : marks[t] # NoMark
        /\ ledger' = FlattenRun(ledger, order, marks)[Len(order)]
        /\ events' = events \o FlattenEvents(FlattenRun(ledger, order, marks), order, marks)
  BY DEF Flatten
<1> DEFINE run == FlattenRun(ledger, order, marks)
           more == FlattenEvents(run, order, marks)
<1>2. order \in Seq(Tokens) /\ \A i \in 1..Len(order) : order[i] \in OpenTokens(ledger)
  BY OrderOfOpen
<1>3. Len(order) \in Nat
  BY <1>2
<1>4. \A i \in 1..Len(order) : order[i] \in Tokens /\ marks[order[i]] \in Nat
  BY <1>1, <1>2, InputAssumption DEF OpenTokens
<1>5. /\ SoundLedger(ledger) /\ events \in Seq(EventType)
      /\ Balance(ledger) = StartingCash - FeesOf(events)
  BY InvMeaning, IdentityMeaning DEF Inv
<1>6. \A n \in 0..Len(order) : SoundLedger(run[n]) /\ Balance(run[n]) = Balance(ledger)
  BY <1>2, <1>4, <1>5, RunBalances
<1> HIDE DEF run
<1>7. ASSUME NEW i \in 1..Len(order)
      PROVE  more[i] \in EventType /\ more[i].fee = 0
  <2> DEFINE t == order[i]
             p == run[i - 1].pos[t]
  <2>1. SoundLedger(run[i - 1]) /\ SoundLedger(run[i])
    BY <1>3, <1>6
  <2>2. t \in Tokens /\ marks[t] \in Nat
    BY <1>4
  <2>3. p.qty \in Int
    BY <2>1, <2>2 DEF SoundLedger, LedgerType, Positions
  <2>4. CloseSide(p) \in Sides /\ Abs(p.qty) \in Nat /\ "FLATTEN" \in Kinds
    BY <2>3, AbsType DEF CloseSide, Sides, Kinds
  <2>5. more[i] = FillEvent("FLATTEN", t, CloseSide(p), Abs(p.qty), marks[t], 0,
                            run[i - 1], run[i])
    BY DEF FlattenEvents
  <2> HIDE DEF p, t
  <2>6. FillEvent("FLATTEN", t, CloseSide(p), Abs(p.qty), marks[t], 0, run[i - 1], run[i])
          \in EventType
    BY <2>1, <2>2, <2>4, FillEventType
  <2>7. FillEvent("FLATTEN", t, CloseSide(p), Abs(p.qty), marks[t], 0, run[i - 1], run[i]).fee = 0
    BY DEF FillEvent
  <2>8. QED
    BY <2>5, <2>6, <2>7
<1>8. more \in Seq(EventType) /\ Len(more) = Len(order)
  <2>1. more = [i \in 1..Len(order) |-> more[i]]
    BY DEF FlattenEvents
  <2> HIDE DEF more
  <2>2. QED
    BY <1>3, <1>7, <2>1
<1>9. FeesOf(events') = FeesOf(events)
  <2> HIDE DEF more
  <2>1. events' = events \o more
    BY <1>1 DEF run, more
  <2>2. QED
    BY <1>5, <1>7, <1>8, <2>1, FeesConcat
<1>10. events' \in Seq(EventType)
  BY <1>1, <1>5, <1>8 DEF run
<1>11. SoundLedger(ledger') /\ Balance(ledger') = Balance(ledger)
  BY <1>1, <1>3, <1>6 DEF run
<1>12. QED
  BY <1>5, <1>9, <1>10, <1>11, InvNext

\* Inv is inductive.
LEMMA NextInv == Inv /\ [Next]_vars => Inv'
<1>1. SUFFICES ASSUME Inv, [Next]_vars PROVE Inv'
  OBVIOUS
<1>2. CASE \E t \in Tokens, side \in Sides, size \in Sizes, price \in Prices, fee \in Fees :
             Fill(t, side, size, price, fee)
  BY <1>1, <1>2, FillInv
<1>3. CASE \E t \in Tokens, price \in Prices : Mark(t, price)
  BY <1>1, <1>3, MarkInv
<1>4. CASE \E marks \in [Tokens -> Prices \cup {NoMark}] : Flatten(marks)
  BY <1>1, <1>4, FlattenInv
<1>5. CASE UNCHANGED vars
  <2>1. ledger' = ledger /\ events' = events
    BY <1>5 DEF vars
  <2>2. /\ SoundLedger(ledger) /\ events \in Seq(EventType)
        /\ Balance(ledger) = StartingCash - FeesOf(events)
    BY <1>1, InvMeaning, IdentityMeaning DEF Inv
  <2>3. QED
    BY <2>1, <2>2, InvNext
<1>6. QED
  BY <1>1, <1>2, <1>3, <1>4, <1>5 DEF Next

\* Every reachable ledger is well formed: costs, fees and the peak are never
\* negative, an empty position carries no cost, an open one has a mark.
THEOREM TypeCorrect == Spec => []TypeOK
<1>1. Inv => TypeOK
  BY DEF Inv
<1>2. QED
  BY <1>1, InitInv, NextInv, PTL DEF Spec

\* Double entry holds of every sequence of fills, marks and flattens, whatever the
\* prices and sizes, with partial closes that do not divide and flips through zero.
THEOREM DoubleEntry == Spec => []CashIdentity
<1>1. Inv => CashIdentity
  BY DEF Inv
<1>2. QED
  BY <1>1, InitInv, NextInv, PTL DEF Spec

-----------------------------------------------------------------------------
(* Replay *)

ReplayFunction(r, evts, n) ==
  r = [i \in 0..n |-> IF i = 0 THEN FreshLedger ELSE ApplyEvent(r[i - 1], evts[i])]

\* The recursion equation of replay_events has a solution.
LEMMA ReplayExists ==
  ASSUME NEW n \in Nat, NEW evts
  PROVE  \E r : ReplayFunction(r, evts, n)
<1> DEFINE Bad == {m \in 0..n : ~ \E r : ReplayFunction(r, evts, m)}
<1>1. SUFFICES ASSUME Bad # {} PROVE FALSE
  OBVIOUS
<1>2. PICK m \in Bad : \A k \in Bad : m <= k
  <2>1. Bad \in SUBSET Nat
    OBVIOUS
  <2>2. QED
    BY <1>1, <2>1, LeastNat
<1>3. m # 0
  <2>1. ReplayFunction([i \in 0..0 |-> FreshLedger], evts, 0)
    BY DEF ReplayFunction
  <2>2. QED
    BY <2>1
<1>4. m - 1 \in 0..n /\ m - 1 \notin Bad
  BY <1>2, <1>3
<1>5. PICK q : ReplayFunction(q, evts, m - 1)
  BY <1>4
<1> DEFINE r == [i \in 0..m |-> IF i = m THEN ApplyEvent(q[m - 1], evts[m]) ELSE q[i]]
<1>6. ASSUME NEW i \in 0..m
      PROVE  r[i] = IF i = 0 THEN FreshLedger ELSE ApplyEvent(r[i - 1], evts[i])
  <2>1. CASE i = m
    <3>1. m - 1 \in 0..m /\ m - 1 # m
      BY <1>3
    <3>2. r[m - 1] = q[m - 1]
      BY <3>1
    <3>3. QED
      BY <2>1, <3>2, <1>3
  <2>2. CASE i # m
    <3>1. i \in 0..(m - 1)
      BY <2>2
    <3>2. q[i] = IF i = 0 THEN FreshLedger ELSE ApplyEvent(q[i - 1], evts[i])
      BY <1>5, <3>1 DEF ReplayFunction
    <3>3. i # 0 => r[i - 1] = q[i - 1]
      BY <3>1
    <3>4. QED
      BY <2>2, <3>2, <3>3
  <2>3. QED
    BY <2>1, <2>2
<1>7. ReplayFunction(r, evts, m)
  BY <1>6, Zenon DEF ReplayFunction
<1>8. QED
  BY <1>2, <1>7

\* Two replays of lists that share their first m events agree up to there.
LEMMA ReplayUnique ==
  ASSUME NEW n \in Nat, NEW m \in Nat, m <= n, NEW evts, NEW short, NEW p, NEW q,
         \A i \in 1..m : evts[i] = short[i],
         ReplayFunction(p, evts, n), ReplayFunction(q, short, m)
  PROVE  p[m] = q[m]
<1> DEFINE Bad == {i \in 0..m : p[i] # q[i]}
<1>1. SUFFICES ASSUME Bad # {} PROVE FALSE
  OBVIOUS
<1>2. PICK i \in Bad : \A k \in Bad : i <= k
  <2>1. Bad \in SUBSET Nat
    OBVIOUS
  <2>2. QED
    BY <1>1, <2>1, LeastNat
<1>3. \A j \in 0..m : /\ p[j] = IF j = 0 THEN FreshLedger ELSE ApplyEvent(p[j - 1], evts[j])
                      /\ q[j] = IF j = 0 THEN FreshLedger ELSE ApplyEvent(q[j - 1], short[j])
  <2>1. \A j \in 0..n : p[j] = IF j = 0 THEN FreshLedger ELSE ApplyEvent(p[j - 1], evts[j])
    BY Zenon DEF ReplayFunction
  <2>2. \A j \in 0..m : q[j] = IF j = 0 THEN FreshLedger ELSE ApplyEvent(q[j - 1], short[j])
    BY Zenon DEF ReplayFunction
  <2>3. \A j \in 0..m : j \in 0..n
    OBVIOUS
  <2>4. QED
    BY <2>1, <2>2, <2>3
<1>4. i # 0 /\ i \in 0..m
  BY <1>2, <1>3
<1>5. i - 1 \in 0..m /\ i - 1 \notin Bad /\ i \in 1..m
  BY <1>2, <1>4
<1>6. p[i - 1] = q[i - 1] /\ evts[i] = short[i]
  BY <1>5
<1>7. QED
  BY <1>2, <1>3, <1>4, <1>6

\* Replay is the last ledger of any solution.
LEMMA ReplayValue ==
  ASSUME NEW evts, Len(evts) \in Nat, NEW r, ReplayFunction(r, evts, Len(evts))
  PROVE  Replay(evts) = r[Len(evts)]
<1> DEFINE at == CHOOSE at : at = [i \in 0..Len(evts) |->
                   IF i = 0 THEN FreshLedger ELSE ApplyEvent(at[i - 1], evts[i])]
<1>1. Replay(evts) = at[Len(evts)]
  BY DEF Replay
<1>2. ReplayFunction(at, evts, Len(evts))
  BY DEF ReplayFunction
<1> HIDE DEF at
<1>3. QED
  BY <1>1, <1>2, ReplayUnique

\* Replaying a longer list goes through the replay of its beginning and then
\* applies the remaining events one by one.
LEMMA ReplayExtends ==
  ASSUME NEW evts, Len(evts) \in Nat, NEW all, Len(all) \in Nat, Len(evts) <= Len(all),
         \A i \in 1..Len(evts) : all[i] = evts[i]
  PROVE  \E r : /\ r[Len(evts)] = Replay(evts)
                /\ r[Len(all)] = Replay(all)
                /\ \A i \in 1..Len(all) : r[i] = ApplyEvent(r[i - 1], all[i])
<1>1. PICK r : ReplayFunction(r, all, Len(all))
  BY ReplayExists
<1>2. PICK q : ReplayFunction(q, evts, Len(evts))
  BY ReplayExists
<1>3. r[Len(evts)] = q[Len(evts)]
  BY <1>1, <1>2, ReplayUnique
<1>4. Replay(all) = r[Len(all)] /\ Replay(evts) = q[Len(evts)]
  BY <1>1, <1>2, ReplayValue
<1>5. \A i \in 1..Len(all) : r[i] = ApplyEvent(r[i - 1], all[i])
  BY <1>1 DEF ReplayFunction
<1>6. QED
  BY <1>3, <1>4, <1>5

\* Replaying one more event applies it to what the earlier events rebuild.
LEMMA ReplayAppend ==
  ASSUME NEW evts \in Seq(EventType), NEW e
  PROVE  Replay(Append(evts, e)) = ApplyEvent(Replay(evts), e)
<1> DEFINE all == Append(evts, e)
           n == Len(evts)
<1>1. n \in Nat /\ Len(all) = n + 1 /\ all[n + 1] = e /\ \A i \in 1..n : all[i] = evts[i]
  OBVIOUS
<1> HIDE DEF all, n
<1>2. n = Len(evts) /\ Len(all) \in Nat /\ Len(evts) \in Nat /\ Len(evts) <= Len(all)
  BY <1>1 DEF n
<1>3. PICK r : /\ r[n] = Replay(evts)
               /\ r[Len(all)] = Replay(all)
               /\ \A i \in 1..Len(all) : r[i] = ApplyEvent(r[i - 1], all[i])
  BY <1>1, <1>2, ReplayExtends
<1>4. n + 1 \in 1..Len(all) /\ (n + 1) - 1 = n
  BY <1>1
<1>5. r[n + 1] = ApplyEvent(r[n], e)
  BY <1>1, <1>3, <1>4
<1>6. QED
  BY <1>1, <1>3, <1>5 DEF all

\* The event a fill records, replayed on the ledger it met, gives the ledger it left.
LEMMA FillReplays ==
  ASSUME NEW kind \in {"FILL", "FLATTEN"}, NEW t, NEW side, NEW size, NEW price, NEW fee,
         NEW before, NEW after, NEW l
  PROVE  ApplyEvent(l, FillEvent(kind, t, side, size, price, fee, before, after))
           = ApplyFill(l, t, side, size, price, fee)
<1> DEFINE e == FillEvent(kind, t, side, size, price, fee, before, after)
<1>1. /\ e.kind = kind /\ e.token = t /\ e.side = side /\ e.size = size
      /\ e.price = price /\ e.fee = fee
  BY DEF FillEvent
<1>2. kind # "MARK"
  OBVIOUS
<1> HIDE DEF e
<1>3. ApplyEvent(l, e) = ApplyFill(l, t, side, size, price, fee)
  BY <1>1, <1>2, Zenon DEF ApplyEvent
<1>4. QED
  BY <1>3 DEF e

\* apply_fill records an event that replays to what it did.
LEMMA ReplayFill ==
  ASSUME Inv, ReplayExact, NEW t \in Tokens, NEW side \in Sides, NEW size \in Sizes,
         NEW price \in Prices, NEW fee \in Fees, Fill(t, side, size, price, fee)
  PROVE  ReplayExact'
<1> DEFINE after == ApplyFill(ledger, t, side, size, price, fee)
           e == FillEvent("FILL", t, side, size, price, fee, ledger, after)
<1>1. ledger' = after /\ events' = Append(events, e)
  BY DEF Fill
<1>2. events \in Seq(EventType) /\ Replay(events) = ledger
  BY InvMeaning DEF Inv, ReplayExact
<1>3. ApplyEvent(ledger, e) = after
  BY FillReplays
<1> HIDE DEF e, after
<1>4. Replay(events') = after
  BY <1>1, <1>2, <1>3, ReplayAppend
<1>5. QED
  BY <1>1, <1>4 DEF ReplayExact

\* mark records an event that replays to what it did.
LEMMA ReplayMark ==
  ASSUME Inv, ReplayExact, NEW t \in Tokens, NEW price \in Prices, Mark(t, price)
  PROVE  ReplayExact'
<1> DEFINE after == ApplyMark(ledger, t, price)
           e == MarkEvent(t, price, after)
<1>1. ledger' = after /\ events' = Append(events, e)
  BY DEF Mark
<1>2. events \in Seq(EventType) /\ Replay(events) = ledger
  BY InvMeaning DEF Inv, ReplayExact
<1>3. e.kind = "MARK" /\ e.token = t /\ e.price = price
  BY DEF MarkEvent
<1> HIDE DEF e
<1>4. ApplyEvent(ledger, e) = after
  BY <1>3 DEF ApplyEvent
<1> HIDE DEF after
<1>5. Replay(events') = after
  BY <1>1, <1>2, <1>4, ReplayAppend
<1>6. QED
  BY <1>1, <1>5 DEF ReplayExact

\* The closing events of a flatten replay its run step by step.
LEMMA ReplayFlatten ==
  ASSUME Inv, ReplayExact, NEW marks \in [Tokens -> Prices \cup {NoMark}], Flatten(marks)
  PROVE  ReplayExact'
<1>1. PICK order \in SetToSeqs(OpenTokens(ledger)) :
        /\ ledger' = FlattenRun(ledger, order, marks)[Len(order)]
        /\ events' = events \o FlattenEvents(FlattenRun(ledger, order, marks), order, marks)
  BY DEF Flatten
<1> DEFINE run == FlattenRun(ledger, order, marks)
           more == FlattenEvents(run, order, marks)
           all == events \o more
           n == Len(events)
           m == Len(order)
<1>2. events \in Seq(EventType) /\ Replay(events) = ledger /\ n \in Nat
  BY InvMeaning DEF Inv, ReplayExact
<1>3. m \in Nat
  BY OrderOfOpen
<1>4. run[0] = ledger /\ \A i \in 1..m : run[i] = CloseOne(run[i - 1], order[i], marks)
  BY <1>3, RunSteps
<1> HIDE DEF run
<1>5. \A i \in 1..m : ApplyEvent(run[i - 1], more[i]) = run[i]
  <2>1. TAKE i \in 1..m
  <2> DEFINE t == order[i]
             p == run[i - 1].pos[t]
  <2>2. more[i] = FillEvent("FLATTEN", t, CloseSide(p), Abs(p.qty), marks[t], 0,
                            run[i - 1], run[i])
    BY DEF FlattenEvents
  <2>3. run[i] = ApplyFill(run[i - 1], t, CloseSide(p), Abs(p.qty), marks[t], 0)
    BY <1>4 DEF CloseOne
  <2> HIDE DEF p, t
  <2>4. QED
    BY <2>2, <2>3, FillReplays
<1>6. more \in Seq(EventType \cup {more[i] : i \in 1..m}) /\ Len(more) = m
  <2>1. more = [i \in 1..m |-> more[i]]
    BY DEF FlattenEvents
  <2> HIDE DEF more, m
  <2>2. QED
    BY <1>3, <2>1
<1>7. /\ Len(all) = n + m
      /\ \A i \in 1..n : all[i] = events[i]
      /\ \A i \in 1..m : all[n + i] = more[i]
  <2> DEFINE T == EventType \cup {more[i] : i \in 1..m}
  <2> HIDE DEF more, m
  <2>1. events \in Seq(T) /\ more \in Seq(T)
    BY <1>2, <1>6
  <2> HIDE DEF T
  <2>2. Len(all) = n + m
    BY <1>6, <2>1
  <2>3. \A i \in 1..n : all[i] = events[i]
    BY <2>1
  <2>4. \A i \in 1..m : all[n + i] = more[i]
    BY <1>2, <1>3, <1>6, <2>1
  <2>5. QED
    BY <2>2, <2>3, <2>4
<1> HIDE DEF more, all, n, m
<1>8. PICK r : /\ r[n] = Replay(events)
               /\ r[n + m] = Replay(all)
               /\ \A i \in 1..(n + m) : r[i] = ApplyEvent(r[i - 1], all[i])
  <2>1. n = Len(events) /\ Len(events) \in Nat /\ Len(all) \in Nat /\ Len(events) <= Len(all)
    BY <1>2, <1>3, <1>7 DEF n
  <2>2. \A i \in 1..Len(events) : all[i] = events[i]
    BY <1>7, <2>1
  <2>3. PICK r : /\ r[Len(events)] = Replay(events)
                 /\ r[Len(all)] = Replay(all)
                 /\ \A i \in 1..Len(all) : r[i] = ApplyEvent(r[i - 1], all[i])
    BY <2>1, <2>2, ReplayExtends
  <2>4. QED
    BY <1>7, <2>1, <2>3
<1>9. r[n + m] = run[m]
  <2> DEFINE Bad == {i \in 0..m : r[n + i] # run[i]}
  <2>1. SUFFICES ASSUME Bad # {} PROVE FALSE
    BY <1>3
  <2>2. PICK i \in Bad : \A k \in Bad : i <= k
    <3>1. Bad \in SUBSET Nat
      BY <1>3
    <3>2. QED
      BY <2>1, <3>1, LeastNat
  <2>3. i # 0
    BY <1>2, <1>4, <1>8, <2>2
  <2>4. i - 1 \in 0..m /\ i - 1 \notin Bad /\ i \in 1..m
    BY <1>3, <2>2, <2>3
  <2>5. n + i \in 1..(n + m) /\ (n + i) - 1 = n + (i - 1)
    BY <1>2, <1>3, <2>4
  <2>6. r[n + i] = ApplyEvent(r[n + (i - 1)], all[n + i])
    BY <1>8, <2>5
  <2>7. r[n + (i - 1)] = run[i - 1]
    BY <2>4
  <2>8. r[n + i] = ApplyEvent(run[i - 1], more[i])
    BY <1>7, <2>4, <2>6, <2>7
  <2>9. QED
    BY <1>5, <2>2, <2>4, <2>8
<1>10. ledger' = run[m] /\ events' = all
  BY <1>1, Zenon DEF run, more, all, m
<1>11. QED
  BY <1>8, <1>9, <1>10 DEF ReplayExact

\* The empty event list replays to the fresh ledger.
LEMMA ReplayInit == Init => ReplayExact
<1>1. SUFFICES ASSUME Init PROVE ReplayExact
  OBVIOUS
<1>2. ledger = FreshLedger /\ Len(events) = 0
  BY <1>1 DEF Init
<1>3. ReplayFunction([i \in 0..0 |-> FreshLedger], events, 0)
  BY DEF ReplayFunction
<1>4. QED
  BY <1>2, <1>3, ReplayValue DEF ReplayExact

\* "Equity is replayable from explicit events only", for every event list the
\* ledger can record.
THEOREM Replayable == Spec => []ReplayExact
<1>1. Inv /\ ReplayExact /\ [Next]_vars => ReplayExact'
  <2>1. SUFFICES ASSUME Inv, ReplayExact, [Next]_vars PROVE ReplayExact'
    OBVIOUS
  <2>2. CASE \E t \in Tokens, side \in Sides, size \in Sizes, price \in Prices, fee \in Fees :
               Fill(t, side, size, price, fee)
    BY <2>1, <2>2, ReplayFill
  <2>3. CASE \E t \in Tokens, price \in Prices : Mark(t, price)
    BY <2>1, <2>3, ReplayMark
  <2>4. CASE \E marks \in [Tokens -> Prices \cup {NoMark}] : Flatten(marks)
    BY <2>1, <2>4, ReplayFlatten
  <2>5. CASE UNCHANGED vars
    BY <2>1, <2>5 DEF vars, ReplayExact
  <2>6. QED
    BY <2>1, <2>2, <2>3, <2>4, <2>5 DEF Next
<1>2. QED
  BY <1>1, InitInv, NextInv, ReplayInit, PTL DEF Spec

-----------------------------------------------------------------------------
(* The history of a flatten, close by close *)

CloseEvent(before, t, marks, after) ==
  FillEvent("FLATTEN", t, CloseSide(before.pos[t]), Abs(before.pos[t].qty), marks[t], 0,
            before, after)

\* Ledgers and event lists a flatten passes through.
CloseTrace(run, lists, order, marks) ==
  \A i \in 1..Len(order) :
    /\ order[i] \in Tokens /\ marks[order[i]] \in Nat
    /\ SoundLedger(run[i - 1]) /\ lists[i - 1] \in Seq(EventType)
    /\ run[i] = CloseOne(run[i - 1], order[i], marks)
    /\ lists[i] = Append(lists[i - 1], CloseEvent(run[i - 1], order[i], marks, run[i]))

\* A list followed by a growing part of another is built by appending.
LEMMA GrowingConcat ==
  ASSUME NEW T, NEW s \in Seq(T), NEW u \in Seq(T), NEW i \in 1..Len(u)
  PROVE  s \o SubSeq(u, 1, i) = Append(s \o SubSeq(u, 1, i - 1), u[i])
<1>1. SubSeq(u, 1, i) = SubSeq(u, 1, i - 1) \o <<u[i]>>
  <2>1. 1 \in 1..Len(u) /\ i \in 1..Len(u)
    OBVIOUS
  <2>2. QED
    BY <2>1, SubSeqRecursiveSecond
<1>2. u[i] \in T /\ \A j \in 1..(i - 1) : u[j] \in T
  OBVIOUS
<1>3. SubSeq(u, 1, i - 1) \in Seq(T)
  BY <1>2, SubSeqProperties
<1>4. <<u[i]>> \in Seq(T)
  BY <1>2
<1>5. s \o (SubSeq(u, 1, i - 1) \o <<u[i]>>) = (s \o SubSeq(u, 1, i - 1)) \o <<u[i]>>
  BY <1>3, <1>4, ConcatAssociative
<1>6. s \o SubSeq(u, 1, i - 1) \in Seq(T)
  BY <1>3, ConcatProperties
<1>7. Append(s \o SubSeq(u, 1, i - 1), u[i]) = (s \o SubSeq(u, 1, i - 1)) \o <<u[i]>>
  BY <1>2, <1>6, AppendIsConcat
<1>8. QED
  BY <1>1, <1>5, <1>7

\* A flatten goes from the old ledger and events to the new ones, one close of
\* an open token after the other, and leaves no open token out.
LEMMA FlattenTrace ==
  ASSUME Inv, NEW marks \in [Tokens -> Prices \cup {NoMark}], Flatten(marks)
  PROVE  \E order, run, lists :
           /\ Len(order) \in Nat \ {0}
           /\ CloseTrace(run, lists, order, marks)
           /\ run[0] = ledger /\ run[Len(order)] = ledger' /\ SoundLedger(run[0])
           /\ lists[0] = events /\ lists[Len(order)] = events' /\ lists[0] \in Seq(EventType)
           /\ \A i \in 1..Len(order) : order[i] \in OpenTokens(ledger)
           /\ \A t \in OpenTokens(ledger) : \E i \in 1..Len(order) : order[i] = t
<1>1. PICK order \in SetToSeqs(OpenTokens(ledger)) :
        /\ Len(order) \in 1..(MaxEvents - Len(events))
        /\ \A t \in OpenTokens(ledger) : marks[t] # NoMark
        /\ ledger' = FlattenRun(ledger, order, marks)[Len(order)]
        /\ events' = events \o FlattenEvents(FlattenRun(ledger, order, marks), order, marks)
  BY DEF Flatten
<1> DEFINE run == FlattenRun(ledger, order, marks)
           more == FlattenEvents(run, order, marks)
           m == Len(order)
           lists == [i \in 0..m |-> events \o SubSeq(more, 1, i)]
<1>2. SoundLedger(ledger) /\ events \in Seq(EventType)
  BY InvMeaning DEF Inv
<1>3. /\ order \in Seq(Tokens) /\ m \in Nat \ {0}
      /\ \A i \in 1..m : order[i] \in OpenTokens(ledger)
  BY <1>1, OrderOfOpen
<1>4. \A i \in 1..m : order[i] \in Tokens /\ marks[order[i]] \in Nat
  <2>1. OpenTokens(ledger) \subseteq Tokens
    BY DEF OpenTokens
  <2>2. \A t \in OpenTokens(ledger) : marks[t] \in Nat
    BY <1>1, <2>1, InputAssumption
  <2>3. QED
    BY <1>3, <2>1, <2>2
<1>5. run[0] = ledger /\ \A i \in 1..m : run[i] = CloseOne(run[i - 1], order[i], marks)
  BY <1>3, RunSteps
<1>6. \A i \in 0..m : SoundLedger(run[i])
  BY <1>2, <1>3, <1>4, RunBalances
<1> HIDE DEF run
<1>7. \A i \in 1..m : more[i] = CloseEvent(run[i - 1], order[i], marks, run[i])
  BY DEF FlattenEvents, CloseEvent
<1>8. \A i \in 1..m : more[i] \in EventType
  <2>1. TAKE i \in 1..m
  <2> DEFINE t == order[i]
             p == run[i - 1].pos[t]
  <2>2. i - 1 \in 0..m /\ i \in 0..m
    BY <1>3
  <2>3. SoundLedger(run[i - 1]) /\ SoundLedger(run[i])
    BY <1>6, <2>2
  <2>4. t \in Tokens /\ marks[t] \in Nat
    BY <1>4
  <2>5. p.qty \in Int
    BY <2>3, <2>4 DEF SoundLedger, LedgerType, Positions
  <2>6. CloseSide(p) \in Sides /\ Abs(p.qty) \in Nat /\ "FLATTEN" \in Kinds /\ 0 \in Nat
    BY <2>5, AbsType DEF CloseSide, Sides, Kinds
  <2>7. FillEvent("FLATTEN", t, CloseSide(p), Abs(p.qty), marks[t], 0, run[i - 1], run[i])
          \in EventType
    <3> HIDE DEF p, t
    <3>1. QED
      BY <2>3, <2>4, <2>6, FillEventType
  <2>8. QED
    BY <1>7, <2>7 DEF CloseEvent
<1>9. more \in Seq(EventType) /\ Len(more) = m
  <2>1. more = [i \in 1..m |-> more[i]]
    BY DEF FlattenEvents
  <2> HIDE DEF more, m
  <2>2. QED
    BY <1>3, <1>8, <2>1
<1>10. events' = events \o more /\ ledger' = run[m]
  BY <1>1 DEF run
<1> HIDE DEF more, m
<1>11. \A i \in 0..m : lists[i] \in Seq(EventType)
  <2>1. TAKE i \in 0..m
  <2>2. \A j \in 1..i : more[j] \in EventType
    BY <1>3, <1>8
  <2>3. SubSeq(more, 1, i) \in Seq(EventType)
    BY <1>3, <2>2, SubSeqProperties
  <2>4. QED
    BY <1>2, <2>3, ConcatProperties
<1>12. lists[0] = events
  <2>1. SubSeq(more, 1, 0) = <<>>
    BY SubSeqEmpty
  <2>2. QED
    BY <1>2, <1>3, <2>1, ConcatEmptySeq
<1>13. lists[m] = events'
  <2>1. SubSeq(more, 1, m) = more
    BY <1>9, SubSeqFull
  <2>2. m \in 0..m
    BY <1>3
  <2>3. QED
    BY <1>10, <2>1, <2>2
<1>14. \A i \in 1..m : lists[i] = Append(lists[i - 1], more[i])
  <2>1. TAKE i \in 1..m
  <2>2. i \in 0..m /\ i - 1 \in 0..m
    BY <1>3
  <2>3. lists[i] = events \o SubSeq(more, 1, i) /\ lists[i - 1] = events \o SubSeq(more, 1, i - 1)
    BY <2>2
  <2> HIDE DEF lists
  <2>4. events \o SubSeq(more, 1, i) = Append(events \o SubSeq(more, 1, i - 1), more[i])
    BY <1>2, <1>9, GrowingConcat
  <2>5. QED
    BY <2>3, <2>4
<1> HIDE DEF lists
<1>15. CloseTrace(run, lists, order, marks)
  <2>1. SUFFICES ASSUME NEW i \in 1..m
        PROVE /\ order[i] \in Tokens /\ marks[order[i]] \in Nat
              /\ SoundLedger(run[i - 1]) /\ lists[i - 1] \in Seq(EventType)
              /\ run[i] = CloseOne(run[i - 1], order[i], marks)
              /\ lists[i] = Append(lists[i - 1], CloseEvent(run[i - 1], order[i], marks, run[i]))
    BY DEF CloseTrace, m
  <2>2. i - 1 \in 0..m
    BY <1>3
  <2>3. QED
    BY <1>4, <1>5, <1>6, <1>7, <1>11, <1>14, <2>2
<1>16. \A t \in OpenTokens(ledger) : \E i \in 1..m : order[i] = t
  BY <1>1, OrderOfOpen DEF m
<1>17. QED
  BY <1>2, <1>3, <1>5, <1>10, <1>12, <1>13, <1>15, <1>16 DEF m

-----------------------------------------------------------------------------
(* The peak *)

\* The peak was reached, by the starting cash or by an event, and never exceeded.
HighWater(peak, evts) ==
  /\ peak = StartingCash \/ \E i \in 1..Len(evts) : evts[i].equity = peak
  /\ StartingCash <= peak
  /\ \A i \in 1..Len(evts) : evts[i].equity <= peak

\* The high-water mark is the maximum the property names.
LEMMA HighWaterIsMax ==
  ASSUME NEW evts \in Seq(EventType), NEW peak \in Nat, HighWater(peak, evts)
  PROVE  peak = Max({StartingCash} \cup {evts[i].equity : i \in DOMAIN evts})
<1> DEFINE S == {StartingCash} \cup {evts[i].equity : i \in DOMAIN evts}
<1>1. DOMAIN evts = 1..Len(evts)
  OBVIOUS
<1>2. \A i \in 1..Len(evts) : evts[i].equity \in Int
  <2>1. \A e \in EventType : e.equity \in Int
    BY DEF EventType
  <2>2. \A i \in 1..Len(evts) : evts[i] \in EventType
    OBVIOUS
  <2>3. QED
    BY <2>1, <2>2
<1>3. S \in SUBSET Int
  BY <1>1, <1>2, LedgerAssumption
<1>4. peak \in S /\ \A x \in S : peak >= x
  BY <1>1, <1>2, LedgerAssumption DEF HighWater
<1> HIDE DEF S
<1>5. \A x \in S : (\A y \in S : x >= y) => x = peak
  BY <1>3, <1>4
<1>6. peak = CHOOSE x \in S : \A y \in S : x >= y
  BY <1>4, <1>5
<1>7. QED
  BY <1>6, Zenon DEF Max, S

\* An event raises the high-water mark to its equity.
LEMMA HighWaterAppend ==
  ASSUME NEW evts \in Seq(EventType), NEW e \in EventType, NEW peak \in Nat,
         HighWater(peak, evts)
  PROVE  HighWater(Greater(peak, e.equity), Append(evts, e))
<1> DEFINE n == Len(evts)
           all == Append(evts, e)
           new == Greater(peak, e.equity)
<1>1. /\ n \in Nat /\ Len(all) = n + 1 /\ all[n + 1] = e
      /\ \A i \in 1..n : all[i] = evts[i] /\ evts[i] \in EventType
  OBVIOUS
<1>2. e.equity \in Int /\ \A i \in 1..n : evts[i].equity \in Int
  <2>1. \A x \in EventType : x.equity \in Int
    BY DEF EventType
  <2>2. QED
    BY <1>1, <2>1
<1>3. new = (IF peak < e.equity THEN e.equity ELSE peak)
  BY DEF Greater
<1>4. /\ peak = StartingCash \/ \E i \in 1..n : evts[i].equity = peak
      /\ StartingCash <= peak
      /\ \A i \in 1..n : evts[i].equity <= peak
  BY DEF HighWater
<1>5. StartingCash \in Int
  BY LedgerAssumption
<1> HIDE DEF all, new, n
<1>6. new \in Int /\ peak <= new /\ e.equity <= new
  BY <1>2, <1>3
<1>7. StartingCash <= new
  BY <1>4, <1>5, <1>6
<1>8. ASSUME NEW i \in 1..(n + 1) PROVE all[i].equity <= new
  <2>1. CASE i = n + 1
    BY <2>1, <1>1, <1>6
  <2>2. CASE i # n + 1
    <3>1. i \in 1..n
      BY <2>2, <1>1
    <3>2. all[i].equity = evts[i].equity /\ evts[i].equity <= peak /\ evts[i].equity \in Int
      BY <3>1, <1>1, <1>2, <1>4
    <3>3. QED
      BY <3>2, <1>6
  <2>3. QED
    BY <2>1, <2>2
<1>9. new = StartingCash \/ \E i \in 1..(n + 1) : all[i].equity = new
  <2>1. CASE new = e.equity
    <3>1. n + 1 \in 1..(n + 1)
      BY <1>1
    <3>2. QED
      BY <2>1, <3>1, <1>1
  <2>2. CASE new = peak
    <3>1. 1..n \subseteq 1..(n + 1)
      BY <1>1
    <3>2. QED
      BY <2>2, <3>1, <1>1, <1>4
  <2>3. QED
    BY <1>3, <2>1, <2>2
<1>10. HighWater(new, all)
  BY <1>1, <1>7, <1>8, <1>9 DEF HighWater
<1>11. QED
  BY <1>10 DEF new, all

\* Every event records the equity its ledger was left with, and every operation
\* raises the peak to it.
LEMMA HighWaterFill ==
  ASSUME NEW l, SoundLedger(l), NEW evts \in Seq(EventType), HighWater(l.peak, evts),
         NEW kind \in Kinds, NEW t \in Tokens, NEW side \in Sides, NEW size \in Nat,
         NEW price \in Nat, NEW fee \in Nat,
         NEW m, m = ApplyFill(l, t, side, size, price, fee)
  PROVE  HighWater(m.peak, Append(evts, FillEvent(kind, t, side, size, price, fee, l, m)))
<1> DEFINE e == FillEvent(kind, t, side, size, price, fee, l, m)
<1>1. SoundLedger(m) /\ m.peak = Greater(l.peak, Equity(m))
  BY FillPeak
<1>2. e \in EventType
  BY <1>1, FillEventType
<1>3. e.equity = Equity(m)
  BY DEF FillEvent
<1>4. l.peak \in Nat
  BY DEF SoundLedger, LedgerType
<1> HIDE DEF e
<1>5. HighWater(Greater(l.peak, e.equity), Append(evts, e))
  BY <1>2, <1>4, HighWaterAppend
<1>6. QED
  BY <1>1, <1>3, <1>5 DEF e

\* The inductive invariant behind PeakIsHighWater.
PeakInv == Inv /\ HighWater(ledger.peak, events)

\* A fresh ledger's peak is the starting cash.
LEMMA PeakInit == Init => PeakInv
<1>1. SUFFICES ASSUME Init PROVE HighWater(ledger.peak, events)
  BY InitInv DEF PeakInv
<1>2. ledger.peak = StartingCash /\ Len(events) = 0
  BY <1>1 DEF Init, FreshLedger
<1>3. StartingCash \in Nat
  BY LedgerAssumption
<1>4. QED
  BY <1>2, <1>3 DEF HighWater

\* Through a flatten the peak follows the intermediate closes.
LEMMA PeakFlatten ==
  ASSUME PeakInv, NEW marks \in [Tokens -> Prices \cup {NoMark}], Flatten(marks)
  PROVE  HighWater(ledger'.peak, events')
<1>1. PICK order, run, lists :
        /\ Len(order) \in Nat \ {0}
        /\ CloseTrace(run, lists, order, marks)
        /\ run[0] = ledger /\ run[Len(order)] = ledger'
        /\ lists[0] = events /\ lists[Len(order)] = events'
  BY FlattenTrace DEF PeakInv
<1> DEFINE m == Len(order)
           Good(i) == HighWater(run[i].peak, lists[i])
           Bad == {i \in 0..m : ~Good(i)}
<1>2. SUFFICES ASSUME Bad # {} PROVE FALSE
  <2>1. m \in 0..m /\ m \notin Bad
    BY <1>1, <1>2
  <2>2. QED
    BY <1>1, <2>1
<1>3. PICK i \in Bad : \A k \in Bad : i <= k
  <2>1. Bad \in SUBSET Nat
    BY <1>1
  <2>2. QED
    BY <1>2, <2>1, LeastNat
<1>4. i # 0
  BY <1>1, <1>3 DEF PeakInv
<1>5. i - 1 \in 0..m /\ i - 1 \notin Bad /\ i \in 1..m
  BY <1>1, <1>3, <1>4
<1>6. HighWater(run[i - 1].peak, lists[i - 1])
  BY <1>5
<1> DEFINE l == run[i - 1]
           after == run[i]
           evts == lists[i - 1]
           t == order[i]
           mark == marks[t]
           side == CloseSide(l.pos[t])
           size == Abs(l.pos[t].qty)
<1>7. /\ t \in Tokens /\ mark \in Nat /\ SoundLedger(l) /\ evts \in Seq(EventType)
      /\ after = ApplyFill(l, t, side, size, mark, 0)
      /\ lists[i] = Append(evts, FillEvent("FLATTEN", t, side, size, mark, 0, l, after))
  BY <1>1, <1>5 DEF CloseTrace, CloseOne, CloseEvent
<1>8. side \in Sides /\ size \in Nat /\ 0 \in Nat /\ "FLATTEN" \in Kinds
  <2>1. l.pos[t].qty \in Int
    BY <1>7 DEF SoundLedger, LedgerType, Positions
  <2>2. QED
    BY <2>1, AbsType DEF CloseSide, Sides, Kinds
<1>9. HighWater(l.peak, evts)
  BY <1>6
<1> HIDE DEF side, size, mark, t, evts, after, l
<1>10. HighWater(after.peak, lists[i])
  <2> DEFINE e == FillEvent("FLATTEN", t, side, size, mark, 0, l, after)
  <2>1. HighWater(after.peak, Append(evts, e))
    BY <1>7, <1>8, <1>9, HighWaterFill
  <2>2. lists[i] = Append(evts, e)
    BY <1>7
  <2> HIDE DEF e
  <2>3. QED
    BY <2>1, <2>2
<1>11. QED
  BY <1>3, <1>10 DEF after

\* Every step keeps the peak the high-water mark of the recorded equities.
LEMMA PeakNext == PeakInv /\ [Next]_vars => PeakInv'
<1>1. SUFFICES ASSUME PeakInv, [Next]_vars PROVE HighWater(ledger'.peak, events')
  BY NextInv DEF PeakInv
<1>2. SoundLedger(ledger) /\ events \in Seq(EventType) /\ HighWater(ledger.peak, events)
  BY <1>1, InvMeaning DEF PeakInv, Inv
<1>3. ASSUME NEW t \in Tokens, NEW side \in Sides, NEW size \in Sizes, NEW price \in Prices,
             NEW fee \in Fees, Fill(t, side, size, price, fee)
      PROVE  HighWater(ledger'.peak, events')
  <2>1. size \in Nat /\ price \in Nat /\ fee \in Nat /\ "FILL" \in Kinds
    BY InputAssumption DEF Kinds
  <2>2. QED
    BY <1>2, <1>3, <2>1, HighWaterFill DEF Fill
<1>4. ASSUME NEW t \in Tokens, NEW price \in Prices, Mark(t, price)
      PROVE  HighWater(ledger'.peak, events')
  <2> DEFINE m == ApplyMark(ledger, t, price)
             e == MarkEvent(t, price, m)
  <2>1. price \in Nat /\ m = ApplyMark(ledger, t, price)
    BY InputAssumption
  <2> HIDE DEF m
  <2>2. SoundLedger(m) /\ m.peak = Greater(ledger.peak, Equity(m))
    BY <1>2, <2>1, MarkPeak
  <2>3. ledger' = m /\ events' = Append(events, e)
    BY <1>4 DEF Mark, m
  <2>4. e \in EventType /\ e.equity = Equity(m)
    BY <2>1, <2>2, MarkEventType DEF MarkEvent
  <2>5. ledger.peak \in Nat
    BY <1>2 DEF SoundLedger, LedgerType
  <2> HIDE DEF e
  <2>6. QED
    BY <1>2, <2>2, <2>3, <2>4, <2>5, HighWaterAppend
<1>5. ASSUME NEW marks \in [Tokens -> Prices \cup {NoMark}], Flatten(marks)
      PROVE  HighWater(ledger'.peak, events')
  BY <1>1, <1>5, PeakFlatten
<1>6. CASE UNCHANGED vars
  BY <1>2, <1>6 DEF vars
<1>7. QED
  BY <1>1, <1>3, <1>4, <1>5, <1>6 DEF Next

\* peak_equity is the high-water mark of the starting cash and of the equity after
\* every recorded event, the closes inside a flatten included.
THEOREM PeakCorrect == Spec => []PeakIsHighWater
<1>1. PeakInv => PeakIsHighWater
  <2>1. SUFFICES ASSUME PeakInv PROVE PeakIsHighWater
    OBVIOUS
  <2>2. SoundLedger(ledger) /\ events \in Seq(EventType) /\ HighWater(ledger.peak, events)
    BY <2>1, InvMeaning DEF PeakInv, Inv
  <2>3. ledger.peak \in Nat
    BY <2>2 DEF SoundLedger, LedgerType
  <2>4. QED
    BY <2>2, <2>3, HighWaterIsMax DEF PeakIsHighWater
<1>2. QED
  BY <1>1, PeakInit, PeakNext, PTL DEF Spec

-----------------------------------------------------------------------------
(* What a flatten leaves *)

\* The lots of a position at a price, nothing when there are none.
LotsAt(p, price) == IF p.qty = 0 THEN 0 ELSE p.qty * price

\* Cash plus all lots at the caller's marks: what every close of a flatten keeps.
ValueAt(l, marks) ==
  l.cash + SumUpTo([t \in Tokens |-> LotsAt(l.pos[t], marks[t])], NumTokens)

\* The terms of the sum are integers.
LEMMA LotsSummable ==
  ASSUME NEW l, l.pos \in [Tokens -> Positions], NEW marks, \A t \in Tokens : marks[t] \in Int
  PROVE  /\ Summable([t \in Tokens |-> LotsAt(l.pos[t], marks[t])], NumTokens)
         /\ SumUpTo([t \in Tokens |-> LotsAt(l.pos[t], marks[t])], NumTokens) \in Int
<1> DEFINE f == [t \in Tokens |-> LotsAt(l.pos[t], marks[t])]
<1>1. ASSUME NEW t \in Tokens PROVE LotsAt(l.pos[t], marks[t]) \in Int
  <2>1. l.pos[t].qty \in Int /\ marks[t] \in Int
    BY DEF Positions
  <2>2. l.pos[t].qty * marks[t] \in Int
    BY <2>1
  <2>3. QED
    BY <2>2 DEF LotsAt
<1>2. Summable(f, NumTokens)
  BY <1>1 DEF Summable, Tokens
<1>3. NumTokens \in Nat
  BY LedgerAssumption
<1> HIDE DEF f
<1>4. SumUpTo(f, NumTokens) \in Int
  BY <1>2, <1>3, SumInt
<1>5. QED
  BY <1>2, <1>4 DEF f

\* A close turns lots into cash at the mark and keeps the sum of both.
LEMMA CloseKeepsValue ==
  ASSUME NEW l, SoundLedger(l), NEW marks, \A t \in Tokens : marks[t] \in Int,
         NEW t \in Tokens, marks[t] \in Nat
  PROVE  ValueAt(CloseOne(l, t, marks), marks) = ValueAt(l, marks)
<1> DEFINE m == CloseOne(l, t, marks)
           f == [u \in Tokens |-> LotsAt(l.pos[u], marks[u])]
           g == [u \in Tokens |-> LotsAt(m.pos[u], marks[u])]
<1>1. /\ m.pos[t].qty = 0
      /\ \A u \in Tokens : u # t => m.pos[u] = l.pos[u]
      /\ m.cash = l.cash + l.pos[t].qty * marks[t]
  BY CloseEffect
<1>2. SoundLedger(m)
  BY CloseBalances
<1>3. /\ l.pos \in [Tokens -> Positions] /\ m.pos \in [Tokens -> Positions]
      /\ l.cash \in Int /\ l.pos[t].qty \in Int
  BY <1>2 DEF SoundLedger, LedgerType, Positions
<1> HIDE DEF m
<1>4. /\ Summable(f, NumTokens) /\ SumUpTo(f, NumTokens) \in Int
      /\ Summable(g, NumTokens) /\ NumTokens \in Nat
  BY <1>3, LotsSummable, LedgerAssumption
<1>5. \A u \in 1..NumTokens : u # t => f[u] = g[u]
  BY <1>1 DEF Tokens
<1>6. g[t] = 0 /\ f[t] = l.pos[t].qty * marks[t]
  <2>1. g[t] = 0
    BY <1>1 DEF LotsAt
  <2>2. f[t] = LotsAt(l.pos[t], marks[t])
    OBVIOUS
  <2>3. l.pos[t].qty = 0 => l.pos[t].qty * marks[t] = 0
    OBVIOUS
  <2>4. QED
    BY <2>1, <2>2, <2>3 DEF LotsAt
<1>7. t \in 1..NumTokens
  BY DEF Tokens
<1>8. ValueAt(m, marks) = m.cash + SumUpTo(g, NumTokens)
  BY DEF ValueAt
<1>9. ValueAt(l, marks) = l.cash + SumUpTo(f, NumTokens)
  BY DEF ValueAt
<1> HIDE DEF f, g
<1>10. SumUpTo(g, NumTokens) = SumUpTo(f, NumTokens) + g[t] - f[t]
  BY <1>4, <1>5, <1>7, SumPoint
<1> DEFINE d == l.pos[t].qty * marks[t]
<1>11. d \in Int
  BY <1>3
<1>12. m.cash = l.cash + d /\ g[t] = 0 /\ f[t] = d
  BY <1>1, <1>6
<1> HIDE DEF d
<1>13. m.cash + SumUpTo(g, NumTokens) = l.cash + SumUpTo(f, NumTokens)
  BY <1>3, <1>4, <1>10, <1>11, <1>12
<1>14. QED
  BY <1>8, <1>9, <1>13 DEF m

\* A whole flatten: every lot is gone, at the caller's mark where there were any,
\* its value is in the cash, no fee was charged, and it is the last thing recorded.
LEMMA FlattenEffect ==
  ASSUME Inv, NEW marks \in [Tokens -> Prices \cup {NoMark}], Flatten(marks)
  PROVE  /\ SoundLedger(ledger')
         /\ \A t \in Tokens : ledger'.pos[t].qty = 0
         /\ \A t \in OpenTokens(ledger) : ledger'.pos[t].mark = marks[t]
         /\ ledger'.fees = ledger.fees
         /\ ValueAt(ledger', marks) = ValueAt(ledger, marks)
         /\ Last(events').kind = "FLATTEN"
<1>1. PICK order, run, lists :
        /\ Len(order) \in Nat \ {0}
        /\ CloseTrace(run, lists, order, marks)
        /\ run[0] = ledger /\ run[Len(order)] = ledger' /\ SoundLedger(run[0])
        /\ lists[Len(order)] = events'
        /\ \A t \in OpenTokens(ledger) : \E i \in 1..Len(order) : order[i] = t
  BY FlattenTrace
<1> DEFINE n == Len(order)
           Good(i) == /\ SoundLedger(run[i])
                      /\ \A j \in 1..i : /\ run[i].pos[order[j]].qty = 0
                                         /\ run[i].pos[order[j]].mark = marks[order[j]]
                      /\ \A t \in Tokens : (\A j \in 1..i : order[j] # t)
                                             => run[i].pos[t] = ledger.pos[t]
                      /\ run[i].fees = ledger.fees
                      /\ ValueAt(run[i], marks) = ValueAt(ledger, marks)
           Bad == {i \in 0..n : ~Good(i)}
<1>2. \A t \in Tokens : marks[t] \in Int
  <2>1. Prices \cup {NoMark} \subseteq Int
    BY InputAssumption DEF NoMark
  <2>2. QED
    BY <2>1
<1>3. Good(0)
  BY <1>1
<1>4. ASSUME NEW i \in 1..n, Good(i - 1) PROVE Good(i)
  <2> DEFINE l == run[i - 1]
             m == run[i]
             u == order[i]
  <2>1. u \in Tokens /\ marks[u] \in Nat /\ SoundLedger(l) /\ m = CloseOne(l, u, marks)
    BY <1>1 DEF CloseTrace
  <2>2. \A j \in 1..n : order[j] \in Tokens
    BY <1>1 DEF CloseTrace
  <2>3. /\ m.pos[u].qty = 0 /\ m.pos[u].mark = marks[u]
        /\ \A t \in Tokens : t # u => m.pos[t] = l.pos[t]
        /\ m.fees = l.fees
    BY <2>1, CloseEffect
  <2>4. SoundLedger(m) /\ ValueAt(m, marks) = ValueAt(l, marks)
    BY <1>2, <2>1, CloseBalances, CloseKeepsValue
  <2>5. /\ \A j \in 1..(i - 1) : /\ l.pos[order[j]].qty = 0
                                 /\ l.pos[order[j]].mark = marks[order[j]]
        /\ \A t \in Tokens : (\A j \in 1..(i - 1) : order[j] # t) => l.pos[t] = ledger.pos[t]
        /\ l.fees = ledger.fees
        /\ ValueAt(l, marks) = ValueAt(ledger, marks)
    BY <1>4
  <2> HIDE DEF l, m
  <2>6. ASSUME NEW j \in 1..i
        PROVE  m.pos[order[j]].qty = 0 /\ m.pos[order[j]].mark = marks[order[j]]
    <3>1. CASE order[j] = u
      BY <3>1, <2>3
    <3>2. CASE order[j] # u
      <4>1. j \in 1..(i - 1) /\ j \in 1..n
        BY <3>2, <1>1
      <4>2. m.pos[order[j]] = l.pos[order[j]]
        BY <3>2, <4>1, <2>2, <2>3
      <4>3. QED
        BY <4>1, <4>2, <2>5
    <3>3. QED
      BY <3>1, <3>2
  <2>7. ASSUME NEW t \in Tokens, \A j \in 1..i : order[j] # t
        PROVE  m.pos[t] = ledger.pos[t]
    <3>1. t # u /\ \A j \in 1..(i - 1) : order[j] # t
      <4>1. i \in 1..i /\ \A j \in 1..(i - 1) : j \in 1..i
        BY <1>1
      <4>2. QED
        BY <4>1, <2>7
    <3>2. QED
      BY <3>1, <2>3, <2>5
  <2>8. QED
    BY <2>3, <2>4, <2>5, <2>6, <2>7 DEF m
<1> HIDE DEF Good
<1>5. Bad = {}
  <2>1. SUFFICES ASSUME Bad # {} PROVE FALSE
    OBVIOUS
  <2>2. PICK i \in Bad : \A k \in Bad : i <= k
    <3>1. Bad \in SUBSET Nat
      BY <1>1
    <3>2. QED
      BY <2>1, <3>1, LeastNat
  <2>3. i # 0
    BY <1>3, <2>2
  <2>4. i - 1 \in 0..n /\ i - 1 \notin Bad /\ i \in 1..n
    BY <1>1, <2>2, <2>3
  <2>5. QED
    BY <1>4, <2>2, <2>4
<1>6. Good(n)
  BY <1>1, <1>5
<1>7. /\ SoundLedger(ledger')
      /\ \A j \in 1..n : /\ ledger'.pos[order[j]].qty = 0
                         /\ ledger'.pos[order[j]].mark = marks[order[j]]
      /\ \A t \in Tokens : (\A j \in 1..n : order[j] # t) => ledger'.pos[t] = ledger.pos[t]
      /\ ledger'.fees = ledger.fees
      /\ ValueAt(ledger', marks) = ValueAt(ledger, marks)
  BY <1>1, <1>6 DEF Good
<1>8. ASSUME NEW t \in Tokens PROVE ledger'.pos[t].qty = 0
  <2>1. CASE \E j \in 1..n : order[j] = t
    BY <2>1, <1>7
  <2>2. CASE \A j \in 1..n : order[j] # t
    <3>1. t \notin OpenTokens(ledger)
      BY <2>2, <1>1
    <3>2. ledger.pos[t].qty = 0
      BY <3>1 DEF OpenTokens
    <3>3. QED
      BY <2>2, <3>2, <1>7
  <2>3. QED
    BY <2>1, <2>2
<1>9. \A t \in OpenTokens(ledger) : ledger'.pos[t].mark = marks[t]
  BY <1>1, <1>7
<1>10. Last(events').kind = "FLATTEN"
  <2> DEFINE e == CloseEvent(run[n - 1], order[n], marks, run[n])
  <2>1. n \in 1..n
    BY <1>1
  <2>2. lists[n - 1] \in Seq(EventType) /\ events' = Append(lists[n - 1], e)
    BY <1>1, <2>1 DEF CloseTrace
  <2>3. e.kind = "FLATTEN"
    BY DEF CloseEvent, FillEvent
  <2> HIDE DEF e
  <2>4. Len(events') = Len(lists[n - 1]) + 1 /\ events'[Len(lists[n - 1]) + 1] = e
    BY <2>2
  <2>5. QED
    BY <2>3, <2>4 DEF Last
<1>11. QED
  BY <1>7, <1>8, <1>9, <1>10

\* A flatten leaves no lot in either direction, and equity is all cash: whatever
\* was open, long or short, at whatever marks, until the next fill or mark.
THEOREM FlattenComplete == Spec => []FlattenLeavesNothingOpen
<1>1. Init => FlattenLeavesNothingOpen
  BY DEF Init, FlattenLeavesNothingOpen
<1>2. Inv /\ FlattenLeavesNothingOpen /\ [Next]_vars => FlattenLeavesNothingOpen'
  <2>1. SUFFICES ASSUME Inv, FlattenLeavesNothingOpen, [Next]_vars
        PROVE  FlattenLeavesNothingOpen'
    OBVIOUS
  <2>2. events \in Seq(EventType)
    BY <2>1, InvMeaning DEF Inv
  <2>3. ASSUME NEW e, events' = Append(events, e), e.kind # "FLATTEN"
        PROVE  FlattenLeavesNothingOpen'
    <3>1. Last(events') = e
      BY <2>2, <2>3 DEF Last
    <3>2. QED
      BY <2>3, <3>1 DEF FlattenLeavesNothingOpen
  <2>4. ASSUME NEW t \in Tokens, NEW side \in Sides, NEW size \in Sizes, NEW price \in Prices,
               NEW fee \in Fees, Fill(t, side, size, price, fee)
        PROVE  FlattenLeavesNothingOpen'
    <3> DEFINE e == FillEvent("FILL", t, side, size, price, fee, ledger,
                              ApplyFill(ledger, t, side, size, price, fee))
    <3>1. events' = Append(events, e)
      BY <2>4 DEF Fill
    <3>2. e.kind # "FLATTEN"
      BY DEF FillEvent
    <3> HIDE DEF e
    <3>3. QED
      BY <2>3, <3>1, <3>2
  <2>5. ASSUME NEW t \in Tokens, NEW price \in Prices, Mark(t, price)
        PROVE  FlattenLeavesNothingOpen'
    <3> DEFINE e == MarkEvent(t, price, ApplyMark(ledger, t, price))
    <3>1. events' = Append(events, e)
      BY <2>5 DEF Mark
    <3>2. e.kind # "FLATTEN"
      BY DEF MarkEvent
    <3> HIDE DEF e
    <3>3. QED
      BY <2>3, <3>1, <3>2
  <2>6. ASSUME NEW marks \in [Tokens -> Prices \cup {NoMark}], Flatten(marks)
        PROVE  FlattenLeavesNothingOpen'
    <3>1. SoundLedger(ledger') /\ \A t \in Tokens : ledger'.pos[t].qty = 0
      BY <2>1, <2>6, FlattenEffect
    <3>2. Equity(ledger') = ledger'.cash
      BY <3>1, NothingOpenIsCash
    <3>3. Equity(ledger)' = Equity(ledger')
      BY DEF Equity
    <3>4. QED
      BY <3>1, <3>2, <3>3 DEF FlattenLeavesNothingOpen
  <2>7. CASE UNCHANGED vars
    <3>1. Equity(ledger)' = Equity(ledger)
      BY <2>7 DEF Equity, vars
    <3>2. QED
      BY <2>1, <2>7, <3>1 DEF vars, FlattenLeavesNothingOpen
  <2>8. QED
    BY <2>1, <2>4, <2>5, <2>6, <2>7 DEF Next
<1>3. QED
  BY <1>1, <1>2, InitInv, NextInv, PTL DEF Spec

-----------------------------------------------------------------------------
(* Equity moves by marks and fees alone *)

MarksOf(l) == [t \in Tokens |-> l.pos[t].mark]

\* The marks of a ledger are integers.
LEMMA MarksType ==
  ASSUME NEW l, SoundLedger(l)
  PROVE  \A t \in Tokens : MarksOf(l)[t] = l.pos[t].mark /\ MarksOf(l)[t] \in Int
<1>1. TAKE t \in Tokens
<1>2. l.pos[t].mark \in Nat \cup {NoMark}
  BY DEF SoundLedger, LedgerType, Positions
<1>3. QED
  BY <1>2 DEF MarksOf, NoMark

\* Equity is cash and lots at the ledger's own marks: no lot is carried at cost.
LEMMA EquityIsValue ==
  ASSUME NEW l, SoundLedger(l)
  PROVE  Equity(l) = ValueAt(l, MarksOf(l))
<1> DEFINE f == [t \in Tokens |-> Worth(l.pos[t])]
           g == [t \in Tokens |-> LotsAt(l.pos[t], MarksOf(l)[t])]
<1>1. ASSUME NEW t \in Tokens PROVE f[t] = g[t]
  <2>1. /\ l.pos[t].qty = 0 => l.pos[t].cost = 0
        /\ l.pos[t].qty # 0 => l.pos[t].mark # NoMark
        /\ l.pos[t].mark \in Nat \cup {NoMark} /\ l.pos[t].qty \in Int
    BY DEF SoundLedger, LedgerType, Positions
  <2>2. MarksOf(l)[t] = l.pos[t].mark
    BY DEF MarksOf
  <2> DEFINE p == l.pos[t]
  <2>3. f[t] = (IF p.mark = NoMark THEN (IF p.qty < 0 THEN -p.cost ELSE p.cost)
                                   ELSE p.qty * p.mark)
    BY DEF Worth, Book
  <2>4. g[t] = IF p.qty = 0 THEN 0 ELSE p.qty * p.mark
    BY <2>2 DEF LotsAt
  <2>5. p.qty = 0 /\ p.mark # NoMark => p.qty * p.mark = 0
    <3>1. p.mark # NoMark => p.mark \in Nat
      BY <2>1
    <3>2. QED
      BY <3>1
  <2> HIDE DEF f, g
  <2>6. CASE p.qty = 0
    <3>1. p.cost = 0
      BY <2>1, <2>6
    <3>2. f[t] = IF p.mark = NoMark THEN 0 ELSE p.qty * p.mark
      BY <2>3, <2>6, <3>1
    <3>3. QED
      BY <2>4, <2>5, <2>6, <3>2
  <2>7. CASE p.qty # 0
    BY <2>1, <2>3, <2>4, <2>7
  <2>8. QED
    BY <2>6, <2>7
<1>2. f = g
  BY <1>1
<1>3. QED
  BY <1>2 DEF Equity, ValueAt

\* The sum depends on the marks of open tokens alone.
LEMMA ValueByOpenMarks ==
  ASSUME NEW l, NEW a, NEW b, \A t \in OpenTokens(l) : a[t] = b[t]
  PROVE  ValueAt(l, a) = ValueAt(l, b)
<1>1. ASSUME NEW t \in Tokens PROVE LotsAt(l.pos[t], a[t]) = LotsAt(l.pos[t], b[t])
  BY DEF LotsAt, OpenTokens
<1>2. [t \in Tokens |-> LotsAt(l.pos[t], a[t])] = [t \in Tokens |-> LotsAt(l.pos[t], b[t])]
  BY <1>1
<1>3. QED
  BY <1>2 DEF ValueAt

\* What a fill does to a ledger, peak left aside.
FillResult(m, l, t, s, price, fee) ==
  /\ m.cash = l.cash - s * price - fee
  /\ m.realized = l.realized + Realized(l.pos[t], s, price, fee)
  /\ m.fees = l.fees + fee
  /\ m.pos = [l.pos EXCEPT ![t] = FilledPosition(l.pos[t], s, price)]

LEMMA FillGives ==
  ASSUME NEW l, SoundLedger(l), NEW t \in Tokens, NEW side \in Sides, NEW size \in Nat,
         NEW price \in Nat, NEW fee \in Nat,
         NEW m, m = ApplyFill(l, t, side, size, price, fee)
  PROVE  FillResult(m, l, t, Signed(side, size), price, fee)
  BY FillEffect DEF FillResult

\* What a mark does.
MarkResult(m, l, t, price) ==
  /\ m.cash = l.cash /\ m.realized = l.realized /\ m.fees = l.fees
  /\ m.pos = [l.pos EXCEPT ![t] = [qty |-> l.pos[t].qty, cost |-> l.pos[t].cost, mark |-> price]]

LEMMA MarkGives ==
  ASSUME NEW l, SoundLedger(l), NEW t \in Tokens, NEW price \in Nat,
         NEW m, m = ApplyMark(l, t, price)
  PROVE  MarkResult(m, l, t, price)
  BY MarkEffect DEF MarkResult

\* A fill trades cash for lots at its price: at the new marks only the fee is lost.
LEMMA FillKeepsValue ==
  ASSUME NEW l, SoundLedger(l), NEW t \in Tokens, NEW side \in Sides, NEW size \in Nat,
         NEW price \in Nat, NEW fee \in Nat,
         NEW m, m = ApplyFill(l, t, side, size, price, fee)
  PROVE  /\ Equity(m) = ValueAt(l, MarksOf(m)) - fee
         /\ m.fees = l.fees + fee
         /\ SoundLedger(m)
<1> DEFINE s == Signed(side, size)
           n == FilledPosition(l.pos[t], s, price)
           mk == MarksOf(m)
           f == [u \in Tokens |-> LotsAt(l.pos[u], mk[u])]
           g == [u \in Tokens |-> LotsAt(m.pos[u], mk[u])]
<1>a. FillResult(m, l, t, Signed(side, size), price, fee)
  BY FillGives
<1>1. /\ m.cash = l.cash - s * price - fee
      /\ m.fees = l.fees + fee
      /\ m.pos = [l.pos EXCEPT ![t] = n]
  BY <1>a DEF FillResult
<1>2. SoundLedger(m)
  BY FillPeak
<1>3. /\ l.pos \in [Tokens -> Positions] /\ m.pos \in [Tokens -> Positions]
      /\ l.cash \in Int /\ l.pos[t].qty \in Int
  BY <1>2 DEF SoundLedger, LedgerType, Positions
<1>4. s \in Int
  BY DEF Signed
<1>5. n.qty = l.pos[t].qty + s /\ n.mark = price
  BY DEF FilledPosition
<1> HIDE DEF n, s
<1>6. m.pos[t] = n /\ \A u \in Tokens : u # t => m.pos[u] = l.pos[u]
  BY <1>1, <1>3
<1>7. mk[t] = price /\ \A u \in Tokens : mk[u] \in Int
  BY <1>2, <1>5, <1>6, MarksType
<1>8. Equity(m) = ValueAt(m, mk)
  BY <1>2, EquityIsValue
<1> HIDE DEF mk
<1>9. /\ Summable(f, NumTokens) /\ SumUpTo(f, NumTokens) \in Int
      /\ Summable(g, NumTokens) /\ NumTokens \in Nat
  BY <1>3, <1>7, LotsSummable, LedgerAssumption
<1>10. \A u \in 1..NumTokens : u # t => f[u] = g[u]
  BY <1>6 DEF Tokens
<1> DEFINE q == l.pos[t].qty
           a == q * price
           b == s * price
<1>11. f[t] = a /\ g[t] = a + b /\ a \in Int /\ b \in Int
  <2>1. q \in Int
    BY <1>3
  <2>2. f[t] = IF q = 0 THEN 0 ELSE q * price
    BY <1>7 DEF LotsAt
  <2>3. g[t] = IF q + s = 0 THEN 0 ELSE (q + s) * price
    BY <1>5, <1>6, <1>7 DEF LotsAt
  <2> HIDE DEF q, f, g
  <2>4. q = 0 => q * price = 0
    OBVIOUS
  <2>5. q + s = 0 => (q + s) * price = 0
    OBVIOUS
  <2>6. (q + s) * price = a + b
    BY <1>4, <2>1
  <2>7. a \in Int /\ b \in Int
    BY <1>4, <2>1
  <2>8. QED
    BY <2>2, <2>3, <2>4, <2>5, <2>6, <2>7
<1>12. t \in 1..NumTokens
  BY DEF Tokens
<1>13. ValueAt(m, mk) = m.cash + SumUpTo(g, NumTokens)
  BY DEF ValueAt
<1>14. ValueAt(l, mk) = l.cash + SumUpTo(f, NumTokens)
  BY DEF ValueAt
<1> HIDE DEF f, g, q, a
<1>15. SumUpTo(g, NumTokens) = SumUpTo(f, NumTokens) + g[t] - f[t]
  BY <1>9, <1>10, <1>12, SumPoint
<1>16. m.cash = l.cash - b - fee
  BY <1>1
<1> HIDE DEF b
<1>17. m.cash + SumUpTo(g, NumTokens) = l.cash + SumUpTo(f, NumTokens) - fee
  BY <1>3, <1>9, <1>11, <1>15, <1>16
<1>18. Equity(m) = ValueAt(l, mk) - fee
  <2> DEFINE x == SumUpTo(f, NumTokens)
             y == SumUpTo(g, NumTokens)
  <2>1. x \in Int /\ l.cash \in Int
    BY <1>3, <1>9
  <2>2. m.cash + y = l.cash + x - fee
    BY <1>17
  <2>3. Equity(m) = m.cash + y /\ ValueAt(l, mk) = l.cash + x
    BY <1>8, <1>13, <1>14
  <2> HIDE DEF x, y
  <2>4. QED
    BY <2>1, <2>2, <2>3
<1>19. QED
  BY <1>1, <1>2, <1>18 DEF mk

\* A mark changes no lot and no cash.
LEMMA MarkKeepsValue ==
  ASSUME NEW l, SoundLedger(l), NEW t \in Tokens, NEW price \in Nat,
         NEW m, m = ApplyMark(l, t, price)
  PROVE  Equity(m) = ValueAt(l, MarksOf(m)) /\ m.fees = l.fees
<1> DEFINE n == [qty |-> l.pos[t].qty, cost |-> l.pos[t].cost, mark |-> price]
           mk == MarksOf(m)
<1>a. MarkResult(m, l, t, price)
  BY MarkGives
<1>1. m.cash = l.cash /\ m.fees = l.fees /\ m.pos = [l.pos EXCEPT ![t] = n]
  BY <1>a DEF MarkResult
<1>2. SoundLedger(m)
  BY MarkPeak
<1>3. l.pos \in [Tokens -> Positions]
  BY DEF SoundLedger, LedgerType
<1>4. Equity(m) = ValueAt(m, mk)
  BY <1>2, EquityIsValue
<1> HIDE DEF mk
<1>5. ASSUME NEW u \in Tokens PROVE LotsAt(m.pos[u], mk[u]) = LotsAt(l.pos[u], mk[u])
  <2>1. m.pos[u].qty = l.pos[u].qty
    BY <1>1, <1>3
  <2>2. QED
    BY <2>1 DEF LotsAt
<1>6. [u \in Tokens |-> LotsAt(m.pos[u], mk[u])] = [u \in Tokens |-> LotsAt(l.pos[u], mk[u])]
  BY <1>5
<1>7. ValueAt(m, mk) = ValueAt(l, mk)
  BY <1>1, <1>6 DEF ValueAt
<1>8. QED
  BY <1>1, <1>4, <1>7 DEF mk

\* What a step does to equity, in the terms of the property.
EquityMoved ==
  Equity(ledger') = ledger.cash - (ledger'.fees - ledger.fees)
    + SumUpTo([t \in Tokens |-> IF ledger.pos[t].qty = 0 THEN 0
                                ELSE ledger.pos[t].qty * ledger'.pos[t].mark], NumTokens)

\* The right side is the old ledger's cash and lots at the new marks, less fees.
LEMMA EquityMovedMeaning ==
  ASSUME SoundLedger(ledger), SoundLedger(ledger'), NEW fee \in Nat,
         ledger'.fees = ledger.fees + fee,
         Equity(ledger') = ValueAt(ledger, MarksOf(ledger')) - fee
  PROVE  EquityMoved
<1> DEFINE mk == MarksOf(ledger')
           f == [t \in Tokens |-> LotsAt(ledger.pos[t], mk[t])]
           g == [t \in Tokens |-> IF ledger.pos[t].qty = 0 THEN 0
                                  ELSE ledger.pos[t].qty * ledger'.pos[t].mark]
<1>1. \A t \in Tokens : mk[t] = ledger'.pos[t].mark /\ mk[t] \in Int
  BY MarksType
<1>2. ValueAt(ledger, mk) = ledger.cash + SumUpTo(f, NumTokens)
  BY DEF ValueAt
<1>3. /\ ledger.cash \in Int /\ ledger.fees \in Int
      /\ ledger.pos \in [Tokens -> Positions]
  BY DEF SoundLedger, LedgerType
<1> HIDE DEF mk
<1>4. f = g
  BY <1>1 DEF LotsAt
<1>5. SumUpTo(f, NumTokens) \in Int
  BY <1>1, <1>3, LotsSummable
<1>6. Equity(ledger') = ledger.cash + SumUpTo(f, NumTokens) - fee
  <2>1. Equity(ledger') = ValueAt(ledger, mk) - fee
    BY DEF mk
  <2> DEFINE x == SumUpTo(f, NumTokens)
  <2>2. ValueAt(ledger, mk) = ledger.cash + x
    BY <1>2
  <2>3. x \in Int /\ ledger.cash \in Int
    BY <1>3, <1>5
  <2> HIDE DEF x
  <2>4. Equity(ledger') = ledger.cash + x - fee
    BY <2>1, <2>2, <2>3
  <2>5. QED
    BY <2>4 DEF x
<1> HIDE DEF f
<1>7. Equity(ledger') = ledger.cash - (ledger'.fees - ledger.fees) + SumUpTo(f, NumTokens)
  BY <1>3, <1>5, <1>6
<1>8. QED
  BY <1>4, <1>7 DEF EquityMoved

\* No operation creates value: whatever is filled, marked or flattened, equity is
\* the old cash and lots at the new marks, less the fees charged.
THEOREM EquityConserved == Spec => EquityMovesByMarksAndFees
<1>1. Inv /\ [Next]_vars => [EquityMoved]_vars
  <2>1. SUFFICES ASSUME Inv, Next PROVE EquityMoved
    OBVIOUS
  <2>2. SoundLedger(ledger)
    BY <2>1, InvMeaning DEF Inv
  <2>3. ASSUME NEW t \in Tokens, NEW side \in Sides, NEW size \in Sizes, NEW price \in Prices,
               NEW fee \in Fees, Fill(t, side, size, price, fee)
        PROVE  EquityMoved
    <3>1. size \in Nat /\ price \in Nat /\ fee \in Nat
      BY InputAssumption
    <3>2. ledger' = ApplyFill(ledger, t, side, size, price, fee)
      BY <2>3 DEF Fill
    <3>3. /\ Equity(ledger') = ValueAt(ledger, MarksOf(ledger')) - fee
          /\ ledger'.fees = ledger.fees + fee
          /\ SoundLedger(ledger')
      BY <2>2, <3>1, <3>2, FillKeepsValue
    <3>4. QED
      BY <2>2, <3>1, <3>3, EquityMovedMeaning
  <2>4. ASSUME NEW t \in Tokens, NEW price \in Prices, Mark(t, price)
        PROVE  EquityMoved
    <3>1. price \in Nat
      BY InputAssumption
    <3>2. ledger' = ApplyMark(ledger, t, price)
      BY <2>4 DEF Mark
    <3>3. Equity(ledger') = ValueAt(ledger, MarksOf(ledger')) /\ ledger'.fees = ledger.fees
      BY <2>2, <3>1, <3>2, MarkKeepsValue
    <3>4. SoundLedger(ledger')
      BY <2>2, <3>1, <3>2, MarkPeak
    <3>5. Equity(ledger') \in Int /\ ledger.fees \in Int
      BY <2>2, <3>4, CommitSound DEF SoundLedger, LedgerType
    <3>6. Equity(ledger') = ValueAt(ledger, MarksOf(ledger')) - 0
          /\ ledger'.fees = ledger.fees + 0 /\ 0 \in Nat
      BY <3>3, <3>5
    <3>7. QED
      BY <2>2, <3>4, <3>6, EquityMovedMeaning
  <2>5. ASSUME NEW marks \in [Tokens -> Prices \cup {NoMark}], Flatten(marks)
        PROVE  EquityMoved
    <3>1. /\ SoundLedger(ledger')
          /\ \A t \in Tokens : ledger'.pos[t].qty = 0
          /\ \A t \in OpenTokens(ledger) : ledger'.pos[t].mark = marks[t]
          /\ ledger'.fees = ledger.fees
          /\ ValueAt(ledger', marks) = ValueAt(ledger, marks)
      BY <2>1, <2>5, FlattenEffect
    <3>2. \A t \in OpenTokens(ledger) : marks[t] = MarksOf(ledger')[t]
      BY <3>1 DEF MarksOf, OpenTokens
    <3>3. ValueAt(ledger, marks) = ValueAt(ledger, MarksOf(ledger'))
      BY <3>2, ValueByOpenMarks
    <3>4. \A t \in OpenTokens(ledger') : marks[t] = MarksOf(ledger')[t]
      BY <3>1 DEF OpenTokens
    <3>5. ValueAt(ledger', marks) = ValueAt(ledger', MarksOf(ledger'))
      BY <3>4, ValueByOpenMarks
    <3>6. Equity(ledger') = ValueAt(ledger, MarksOf(ledger'))
      BY <3>1, <3>3, <3>5, EquityIsValue
    <3>7. Equity(ledger') \in Int /\ ledger.fees \in Int
      BY <2>2, <3>1, CommitSound DEF SoundLedger, LedgerType
    <3>8. Equity(ledger') = ValueAt(ledger, MarksOf(ledger')) - 0
          /\ ledger'.fees = ledger.fees + 0 /\ 0 \in Nat
      BY <3>1, <3>6, <3>7
    <3>9. QED
      BY <2>2, <3>1, <3>8, EquityMovedMeaning
  <2>6. QED
    BY <2>1, <2>3, <2>4, <2>5 DEF Next
<1>2. [EquityMoved]_vars
        <=> [Equity(ledger') = ledger.cash - (ledger'.fees - ledger.fees)
               + SumUpTo([t \in Tokens |-> IF ledger.pos[t].qty = 0 THEN 0
                                           ELSE ledger.pos[t].qty * ledger'.pos[t].mark],
                         NumTokens)]_vars
  BY DEF EquityMoved
<1>3. QED
  BY <1>1, <1>2, InitInv, NextInv, PTL DEF Spec, EquityMovesByMarksAndFees
=============================================================================
