------------------------- MODULE PaperBrokerProofs -------------------------
(***************************************************************************)
(* PaperBroker for every number of orders and tokens, every price, size    *)
(* and fee: the status of an order tells its filled size, the ledger holds *)
(* exactly the filled sizes, and the broker implements OrderLifecycle.     *)
(***************************************************************************)
EXTENDS PaperBroker, RulesProofs

-----------------------------------------------------------------------------
(* One order *)

\* What an order is at any time: TypeOK and StatusTellsFilled, of one order.
SoundOrder(o) ==
  /\ o \in OrderType
  /\ o.filled <= o.size
  /\ o.status # "NONE" => o.size > 0
  /\ o.status = "NONE" => o.size = 0
  /\ o.status = "FILLED" => o.filled = o.size
  /\ o.status = "PARTIAL" => o.filled \in 1..(o.size - 1)
  /\ o.status \in {"CANCEL_REQUESTED", "CANCELLED"} => o.filled < o.size
  /\ o.status \in {"NONE", "CREATED", "SUBMITTED", "ACKNOWLEDGED", "REJECTED", "EXPIRED"}
       => o.filled = 0

\* Same terms, same filled size.
SameBooking(o, n) ==
  n.token = o.token /\ n.side = o.side /\ n.price = o.price /\ n.filled = o.filled

OrderStatuses == {"NONE", "CREATED", "SUBMITTED", "ACKNOWLEDGED", "PARTIAL", "FILLED",
                  "CANCEL_REQUESTED", "CANCELLED", "REJECTED", "EXPIRED"}

Reasons == {"NONE", "GIVEN", "IDEMPOTENT_REPLAY"}

\* The order type, with the statuses written out.
LEMMA OrderTypeIs ==
  OrderType = [status : OrderStatuses, token : Tokens, side : Sides, price : Nat,
               size : Nat, filled : Nat, reason : Reasons]
<1>1. Lifecycle!Statuses \cup {"NONE"} = OrderStatuses
  BY DEF Lifecycle!Statuses, OrderStatuses
<1>2. QED
  BY <1>1 DEF OrderType, Reasons

\* An id no order was created for is sound.
LEMMA AbsentSound == SoundOrder(Absent)
<1>1. 1 \in Tokens
  BY LedgerAssumption DEF Tokens
<1>2. Absent \in OrderType
  BY <1>1, OrderTypeIs DEF Absent, OrderStatuses, Reasons, Sides
<1>3. QED
  BY <1>2 DEF SoundOrder, Absent

\* An order made from legal terms is sound.
LEMMA NewOrderSound ==
  ASSUME NEW t \in Tokens, NEW side \in Sides, NEW price \in Nat, NEW size \in Nat \ {0}
  PROVE  SoundOrder(NewOrder(t, side, price, size))
<1>1. NewOrder(t, side, price, size) \in OrderType
  BY OrderTypeIs DEF NewOrder, OrderStatuses, Reasons
<1>2. QED
  BY <1>1 DEF SoundOrder, NewOrder

\* Acknowledging a live order keeps it sound and fills nothing.
LEMMA AcknowledgedSound ==
  ASSUME NEW o, SoundOrder(o)
  PROVE  /\ SoundOrder(Acknowledged(o))
         /\ SameBooking(o, Acknowledged(o))
         /\ Acknowledged(o).size = o.size
         /\ Acknowledged(o).status = IF o.status \in {"CREATED", "SUBMITTED"}
                                     THEN "ACKNOWLEDGED" ELSE o.status
<1>1. o \in OrderType
  BY DEF SoundOrder
<1>2. CASE o.status \in {"CREATED", "SUBMITTED"}
  <2>1. Acknowledged(o) = [o EXCEPT !.status = "ACKNOWLEDGED"]
    BY <1>2 DEF Acknowledged
  <2>2. Acknowledged(o) \in OrderType
    BY <1>1, <2>1, OrderTypeIs DEF OrderStatuses
  <2>3. QED
    BY <1>1, <1>2, <2>1, <2>2, OrderTypeIs DEF SoundOrder, SameBooking
<1>3. CASE o.status \notin {"CREATED", "SUBMITTED"}
  BY <1>3 DEF Acknowledged, SameBooking
<1>4. QED
  BY <1>2, <1>3

\* A fill of at most what remains adds exactly that, and the status follows.
LEMMA FilledSound ==
  ASSUME NEW o, SoundOrder(o), NEW k \in 1..Remaining(o)
  PROVE  /\ SoundOrder(Filled(o, k))
         /\ Filled(o, k).filled = o.filled + k
         /\ Filled(o, k).token = o.token /\ Filled(o, k).side = o.side
         /\ Filled(o, k).price = o.price /\ Filled(o, k).size = o.size
         /\ Filled(o, k).status = IF o.filled + k = o.size THEN "FILLED" ELSE "PARTIAL"
<1> DEFINE n == Filled(o, k)
           x == IF o.filled + k >= o.size THEN "FILLED" ELSE "PARTIAL"
<1>1. o \in OrderType /\ o.filled \in Nat /\ o.size \in Nat /\ o.filled <= o.size
  BY OrderTypeIs DEF SoundOrder
<1>2. k \in Nat /\ k > 0 /\ o.filled + k <= o.size
  BY <1>1 DEF Remaining
<1>3. Lesser(o.size, o.filled + k) = o.filled + k
  BY <1>1, <1>2 DEF Lesser
<1>4. n = [o EXCEPT !.filled = o.filled + k, !.status = x]
  BY <1>1, <1>3, OrderTypeIs DEF Filled
<1>5. x \in OrderStatuses /\ o.filled + k \in Nat
  BY <1>1, <1>2 DEF OrderStatuses
<1>6. n \in OrderType
  BY <1>1, <1>4, <1>5, OrderTypeIs
<1>7. /\ n.filled = o.filled + k /\ n.status = x /\ n.token = o.token /\ n.side = o.side
      /\ n.price = o.price /\ n.size = o.size
  BY <1>1, <1>4, OrderTypeIs
<1>8. x = IF o.filled + k = o.size THEN "FILLED" ELSE "PARTIAL"
  BY <1>1, <1>2
<1> HIDE DEF n
<1>9. SoundOrder(n)
  BY <1>1, <1>2, <1>6, <1>7, <1>8 DEF SoundOrder
<1>10. QED
  BY <1>7, <1>8, <1>9 DEF n

\* A cancel changes the status of an unfinished order and nothing else.
LEMMA CancelledSound ==
  ASSUME NEW o, SoundOrder(o), o.status \notin Finished, o.status # "NONE", NEW settle \in BOOLEAN
  PROVE  /\ SoundOrder(Cancelled(o, settle))
         /\ SameBooking(o, Cancelled(o, settle))
         /\ Cancelled(o, settle).size = o.size
         /\ Cancelled(o, settle).status \in {"CANCELLED", "CANCEL_REQUESTED"}
         /\ o.status = "CREATED" => Cancelled(o, settle).status = "CANCELLED"
<1> DEFINE n == Cancelled(o, settle)
           x == IF o.status = "CREATED" \/ settle THEN "CANCELLED" ELSE "CANCEL_REQUESTED"
<1>1. o \in OrderType /\ o.filled \in Nat /\ o.size \in Nat
  BY OrderTypeIs DEF SoundOrder
<1>2. n = [o EXCEPT !.status = x] /\ x \in {"CANCELLED", "CANCEL_REQUESTED"}
  BY DEF Cancelled
<1>3. n \in OrderType
  BY <1>1, <1>2, OrderTypeIs DEF OrderStatuses
<1>4. n.status = x /\ SameBooking(o, n) /\ n.size = o.size
  BY <1>1, <1>2, OrderTypeIs DEF SameBooking
<1>5. o.filled < o.size
  <2>1. o.status \in {"CREATED", "SUBMITTED", "ACKNOWLEDGED", "PARTIAL", "CANCEL_REQUESTED"}
    BY <1>1, OrderTypeIs DEF OrderStatuses, Finished
  <2>2. QED
    BY <1>1, <2>1 DEF SoundOrder
<1>6. o.size > 0
  BY DEF SoundOrder
<1> HIDE DEF n
<1>7. SoundOrder(n)
  BY <1>1, <1>2, <1>3, <1>4, <1>5, <1>6 DEF SoundOrder, SameBooking
<1>8. QED
  BY <1>2, <1>4, <1>7 DEF n

\* A rejection before the order is acknowledged.
LEMMA RejectedSound ==
  ASSUME NEW o, SoundOrder(o), o.status \in {"CREATED", "SUBMITTED"}
  PROVE  LET n == [o EXCEPT !.status = "REJECTED", !.reason = "GIVEN"]
         IN  SoundOrder(n) /\ SameBooking(o, n) /\ n.size = o.size /\ n.status = "REJECTED"
<1> DEFINE n == [o EXCEPT !.status = "REJECTED", !.reason = "GIVEN"]
<1>1. o \in OrderType
  BY DEF SoundOrder
<1>2. n \in OrderType /\ n.status = "REJECTED" /\ SameBooking(o, n) /\ n.size = o.size
  BY <1>1, OrderTypeIs DEF OrderStatuses, Reasons, SameBooking
<1> HIDE DEF n
<1>3. SoundOrder(n)
  BY <1>2 DEF SoundOrder, SameBooking
<1>4. QED
  BY <1>2, <1>3 DEF n

-----------------------------------------------------------------------------
(* The order table against the ledger *)

\* What one order contributes to the lots of a token and to the cash paid.
Lots(o, t) == IF o.token = t THEN Signed(o.side, o.filled) ELSE 0

Paid(o) == Signed(o.side, o.filled) * o.price

LotsOf(os, t) == SumUpTo([c \in Cids |-> Lots(os[c], t)], MaxOrders)

PaidOf(os) == SumUpTo([c \in Cids |-> Paid(os[c])], MaxOrders)

SoundOrders(os) == os \in [Cids -> OrderType] /\ \A c \in Cids : SoundOrder(os[c])

Booked(os, l) ==
  /\ \A t \in Tokens : l.pos[t].qty = LotsOf(os, t)
  /\ l.cash = StartingCash - l.fees - PaidOf(os)

IInv ==
  /\ SoundOrders(orders)
  /\ SoundLedger(ledger)
  /\ lastFill \in [cid : Nat, size : Nat, realized : Int]
  /\ Booked(orders, ledger)

\* The invariants the run checks, in these terms.
LEMMA IInvImplies == IInv => TypeOK /\ StatusTellsFilled /\ FillsBooked
<1>1. SUFFICES ASSUME IInv PROVE TypeOK /\ StatusTellsFilled /\ FillsBooked
  OBVIOUS
<1>2. TypeOK
  BY <1>1 DEF IInv, SoundOrders, SoundOrder, SoundLedger, TypeOK, Known
<1>3. StatusTellsFilled
  BY <1>1 DEF IInv, SoundOrders, SoundOrder, StatusTellsFilled
<1>4. FillsBooked
  BY <1>1, Zenon DEF IInv, Booked, LotsOf, PaidOf, Lots, Paid, FillsBooked
<1>5. QED
  BY <1>2, <1>3, <1>4

\* What an order adds to a token's lots and to the cash is an integer.
LEMMA ContributionType ==
  ASSUME NEW o, SoundOrder(o), NEW t
  PROVE  Signed(o.side, o.filled) \in Int /\ Lots(o, t) \in Int /\ Paid(o) \in Int
<1>1. o.filled \in Nat /\ o.price \in Nat
  BY OrderTypeIs DEF SoundOrder
<1>2. Signed(o.side, o.filled) \in Int
  BY <1>1 DEF Signed
<1>3. Signed(o.side, o.filled) * o.price \in Int
  BY <1>1, <1>2
<1>4. QED
  BY <1>2, <1>3 DEF Lots, Paid

\* Two orders that contribute the same to every total.
SameWeight(o, n) == Paid(n) = Paid(o) /\ \A t : Lots(n, t) = Lots(o, t)

\* Orders with the same terms and filled size do, and orders with nothing filled do.
LEMMA WeighsSame ==
  ASSUME NEW o, SoundOrder(o), NEW n, SoundOrder(n),
         SameBooking(o, n) \/ (o.filled = 0 /\ n.filled = 0)
  PROVE  SameWeight(o, n)
<1>1. CASE SameBooking(o, n)
  BY <1>1 DEF SameBooking, SameWeight, Lots, Paid
<1>2. CASE o.filled = 0 /\ n.filled = 0
  <2>1. o.price \in Nat /\ n.price \in Nat
    BY OrderTypeIs DEF SoundOrder
  <2>2. Signed(o.side, o.filled) = 0 /\ Signed(n.side, n.filled) = 0
    <3>1. \A side : \A x \in Int : Signed(side, x) = IF side = "BUY" THEN x ELSE 0 - x
      BY DEF Signed
    <3>2. QED
      BY <1>2, <3>1
  <2>3. Paid(o) = 0 /\ Paid(n) = 0
    BY <2>1, <2>2 DEF Paid
  <2>4. \A t : Lots(o, t) = 0 /\ Lots(n, t) = 0
    BY <2>2 DEF Lots
  <2>5. QED
    BY <2>3, <2>4 DEF SameWeight
<1>3. QED
  BY <1>1, <1>2

\* When no order changes its contribution, the totals stay.
LEMMA BookingStays ==
  ASSUME NEW os, NEW ns, \A c \in Cids : SameWeight(os[c], ns[c])
  PROVE  (\A t : LotsOf(ns, t) = LotsOf(os, t)) /\ PaidOf(ns) = PaidOf(os)
<1>1. \A c \in Cids : Paid(ns[c]) = Paid(os[c])
  BY DEF SameWeight
<1>2. \A t : \A c \in Cids : Lots(ns[c], t) = Lots(os[c], t)
  BY DEF SameWeight
<1>3. [c \in Cids |-> Paid(ns[c])] = [c \in Cids |-> Paid(os[c])]
  BY <1>1, Zenon
<1>4. \A t : [c \in Cids |-> Lots(ns[c], t)] = [c \in Cids |-> Lots(os[c], t)]
  BY <1>2, Zenon
<1>5. QED
  BY <1>3, <1>4, Zenon DEF LotsOf, PaidOf

\* One order replaced by another: what most methods do.
Replaced(os, c, n, ns) == ns = [os EXCEPT ![c] = n]

\* Replacing one order moves the totals by the difference.
LEMMA BookingMoves ==
  ASSUME NEW os, SoundOrders(os), NEW c \in Cids, NEW n, SoundOrder(n),
         NEW ns, Replaced(os, c, n, ns), NEW t
  PROVE  /\ LotsOf(os, t) \in Int /\ PaidOf(os) \in Int
         /\ LotsOf(ns, t) = LotsOf(os, t) + Lots(n, t) - Lots(os[c], t)
         /\ PaidOf(ns) = PaidOf(os) + Paid(n) - Paid(os[c])
<1> DEFINE f == [d \in Cids |-> Lots(os[d], t)]
           g == [d \in Cids |-> Lots(ns[d], t)]
           p == [d \in Cids |-> Paid(os[d])]
           q == [d \in Cids |-> Paid(ns[d])]
<1>1. MaxOrders \in Nat /\ c \in 1..MaxOrders
  BY BrokerAssumption DEF Cids
<1>2. DOMAIN os = Cids /\ \A d \in Cids : SoundOrder(os[d])
  BY DEF SoundOrders
<1>3. ns[c] = n /\ \A d \in Cids : d # c => ns[d] = os[d]
  BY <1>2 DEF Replaced
<1>4. \A d \in Cids : SoundOrder(ns[d])
  BY <1>2, <1>3
<1>5. \A d \in 1..MaxOrders : /\ f[d] \in Int /\ g[d] \in Int /\ p[d] \in Int /\ q[d] \in Int
                              /\ d # c => f[d] = g[d] /\ p[d] = q[d]
  BY <1>2, <1>3, <1>4, ContributionType DEF Cids
<1>6. /\ f[c] = Lots(os[c], t) /\ g[c] = Lots(n, t)
      /\ p[c] = Paid(os[c]) /\ q[c] = Paid(n)
  BY <1>3
<1>7. /\ LotsOf(os, t) = SumUpTo(f, MaxOrders) /\ LotsOf(ns, t) = SumUpTo(g, MaxOrders)
      /\ PaidOf(os) = SumUpTo(p, MaxOrders) /\ PaidOf(ns) = SumUpTo(q, MaxOrders)
  BY DEF LotsOf, PaidOf
<1> HIDE DEF f, g, p, q
<1>8. /\ Summable(f, MaxOrders) /\ Summable(g, MaxOrders)
      /\ Summable(p, MaxOrders) /\ Summable(q, MaxOrders)
  BY <1>5 DEF Summable
<1>9. SumUpTo(f, MaxOrders) \in Int /\ SumUpTo(p, MaxOrders) \in Int
  BY <1>1, <1>8, SumInt
<1>10. SumUpTo(g, MaxOrders) = SumUpTo(f, MaxOrders) + g[c] - f[c]
  BY <1>1, <1>5, <1>8, SumPoint
<1>11. SumUpTo(q, MaxOrders) = SumUpTo(p, MaxOrders) + q[c] - p[c]
  BY <1>1, <1>5, <1>8, SumPoint
<1>12. QED
  BY <1>6, <1>7, <1>9, <1>10, <1>11

\* k more lots of an order are Signed(side, k) more lots and as much more cash.
LEMMA MoreFilled ==
  ASSUME NEW o, SoundOrder(o), NEW n, SoundOrder(n), NEW k \in Nat, NEW t,
         n.token = o.token, n.side = o.side, n.price = o.price, n.filled = o.filled + k
  PROVE  /\ Lots(n, t) = Lots(o, t) + (IF o.token = t THEN Signed(o.side, k) ELSE 0)
         /\ Paid(n) = Paid(o) + Signed(o.side, k) * o.price
<1>1. o.filled \in Nat /\ o.price \in Nat
  BY OrderTypeIs DEF SoundOrder
<1> DEFINE a == Signed(o.side, o.filled)
           b == Signed(o.side, k)
<1>2. a \in Int /\ b \in Int
  BY <1>1 DEF Signed
<1>3. Signed(n.side, n.filled) = a + b
  BY <1>1 DEF Signed
<1>4. Lots(o, t) = (IF o.token = t THEN a ELSE 0) /\ Paid(o) = a * o.price
  BY DEF Lots, Paid
<1>5. Lots(n, t) = (IF o.token = t THEN a + b ELSE 0) /\ Paid(n) = (a + b) * o.price
  BY <1>3 DEF Lots, Paid
<1> HIDE DEF a, b
<1>6. (a + b) * o.price = a * o.price + b * o.price
  BY <1>1, <1>2
<1>7. QED
  BY <1>2, <1>4, <1>5, <1>6 DEF b

\* Ledger m is ledger l after s signed lots of token t at the price, with the fee.
MovedBy(l, m, t, s, price, fee) ==
  /\ m.fees = l.fees + fee
  /\ m.cash = l.cash - s * price - fee
  /\ \A u \in Tokens : m.pos[u].qty = l.pos[u].qty + (IF u = t THEN s ELSE 0)

\* What booking a fill does to the lots and the cash of a ledger.
LEMMA FillMoves ==
  ASSUME NEW l, SoundLedger(l), NEW t \in Tokens, NEW side \in Sides, NEW size \in Nat,
         NEW price \in Nat, NEW fee \in Nat,
         NEW m, m = ApplyFill(l, t, side, size, price, fee)
  PROVE  SoundLedger(m) /\ MovedBy(l, m, t, Signed(side, size), price, fee)
<1> DEFINE s == Signed(side, size)
           n == FilledPosition(l.pos[t], s, price)
           k == [cash     |-> l.cash + CashDelta(s, price, fee),
                 realized |-> l.realized + Realized(l.pos[t], s, price, fee),
                 fees     |-> l.fees + fee,
                 peak     |-> l.peak,
                 pos      |-> [l.pos EXCEPT ![t] = n]]
<1>1. l.cash \in Int /\ l.pos \in [Tokens -> Positions]
  BY DEF SoundLedger, LedgerType
<1>2. s \in Int
  BY DEF Signed
<1>3. SoundLedger(m)
  BY FillBalances
<1>4. m = WithPeak(k)
  BY Zenon DEF ApplyFill
<1>5. m.cash = k.cash /\ m.fees = k.fees /\ m.pos = k.pos
  <2> HIDE DEF k
  <2>1. m = [k EXCEPT !.peak = Greater(k.peak, Equity(k))]
    BY <1>4 DEF WithPeak
  <2> USE DEF k
  <2>2. QED
    BY <2>1
<1>6. k.cash = l.cash - s * price - fee /\ k.fees = l.fees + fee
  BY <1>1, <1>2 DEF CashDelta
<1>7. n.qty = l.pos[t].qty + s
  BY DEF FilledPosition
<1>8. \A u \in Tokens : k.pos[u].qty = l.pos[u].qty + (IF u = t THEN s ELSE 0)
  <2> HIDE DEF n
  <2>1. \A u \in Tokens : l.pos[u].qty \in Int
    BY <1>1 DEF Positions
  <2>2. QED
    BY <1>1, <1>7, <2>1
<1> HIDE DEF k, s
<1>9. QED
  BY <1>3, <1>5, <1>6, <1>8 DEF MovedBy, s

-----------------------------------------------------------------------------
(* Steps *)

\* A step that leaves the ledger and every order's contribution alone.
LEMMA QuietStep ==
  ASSUME IInv, SoundOrders(orders'), ledger' = ledger,
         lastFill' \in [cid : Nat, size : Nat, realized : Int],
         \A c \in Cids : \/ SameBooking(orders[c], orders'[c])
                         \/ orders[c].filled = 0 /\ orders'[c].filled = 0
  PROVE  IInv'
<1>1. \A c \in Cids : SameWeight(orders[c], orders'[c])
  BY WeighsSame DEF IInv, SoundOrders
<1>2. (\A t : LotsOf(orders', t) = LotsOf(orders, t)) /\ PaidOf(orders') = PaidOf(orders)
  BY <1>1, BookingStays
<1>3. Booked(orders, ledger)
  BY DEF IInv
<1>4. Booked(orders', ledger')
  BY <1>2, <1>3 DEF Booked
<1>5. SoundLedger(ledger')
  BY DEF IInv
<1>6. QED
  BY <1>4, <1>5 DEF IInv, SoundOrders, SoundLedger, Booked, LotsOf, PaidOf

\* Replacing one order by a sound one keeps the table sound and the other orders.
LEMMA ReplaceSound ==
  ASSUME NEW os, SoundOrders(os), NEW c \in Cids, NEW n, SoundOrder(n),
         NEW ns, Replaced(os, c, n, ns)
  PROVE  /\ SoundOrders(ns)
         /\ ns[c] = n
         /\ \A d \in Cids : d # c => ns[d] = os[d]
<1>1. n \in OrderType
  BY DEF SoundOrder
<1>2. os \in [Cids -> OrderType]
  BY DEF SoundOrders
<1>3. QED
  BY <1>1, <1>2 DEF SoundOrders, Replaced

\* One order replaced, ledger untouched.
LEMMA QuietReplace ==
  ASSUME IInv, NEW c \in Cids, NEW n, SoundOrder(n),
         Replaced(orders, c, n, orders'), ledger' = ledger,
         lastFill' \in [cid : Nat, size : Nat, realized : Int],
         \/ SameBooking(orders[c], n)
         \/ orders[c].filled = 0 /\ n.filled = 0
  PROVE  IInv'
<1>1. SoundOrders(orders)
  BY DEF IInv
<1>2. /\ SoundOrders(orders')
      /\ orders'[c] = n
      /\ \A d \in Cids : d # c => orders'[d] = orders[d]
  BY <1>1, ReplaceSound
<1>3. \A d \in Cids : d # c => SameBooking(orders[d], orders'[d])
  BY <1>2 DEF SameBooking
<1>4. QED
  BY <1>2, <1>3, QuietStep

\* An order marked as a replay is the same order.
LEMMA ReplaySound ==
  ASSUME NEW o, SoundOrder(o)
  PROVE  LET n == [o EXCEPT !.reason = "IDEMPOTENT_REPLAY"]
         IN  SoundOrder(n) /\ SameBooking(o, n) /\ n.size = o.size /\ n.status = o.status
<1> DEFINE n == [o EXCEPT !.reason = "IDEMPOTENT_REPLAY"]
<1>1. o \in OrderType
  BY DEF SoundOrder
<1>2. n \in OrderType /\ n.status = o.status /\ SameBooking(o, n) /\ n.size = o.size
  BY <1>1, OrderTypeIs DEF Reasons, SameBooking
<1> HIDE DEF n
<1>3. SoundOrder(n)
  BY <1>2 DEF SoundOrder, SameBooking
<1>4. QED
  BY <1>2, <1>3 DEF n

\* create keeps IInv, for a new id and for a replay.
LEMMA CreateInv ==
  ASSUME IInv, NEW c \in Cids, NEW t \in Tokens, NEW side \in Sides, NEW price \in Prices,
         NEW size \in Sizes, Create(c, t, side, price, size)
  PROVE  IInv'
<1>1. /\ SoundOrder(orders[c])
      /\ lastFill' \in [cid : Nat, size : Nat, realized : Int] /\ ledger' = ledger
  BY DEF IInv, SoundOrders, Create
<1>2. CASE Known(c)
  <2>1. orders' = [orders EXCEPT ![c] = [orders[c] EXCEPT !.reason = "IDEMPOTENT_REPLAY"]]
    BY <1>2 DEF Create
  <2>2. QED
    BY <1>1, <2>1, ReplaySound, QuietReplace DEF Replaced
<1>3. CASE ~Known(c)
  <2>1. orders' = [orders EXCEPT ![c] = NewOrder(t, side, price, size)]
    BY <1>3 DEF Create
  <2>2. SoundOrder(NewOrder(t, side, price, size))
    BY NewOrderSound, BrokerAssumption
  <2>3. NewOrder(t, side, price, size).filled = 0
    BY DEF NewOrder
  <2>4. orders[c].filled = 0
    BY <1>1, <1>3 DEF SoundOrder, Known
  <2>5. QED
    BY <1>1, <2>1, <2>2, <2>3, <2>4, QuietReplace DEF Replaced
<1>4. QED
  BY <1>2, <1>3

\* submit keeps IInv.
LEMMA SubmitInv ==
  ASSUME IInv, NEW c \in Cids, Submit(c)
  PROVE  IInv'
<1> DEFINE o == orders[c]
<1>1. /\ SoundOrder(o)
      /\ lastFill' \in [cid : Nat, size : Nat, realized : Int] /\ ledger' = ledger
  BY DEF IInv, SoundOrders, Submit
<1>2. orders' = [orders EXCEPT ![c] = Acknowledged(o)]
  BY DEF Submit, Acknowledged
<1>3. QED
  BY <1>1, <1>2, AcknowledgedSound, QuietReplace DEF Replaced

\* simulate_fill with nothing to fill keeps IInv.
LEMMA SimulateNoFillInv ==
  ASSUME IInv, NEW c \in Cids, SimulateNoFill(c)
  PROVE  IInv'
<1>1. /\ SoundOrder(orders[c])
      /\ lastFill' \in [cid : Nat, size : Nat, realized : Int] /\ ledger' = ledger
      /\ orders' = [orders EXCEPT ![c] = Acknowledged(orders[c])]
  BY DEF IInv, SoundOrders, SimulateNoFill, NoFill
<1>2. QED
  BY <1>1, AcknowledgedSound, QuietReplace DEF Replaced

\* request_cancel keeps IInv, settled or not.
LEMMA RequestCancelInv ==
  ASSUME IInv, NEW c \in Cids, NEW settle \in BOOLEAN, RequestCancel(c, settle)
  PROVE  IInv'
<1>1. /\ SoundOrder(orders[c])
      /\ lastFill' \in [cid : Nat, size : Nat, realized : Int] /\ ledger' = ledger
      /\ orders' = [orders EXCEPT ![c] = Cancelled(orders[c], settle)]
  BY DEF IInv, SoundOrders, RequestCancel
<1>2. orders[c].status \notin Finished /\ orders[c].status # "NONE"
  BY DEF RequestCancel, Live, Known
<1>3. QED
  BY <1>1, <1>2, CancelledSound, QuietReplace DEF Replaced

\* reject keeps IInv.
LEMMA RejectInv ==
  ASSUME IInv, NEW c \in Cids, Reject(c)
  PROVE  IInv'
<1>1. /\ SoundOrder(orders[c])
      /\ lastFill' \in [cid : Nat, size : Nat, realized : Int] /\ ledger' = ledger
      /\ orders[c].status \in {"CREATED", "SUBMITTED"}
  BY DEF IInv, SoundOrders, Reject
<1>2. orders' = [orders EXCEPT ![c] =
                   [orders[c] EXCEPT !.status = "REJECTED", !.reason = "GIVEN"]]
  BY DEF Reject, IInv, SoundOrders
<1>3. QED
  BY <1>1, <1>2, RejectedSound, QuietReplace DEF Replaced

\* cancel_open keeps IInv: sweeping many orders books nothing.
LEMMA CancelOpenInv ==
  ASSUME IInv, CancelOpen
  PROVE  IInv'
<1>1. /\ SoundOrders(orders)
      /\ lastFill' \in [cid : Nat, size : Nat, realized : Int] /\ ledger' = ledger
      /\ orders' = [c \in Cids |-> IF orders[c].status \in Sweepable
                                   THEN Cancelled(orders[c], TRUE) ELSE orders[c]]
  BY DEF IInv, CancelOpen
<1>2. ASSUME NEW c \in Cids
      PROVE  SoundOrder(orders'[c]) /\ SameBooking(orders[c], orders'[c])
  <2>1. SoundOrder(orders[c])
    BY <1>1 DEF SoundOrders
  <2>2. CASE orders[c].status \in Sweepable
    <3>1. orders'[c] = Cancelled(orders[c], TRUE)
      BY <1>1, <2>2
    <3>2. orders[c].status \notin Finished /\ orders[c].status # "NONE"
      BY <2>2 DEF Sweepable, Finished
    <3>3. QED
      BY <2>1, <3>1, <3>2, CancelledSound
  <2>3. CASE orders[c].status \notin Sweepable
    <3>1. orders'[c] = orders[c]
      BY <1>1, <2>3
    <3>2. QED
      BY <2>1, <3>1 DEF SameBooking
  <2>4. QED
    BY <2>2, <2>3
<1>3. orders' \in [Cids -> OrderType]
  <2>1. orders' = [c \in Cids |-> orders'[c]]
    BY <1>1
  <2>2. \A c \in Cids : orders'[c] \in OrderType
    BY <1>2 DEF SoundOrder
  <2>3. QED
    BY <2>1, <2>2
<1>4. QED
  BY <1>1, <1>2, <1>3, QuietStep DEF SoundOrders

\* simulate_fill keeps IInv: the lots added to the order are the lots booked in the ledger.
LEMMA SimulateFillInv ==
  ASSUME IInv, NEW c \in Cids, NEW feePerShare \in FeesPerShare, SimulateFill(c, feePerShare)
  PROVE  IInv'
<1> DEFINE o == orders[c]
           a == Acknowledged(o)
<1>1. SoundOrders(orders) /\ SoundLedger(ledger) /\ Booked(orders, ledger) /\ SoundOrder(o)
  BY DEF IInv, SoundOrders
<1>2. PICK k \in 1..Remaining(o) :
        /\ orders' = [orders EXCEPT ![c] = Filled(a, k)]
        /\ ledger' = Booking(o, k, feePerShare)
        /\ lastFill' = FillEvent(c, k)
  BY DEF SimulateFill
<1> DEFINE n == Filled(a, k)
           fee == k * Greater(0, feePerShare)
           s == Signed(o.side, k)
<1>0. Replaced(orders, c, n, orders')
  BY <1>2 DEF Replaced
<1>3. SoundOrder(a) /\ SameBooking(o, a) /\ a.size = o.size
  BY <1>1, AcknowledgedSound
<1>4. o.token \in Tokens /\ o.side \in Sides /\ o.price \in Nat /\ o.filled \in Nat /\ o.size \in Nat
  BY <1>1, OrderTypeIs DEF SoundOrder
<1>5. k \in Nat /\ k \in 1..Remaining(a)
  BY <1>2, <1>3, <1>4 DEF Remaining, SameBooking
<1> HIDE DEF o, a
<1>6. /\ SoundOrder(n)
      /\ n.token = o.token /\ n.side = o.side /\ n.price = o.price /\ n.filled = o.filled + k
  BY <1>3, <1>5, FilledSound DEF SameBooking
<1> HIDE DEF n
<1>7. fee \in Nat
  <2>1. Greater(0, feePerShare) \in Nat
    BY BrokerAssumption DEF Greater
  <2>2. QED
    BY <1>5, <2>1
<1>8. ledger' = ApplyFill(ledger, o.token, o.side, k, o.price, fee)
  BY <1>2 DEF Booking
<1> HIDE DEF fee
<1>9. /\ SoundLedger(ledger')
      /\ ledger'.fees = ledger.fees + fee
      /\ ledger'.cash = ledger.cash - s * o.price - fee
      /\ \A u \in Tokens : ledger'.pos[u].qty = ledger.pos[u].qty + (IF u = o.token THEN s ELSE 0)
  <2>1. SoundLedger(ledger)
    BY <1>1
  <2>2. k \in Nat /\ o.token \in Tokens /\ o.side \in Sides /\ o.price \in Nat
    BY <1>4, <1>5
  <2>3. SoundLedger(ledger') /\ MovedBy(ledger, ledger', o.token, Signed(o.side, k), o.price, fee)
    BY <2>1, <2>2, <1>7, <1>8, FillMoves
  <2>4. QED
    BY <2>3, Zenon DEF MovedBy
<1>10. SoundOrders(orders')
  BY <1>0, <1>1, <1>6, ReplaceSound
<1>11. s \in Int /\ s * o.price \in Int
  <2>1. s \in Int
    BY <1>5 DEF Signed
  <2>2. QED
    BY <1>4, <2>1
<1>12. \A t \in Tokens : ledger'.pos[t].qty = LotsOf(orders', t)
  <2>1. TAKE t \in Tokens
  <2>2. /\ LotsOf(orders, t) \in Int
        /\ LotsOf(orders', t) = LotsOf(orders, t) + Lots(n, t) - Lots(o, t)
    BY <1>0, <1>1, <1>6, BookingMoves DEF o
  <2>3. Lots(n, t) = Lots(o, t) + (IF o.token = t THEN s ELSE 0) /\ Lots(o, t) \in Int
    BY <1>1, <1>5, <1>6, MoreFilled, ContributionType
  <2>4. ledger.pos[t].qty = LotsOf(orders, t)
    BY <1>1 DEF Booked
  <2> HIDE DEF s
  <2>5. QED
    BY <1>9, <1>11, <2>2, <2>3, <2>4
<1>13. ledger'.cash = StartingCash - ledger'.fees - PaidOf(orders')
  <2>1. /\ PaidOf(orders) \in Int
        /\ PaidOf(orders') = PaidOf(orders) + Paid(n) - Paid(o)
    BY <1>0, <1>1, <1>6, BookingMoves DEF o
  <2>2. Paid(n) = Paid(o) + s * o.price /\ Paid(o) \in Int
    BY <1>1, <1>5, <1>6, MoreFilled, ContributionType
  <2>3. ledger.cash = StartingCash - ledger.fees - PaidOf(orders)
    BY <1>1 DEF Booked
  <2>4. StartingCash \in Int /\ ledger.fees \in Int
    BY <1>1, LedgerAssumption DEF SoundLedger, LedgerType
  <2> DEFINE v == s * o.price
  <2> HIDE DEF v, s
  <2>5. Paid(n) = Paid(o) + v /\ v \in Int /\ ledger'.cash = ledger.cash - v - fee
    BY <1>9, <1>11, <2>2 DEF v
  <2>6. QED
    BY <1>7, <1>9, <2>1, <2>2, <2>3, <2>4, <2>5
<1>14. lastFill' \in [cid : Nat, size : Nat, realized : Int]
  <2>1. ledger.realized \in Int /\ ledger'.realized \in Int
    BY <1>1, <1>9 DEF SoundLedger, LedgerType
  <2>2. c \in Nat
    BY DEF Cids
  <2>3. QED
    BY <1>2, <1>5, <2>1, <2>2 DEF FillEvent
<1>15. Booked(orders', ledger')
  BY <1>12, <1>13 DEF Booked
<1>16. QED
  BY <1>9, <1>10, <1>14, <1>15
     DEF IInv, SoundOrders, SoundLedger, Booked, LotsOf, PaidOf

-----------------------------------------------------------------------------
(* Invariance *)

\* A broker without orders satisfies IInv.
LEMMA InitIInv == Init => IInv
<1>1. SUFFICES ASSUME Init PROVE IInv
  OBVIOUS
<1>2. orders = [c \in Cids |-> Absent] /\ ledger = FreshLedger /\ lastFill = NoFill
  BY <1>1 DEF Init
<1>3. SoundOrders(orders)
  BY <1>2, AbsentSound DEF SoundOrders, SoundOrder
<1>4. /\ SoundLedger(ledger) /\ ledger.cash = StartingCash /\ ledger.fees = 0
      /\ \A t \in Tokens : ledger.pos[t].qty = 0
  <2>1. /\ ledger \in LedgerType /\ ledger.cash = StartingCash /\ ledger.fees = 0
        /\ ledger.pos = [t \in Tokens |-> EmptyPosition]
    BY <1>2, LedgerAssumption DEF FreshLedger, LedgerType, Positions, EmptyPosition, NoMark
  <2>2. QED
    BY <2>1 DEF SoundLedger, EmptyPosition
<1>5. \A c \in Cids : Paid(orders[c]) = 0 /\ \A t : Lots(orders[c], t) = 0
  <2>1. \A side : \A x \in Int : Signed(side, x) = IF side = "BUY" THEN x ELSE 0 - x
    BY DEF Signed
  <2>2. Signed(Absent.side, Absent.filled) = 0 /\ Absent.price = 0
    BY <2>1 DEF Absent
  <2>3. Paid(Absent) = 0 /\ \A t : Lots(Absent, t) = 0
    BY <2>2 DEF Paid, Lots
  <2>4. QED
    BY <1>2, <2>3
<1>6. MaxOrders \in Nat /\ 0 \in Nat /\ 0 <= MaxOrders
  BY BrokerAssumption
<1>7. PaidOf(orders) = 0
  <2> DEFINE f == [c \in Cids |-> Paid(orders[c])]
  <2>1. (\A c \in 1..MaxOrders : f[c] = 0) /\ Summable(f, 0)
    BY <1>5 DEF Cids, Summable
  <2> HIDE DEF f
  <2>2. SumUpTo(f, MaxOrders) = SumUpTo(f, 0)
    BY <1>6, <2>1, SumPadded
  <2>3. QED
    BY <2>2, SumZero DEF PaidOf, f
<1>8. \A t : LotsOf(orders, t) = 0
  <2>1. TAKE t
  <2> DEFINE f == [c \in Cids |-> Lots(orders[c], t)]
  <2>2. (\A c \in 1..MaxOrders : f[c] = 0) /\ Summable(f, 0)
    BY <1>5 DEF Cids, Summable
  <2> HIDE DEF f
  <2>3. SumUpTo(f, MaxOrders) = SumUpTo(f, 0)
    BY <1>6, <2>2, SumPadded
  <2>4. QED
    BY <2>3, SumZero DEF LotsOf, f
<1>9. Booked(orders, ledger)
  BY <1>4, <1>7, <1>8, LedgerAssumption DEF Booked
<1>10. lastFill \in [cid : Nat, size : Nat, realized : Int]
  BY <1>2 DEF NoFill
<1>11. QED
  BY <1>3, <1>4, <1>9, <1>10 DEF IInv

\* IInv is inductive.
LEMMA NextIInv == IInv /\ [Next]_vars => IInv'
<1>1. SUFFICES ASSUME IInv, [Next]_vars PROVE IInv'
  OBVIOUS
<1>2. CASE \E c \in Cids, t \in Tokens, side \in Sides, price \in Prices, size \in Sizes :
             Create(c, t, side, price, size)
  BY <1>1, <1>2, CreateInv
<1>3. CASE \E c \in Cids : Submit(c) \/ Reject(c) \/ SimulateNoFill(c)
  BY <1>1, <1>3, SubmitInv, RejectInv, SimulateNoFillInv
<1>4. CASE \E c \in Cids, fee \in FeesPerShare : SimulateFill(c, fee)
  BY <1>1, <1>4, SimulateFillInv
<1>5. CASE \E c \in Cids, settle \in BOOLEAN : RequestCancel(c, settle)
  BY <1>1, <1>5, RequestCancelInv
<1>6. CASE CancelOpen
  BY <1>1, <1>6, CancelOpenInv
<1>7. CASE UNCHANGED vars
  BY <1>1, <1>7 DEF vars, IInv, SoundOrders, SoundLedger, Booked, LotsOf, PaidOf
<1>8. QED
  BY <1>1, <1>2, <1>3, <1>4, <1>5, <1>6, <1>7 DEF Next

\* Every reachable order table, ledger and fill event is well formed.
THEOREM TypeCorrect == Spec => []TypeOK
BY InitIInv, NextIInv, IInvImplies, PTL DEF Spec

\* The status tells the filled size, for any number of orders of any size.
THEOREM StatusCorrect == Spec => []StatusTellsFilled
BY InitIInv, NextIInv, IInvImplies, PTL DEF Spec

\* The ledger holds exactly the filled sizes, for any number of orders and tokens.
THEOREM BookingCorrect == Spec => []FillsBooked
BY InitIInv, NextIInv, IInvImplies, PTL DEF Spec

-----------------------------------------------------------------------------
(* The broker implements the order lifecycle *)

View(o) == [status |-> o.status, size |-> o.size, filled |-> o.filled]

\* An order that stays, or moves as the lifecycle allows, without being filled.
Settles(o, n) ==
  /\ n.filled = o.filled
  /\ \/ View(n) = View(o)
     \/ Lifecycle!Create(View(o), View(n))
     \/ Lifecycle!Advance(View(o), View(n))

\* Which statuses a call can reach.
LEMMA ReachableStatuses ==
  /\ \A s \in {"CREATED", "SUBMITTED"} :
       "ACKNOWLEDGED" \in Lifecycle!Reachable(s) /\ "REJECTED" \in Lifecycle!Reachable(s)
  /\ \A s \in {"CREATED", "SUBMITTED", "ACKNOWLEDGED", "PARTIAL", "CANCEL_REQUESTED"} :
       {"PARTIAL", "FILLED", "CANCELLED"} \subseteq Lifecycle!Reachable(s)
  /\ \A s \in {"SUBMITTED", "ACKNOWLEDGED", "PARTIAL"} :
       "CANCEL_REQUESTED" \in Lifecycle!Reachable(s)
<1>1. /\ Lifecycle!Legal("CREATED") = {"SUBMITTED", "REJECTED", "CANCELLED", "EXPIRED"}
      /\ Lifecycle!Legal("SUBMITTED") = {"ACKNOWLEDGED", "REJECTED", "CANCEL_REQUESTED", "EXPIRED"}
      /\ Lifecycle!Legal("ACKNOWLEDGED")
           = {"PARTIAL", "FILLED", "CANCEL_REQUESTED", "CANCELLED", "EXPIRED"}
      /\ Lifecycle!Legal("PARTIAL")
           = {"PARTIAL", "FILLED", "CANCEL_REQUESTED", "CANCELLED", "EXPIRED"}
      /\ Lifecycle!Legal("CANCEL_REQUESTED") = {"CANCELLED", "FILLED", "PARTIAL"}
  BY DEF Lifecycle!Legal
<1>2. \A S : S \subseteq Lifecycle!After(S)
  BY DEF Lifecycle!After
<1>3. \A S : \A s \in S : Lifecycle!Legal(s) \subseteq Lifecycle!After(S)
  BY DEF Lifecycle!After
<1>4. \A s : /\ Lifecycle!Legal(s) \subseteq Lifecycle!Reachable(s)
             /\ \A u \in Lifecycle!Legal(s) :
                  /\ Lifecycle!Legal(u) \subseteq Lifecycle!Reachable(s)
                  /\ \A v \in Lifecycle!Legal(u) :
                       Lifecycle!Legal(v) \subseteq Lifecycle!Reachable(s)
  <2>1. TAKE s
  <2> DEFINE L == Lifecycle!Legal(s)
             A == Lifecycle!After(L)
  <2>2. Lifecycle!Reachable(s) = Lifecycle!After(A)
    BY DEF Lifecycle!Reachable
  <2>3. L \subseteq A /\ A \subseteq Lifecycle!After(A)
    BY <1>2
  <2>4. \A u \in L : Lifecycle!Legal(u) \subseteq A
    BY <1>3
  <2>5. \A u \in A : Lifecycle!Legal(u) \subseteq Lifecycle!After(A)
    BY <1>3
  <2> HIDE DEF A
  <2>6. QED
    BY <2>2, <2>3, <2>4, <2>5
<1>5. "ACKNOWLEDGED" \in Lifecycle!Reachable("CREATED")
  BY <1>1, <1>4
<1>6. {"PARTIAL", "FILLED"} \subseteq Lifecycle!Reachable("CREATED")
  BY <1>1, <1>4
<1>7. /\ "REJECTED" \in Lifecycle!Reachable("CREATED")
      /\ "CANCELLED" \in Lifecycle!Reachable("CREATED")
  BY <1>1, <1>4
<1>8. {"ACKNOWLEDGED", "REJECTED", "CANCEL_REQUESTED", "PARTIAL", "FILLED", "CANCELLED"}
        \subseteq Lifecycle!Reachable("SUBMITTED")
  BY <1>1, <1>4
<1>9. {"CANCEL_REQUESTED", "PARTIAL", "FILLED", "CANCELLED"}
        \subseteq Lifecycle!Reachable("ACKNOWLEDGED")
  BY <1>1, <1>4
<1>10. {"CANCEL_REQUESTED", "PARTIAL", "FILLED", "CANCELLED"}
        \subseteq Lifecycle!Reachable("PARTIAL")
  BY <1>1, <1>4
<1>11. {"PARTIAL", "FILLED", "CANCELLED"} \subseteq Lifecycle!Reachable("CANCEL_REQUESTED")
  BY <1>1, <1>4
<1>12. QED
  BY <1>5, <1>6, <1>7, <1>8, <1>9, <1>10, <1>11

\* A sound order that exists is an order of the lifecycle.
LEMMA ViewType ==
  ASSUME NEW o, SoundOrder(o)
  PROVE  /\ View(o) \in Lifecycle!Orders \cup {Lifecycle!NoOrder}
         /\ View(o) = Lifecycle!NoOrder <=> o.status = "NONE"
<1>1. o.status \in Lifecycle!Statuses \cup {"NONE"} /\ o.size \in Nat /\ o.filled \in Nat
  BY DEF SoundOrder, OrderType
<1>2. CASE o.status = "NONE"
  <2>1. o.size = 0 /\ o.filled = 0
    BY <1>2 DEF SoundOrder
  <2>2. QED
    BY <1>2, <2>1 DEF View, Lifecycle!NoOrder
<1>3. CASE o.status # "NONE"
  <2>1. o.size > 0
    BY <1>3 DEF SoundOrder
  <2>2. View(o) \in Lifecycle!Orders
    BY <1>1, <1>3, <2>1 DEF View, Lifecycle!Orders
  <2>3. View(o).status # "NONE"
    BY <1>3 DEF View
  <2>4. View(o) # Lifecycle!NoOrder
    BY <2>3 DEF Lifecycle!NoOrder
  <2>5. QED
    BY <1>3, <2>2, <2>4
<1>4. QED
  BY <1>2, <1>3

\* Moving along reachable statuses, with size and filled size kept, settles.
LEMMA AdvanceSettles ==
  ASSUME NEW o, SoundOrder(o), o.status # "NONE", NEW n,
         n.size = o.size, n.filled = o.filled,
         \/ n.status = o.status
         \/ n.status \in Lifecycle!Reachable(o.status) \ {"PARTIAL", "FILLED"}
  PROVE  Settles(o, n)
<1>1. CASE n.status = o.status
  BY <1>1 DEF Settles, View
<1>2. CASE n.status \in Lifecycle!Reachable(o.status) \ {"PARTIAL", "FILLED"}
  <2>1. View(o) # Lifecycle!NoOrder
    BY ViewType
  <2>2. Lifecycle!Advance(View(o), View(n))
    BY <1>2, <2>1 DEF View, Lifecycle!Advance
  <2>3. QED
    BY <2>2 DEF Settles
<1>3. QED
  BY <1>1, <1>2

\* Acknowledging an order fills nothing and moves it as the lifecycle allows, or not at all.
LEMMA AcknowledgedSettles ==
  ASSUME NEW o, SoundOrder(o), o.status # "NONE"
  PROVE  Settles(o, Acknowledged(o))
<1> DEFINE n == Acknowledged(o)
<1>1. /\ n.size = o.size /\ n.filled = o.filled
      /\ n.status = IF o.status \in {"CREATED", "SUBMITTED"} THEN "ACKNOWLEDGED" ELSE o.status
  BY AcknowledgedSound DEF SameBooking
<1> HIDE DEF n
<1>2. n.status = o.status \/ n.status \in Lifecycle!Reachable(o.status) \ {"PARTIAL", "FILLED"}
  BY <1>1, ReachableStatuses
<1>3. QED
  BY <1>1, <1>2, AdvanceSettles DEF n

\* Cancelling a live order fills nothing and moves it as the lifecycle allows.
LEMMA CancelledSettles ==
  ASSUME NEW o, SoundOrder(o), o.status \notin Finished, o.status # "NONE", NEW settle \in BOOLEAN
  PROVE  Settles(o, Cancelled(o, settle))
<1> DEFINE n == Cancelled(o, settle)
<1>1. /\ n.size = o.size /\ n.filled = o.filled
      /\ n.status \in {"CANCELLED", "CANCEL_REQUESTED"}
      /\ o.status = "CREATED" => n.status = "CANCELLED"
  BY CancelledSound DEF SameBooking
<1> HIDE DEF n
<1>2. o.status \in {"CREATED", "SUBMITTED", "ACKNOWLEDGED", "PARTIAL", "CANCEL_REQUESTED"}
  BY OrderTypeIs DEF SoundOrder, OrderStatuses, Finished
<1>3. n.status = o.status \/ n.status \in Lifecycle!Reachable(o.status) \ {"PARTIAL", "FILLED"}
  BY <1>1, <1>2, ReachableStatuses
<1>4. QED
  BY <1>1, <1>3, AdvanceSettles DEF n

\* Any step in which every order settles is a step of the lifecycle.
LEMMA SettledStep ==
  ASSUME IInv, SoundOrders(orders'), \A c \in Cids : Settles(orders[c], orders'[c])
  PROVE  Lifecycle!Next
<1> DEFINE B == [c \in Cids |-> [status |-> orders[c].status, size |-> orders[c].size,
                                 filled |-> orders[c].filled]]
<1>1. \A c \in Cids : B[c] = View(orders[c]) /\ B'[c] = View(orders'[c])
  BY DEF View
<1>2. B' \in [Cids -> Lifecycle!Orders \cup {Lifecycle!NoOrder}]
  <2>1. \A c \in Cids : B'[c] \in Lifecycle!Orders \cup {Lifecycle!NoOrder}
    BY <1>1, ViewType DEF SoundOrders
  <2>2. B' = [c \in Cids |-> B'[c]]
    OBVIOUS
  <2>3. QED
    BY <2>1, <2>2
<1>3. \A c \in Cids : B'[c].filled = B[c].filled
  BY DEF Settles
<1>4. \A c \in Cids : \/ B'[c] = B[c]
                      \/ Lifecycle!Create(B[c], B'[c])
                      \/ Lifecycle!Advance(B[c], B'[c])
                      \/ Lifecycle!Fill(B[c], B'[c])
  BY <1>1 DEF Settles
<1>5. QED
  BY <1>2, <1>3, <1>4 DEF Lifecycle!Next

\* One order replaced by one it settles into.
LEMMA SettledReplace ==
  ASSUME IInv, IInv', NEW c \in Cids, NEW n, Replaced(orders, c, n, orders'),
         Settles(orders[c], n)
  PROVE  Lifecycle!Next
<1>1. SoundOrders(orders) /\ SoundOrders(orders')
  BY DEF IInv, SoundOrders
<1>2. orders'[c] = n /\ \A d \in Cids : d # c => orders'[d] = orders[d]
  BY <1>1 DEF SoundOrders, Replaced
<1>3. \A d \in Cids : Settles(orders[d], orders'[d])
  BY <1>2 DEF Settles
<1>4. QED
  BY <1>1, <1>3, SettledStep

\* create is a step of the order lifecycle.
LEMMA CreateRefines ==
  ASSUME IInv, IInv', NEW c \in Cids, NEW t \in Tokens, NEW side \in Sides,
         NEW price \in Prices, NEW size \in Sizes, Create(c, t, side, price, size)
  PROVE  Lifecycle!Next
<1>1. SoundOrder(orders[c])
  BY DEF IInv, SoundOrders
<1>2. CASE Known(c)
  <2> DEFINE n == [orders[c] EXCEPT !.reason = "IDEMPOTENT_REPLAY"]
  <2>1. Replaced(orders, c, n, orders')
    BY <1>2 DEF Create, Replaced
  <2>2. n.filled = orders[c].filled /\ n.size = orders[c].size /\ n.status = orders[c].status
    BY <1>1, ReplaySound DEF SameBooking
  <2> HIDE DEF n
  <2>3. Settles(orders[c], n)
    BY <1>1, <1>2, <2>2, AdvanceSettles DEF Known
  <2>4. QED
    BY <2>1, <2>3, SettledReplace
<1>3. CASE ~Known(c)
  <2> DEFINE n == NewOrder(t, side, price, size)
  <2>1. Replaced(orders, c, n, orders')
    BY <1>3 DEF Create, Replaced
  <2>2. View(orders[c]) = Lifecycle!NoOrder /\ orders[c].filled = 0
    BY <1>1, <1>3, ViewType DEF Known, SoundOrder
  <2>3. n.status = "CREATED" /\ n.filled = 0
    BY DEF NewOrder
  <2> HIDE DEF n
  <2>4. Settles(orders[c], n)
    BY <2>2, <2>3 DEF Settles, View, Lifecycle!Create
  <2>5. QED
    BY <2>1, <2>4, SettledReplace
<1>4. QED
  BY <1>2, <1>3

\* submit is a step of the order lifecycle.
LEMMA SubmitRefines ==
  ASSUME IInv, IInv', NEW c \in Cids, Submit(c)
  PROVE  Lifecycle!Next
<1>1. SoundOrder(orders[c]) /\ orders[c].status = "CREATED"
  BY DEF IInv, SoundOrders, Submit
<1>2. Replaced(orders, c, Acknowledged(orders[c]), orders')
  BY DEF Submit, Acknowledged, Replaced
<1>3. QED
  BY <1>1, <1>2, AcknowledgedSettles, SettledReplace

\* simulate_fill with nothing to fill is a step of the order lifecycle.
LEMMA SimulateNoFillRefines ==
  ASSUME IInv, IInv', NEW c \in Cids, SimulateNoFill(c)
  PROVE  Lifecycle!Next
<1>1. SoundOrder(orders[c]) /\ orders[c].status # "NONE"
  BY DEF IInv, SoundOrders, SimulateNoFill, Live, Known
<1>2. Replaced(orders, c, Acknowledged(orders[c]), orders')
  BY DEF SimulateNoFill, Replaced
<1>3. QED
  BY <1>1, <1>2, AcknowledgedSettles, SettledReplace

\* request_cancel is a step of the order lifecycle.
LEMMA RequestCancelRefines ==
  ASSUME IInv, IInv', NEW c \in Cids, NEW settle \in BOOLEAN, RequestCancel(c, settle)
  PROVE  Lifecycle!Next
<1>1. /\ SoundOrder(orders[c])
      /\ orders[c].status \notin Finished /\ orders[c].status # "NONE"
  BY DEF IInv, SoundOrders, RequestCancel, Live, Known
<1>2. Replaced(orders, c, Cancelled(orders[c], settle), orders')
  BY DEF RequestCancel, Replaced
<1>3. QED
  BY <1>1, <1>2, CancelledSettles, SettledReplace

\* reject is a step of the order lifecycle.
LEMMA RejectRefines ==
  ASSUME IInv, IInv', NEW c \in Cids, Reject(c)
  PROVE  Lifecycle!Next
<1> DEFINE n == [orders[c] EXCEPT !.status = "REJECTED", !.reason = "GIVEN"]
<1>1. SoundOrder(orders[c]) /\ orders[c].status \in {"CREATED", "SUBMITTED"}
  BY DEF IInv, SoundOrders, Reject
<1>2. Replaced(orders, c, n, orders')
  BY DEF Reject, IInv, SoundOrders, Replaced
<1>3. n.filled = orders[c].filled /\ n.size = orders[c].size /\ n.status = "REJECTED"
  BY <1>1, RejectedSound DEF SameBooking
<1> HIDE DEF n
<1>4. orders[c].status # "NONE"
  BY <1>1
<1>5. n.status \in Lifecycle!Reachable(orders[c].status) \ {"PARTIAL", "FILLED"}
  BY <1>1, <1>3, ReachableStatuses
<1>6. QED
  BY <1>1, <1>2, <1>3, <1>4, <1>5, AdvanceSettles, SettledReplace

\* cancel_open, which moves many orders at once, is a step of the order lifecycle.
LEMMA CancelOpenRefines ==
  ASSUME IInv, IInv', CancelOpen
  PROVE  Lifecycle!Next
<1>1. SoundOrders(orders) /\ SoundOrders(orders')
  BY DEF IInv, SoundOrders
<1>2. ASSUME NEW c \in Cids
      PROVE  Settles(orders[c], orders'[c])
  <2>1. SoundOrder(orders[c])
    BY <1>1 DEF SoundOrders
  <2>2. CASE orders[c].status \in Sweepable
    <3>1. orders'[c] = Cancelled(orders[c], TRUE)
      BY <2>2 DEF CancelOpen
    <3>2. orders[c].status \notin Finished /\ orders[c].status # "NONE"
      BY <2>2 DEF Sweepable, Finished
    <3>3. QED
      BY <2>1, <3>1, <3>2, CancelledSettles
  <2>3. CASE orders[c].status \notin Sweepable
    <3>1. orders'[c] = orders[c]
      BY <2>3 DEF CancelOpen
    <3>2. QED
      BY <3>1 DEF Settles
  <2>4. QED
    BY <2>2, <2>3
<1>3. QED
  BY <1>1, <1>2, SettledStep

\* A fill is the one step that fills, and it fills one order.
LEMMA SimulateFillRefines ==
  ASSUME IInv, IInv', NEW c \in Cids, NEW feePerShare \in FeesPerShare,
         SimulateFill(c, feePerShare)
  PROVE  Lifecycle!Next
<1> DEFINE o == orders[c]
           a == Acknowledged(o)
           B == [d \in Cids |-> [status |-> orders[d].status, size |-> orders[d].size,
                                 filled |-> orders[d].filled]]
<1>1. SoundOrders(orders) /\ SoundOrders(orders') /\ SoundOrder(o)
  BY DEF IInv, SoundOrders
<1>2. PICK k \in 1..Remaining(o) : orders' = [orders EXCEPT ![c] = Filled(a, k)]
  BY DEF SimulateFill
<1> DEFINE n == Filled(a, k)
<1>3. o.status \in {"CREATED", "SUBMITTED", "ACKNOWLEDGED", "PARTIAL", "CANCEL_REQUESTED"}
  BY <1>1, OrderTypeIs DEF SimulateFill, Live, Known, SoundOrder, OrderStatuses, Finished
<1>4. SoundOrder(a) /\ SameBooking(o, a) /\ a.size = o.size
  BY <1>1, AcknowledgedSound
<1>5. o.filled \in Nat /\ o.size \in Nat /\ k \in Nat /\ k > 0 /\ k \in 1..Remaining(a)
      /\ o.filled + k <= o.size
  <2>1. o.filled \in Nat /\ o.size \in Nat
    BY <1>1, OrderTypeIs DEF SoundOrder
  <2>2. QED
    BY <1>2, <1>4, <2>1 DEF Remaining, SameBooking
<1>6. orders'[c] = n /\ \A d \in Cids : d # c => orders'[d] = orders[d]
  BY <1>1, <1>2 DEF SoundOrders
<1> HIDE DEF o, a
<1>7. /\ n.filled = o.filled + k /\ n.size = o.size
      /\ n.status = IF o.filled + k = o.size THEN "FILLED" ELSE "PARTIAL"
  BY <1>4, <1>5, FilledSound DEF SameBooking
<1> HIDE DEF n
<1>8. n.status \in Lifecycle!Reachable(o.status)
  BY <1>3, <1>7, ReachableStatuses
<1>9. View(o) # Lifecycle!NoOrder
  BY <1>1, <1>3, ViewType
<1>10. Lifecycle!Fill(View(o), View(n))
  <2>1. /\ View(o).filled = o.filled /\ View(n).filled = n.filled
        /\ View(o).size = o.size /\ View(n).size = n.size
        /\ View(o).status = o.status /\ View(n).status = n.status
    BY DEF View
  <2>2. o.filled < n.filled /\ n.filled <= n.size
    BY <1>5, <1>7
  <2>3. n.status = IF n.filled = n.size THEN "FILLED" ELSE "PARTIAL"
    BY <1>7
  <2>4. QED
    BY <1>7, <1>8, <1>9, <2>1, <2>2, <2>3 DEF Lifecycle!Fill
<1>11. \A d \in Cids : B[d] = View(orders[d]) /\ B'[d] = View(orders'[d])
  BY DEF View
<1>12. B' \in [Cids -> Lifecycle!Orders \cup {Lifecycle!NoOrder}]
  <2>1. \A d \in Cids : B'[d] \in Lifecycle!Orders \cup {Lifecycle!NoOrder}
    BY <1>1, <1>11, ViewType DEF SoundOrders
  <2>2. B' = [d \in Cids |-> B'[d]]
    OBVIOUS
  <2>3. QED
    BY <2>1, <2>2
<1>13. \A d \in Cids : d # c => B'[d] = B[d]
  BY <1>6, <1>11
<1>14. Lifecycle!Fill(B[c], B'[c])
  BY <1>6, <1>10, <1>11 DEF o
<1> HIDE DEF B
<1>15. \A d \in Cids : \/ B'[d] = B[d]
                       \/ Lifecycle!Create(B[d], B'[d])
                       \/ Lifecycle!Advance(B[d], B'[d])
                       \/ Lifecycle!Fill(B[d], B'[d])
  BY <1>13, <1>14
<1>16. \A d, e \in Cids :
         (B'[d].filled # B[d].filled /\ B'[e].filled # B[e].filled) => d = e
  BY <1>13
<1>17. QED
  BY <1>12, <1>15, <1>16 DEF Lifecycle!Next, B

\* Every broker step is a step of the order lifecycle or a stutter.
LEMMA StepRefines ==
  IInv /\ IInv' /\ [Next]_vars
    => [Lifecycle!Next]_([c \in Cids |-> [status |-> orders[c].status, size |-> orders[c].size,
                                          filled |-> orders[c].filled]])
<1> DEFINE B == [c \in Cids |-> [status |-> orders[c].status, size |-> orders[c].size,
                                 filled |-> orders[c].filled]]
<1>1. SUFFICES ASSUME IInv, IInv', [Next]_vars PROVE Lifecycle!Next \/ B' = B
  OBVIOUS
<1>2. CASE \E c \in Cids, t \in Tokens, side \in Sides, price \in Prices, size \in Sizes :
             Create(c, t, side, price, size)
  BY <1>1, <1>2, CreateRefines
<1>3. CASE \E c \in Cids : Submit(c) \/ Reject(c) \/ SimulateNoFill(c)
  BY <1>1, <1>3, SubmitRefines, RejectRefines, SimulateNoFillRefines
<1>4. CASE \E c \in Cids, fee \in FeesPerShare : SimulateFill(c, fee)
  BY <1>1, <1>4, SimulateFillRefines
<1>5. CASE \E c \in Cids, settle \in BOOLEAN : RequestCancel(c, settle)
  BY <1>1, <1>5, RequestCancelRefines
<1>6. CASE CancelOpen
  BY <1>1, <1>6, CancelOpenRefines
<1>7. CASE UNCHANGED vars
  BY <1>7 DEF vars
<1>8. QED
  BY <1>1, <1>2, <1>3, <1>4, <1>5, <1>6, <1>7 DEF Next

\* A broker without orders is an empty order book.
LEMMA InitRefines == Init => Lifecycle!Init
BY DEF Init, Absent, Lifecycle!Init, Lifecycle!NoOrder

\* The broker implements the order lifecycle for any number of orders.
THEOREM Refinement == Spec => LifecycleSpec
BY InitIInv, NextIInv, InitRefines, StepRefines, PTL
   DEF Spec, LifecycleSpec, Lifecycle!Spec

-----------------------------------------------------------------------------
(* Terms and fill events *)

SameTerms(o, n) ==
  n.token = o.token /\ n.side = o.side /\ n.price = o.price /\ n.size = o.size

\* A replaced order that keeps its terms, or did not exist before, leaves all terms fixed.
LEMMA TermsOfReplaced ==
  ASSUME IInv, NEW c \in Cids, NEW n, Replaced(orders, c, n, orders'),
         orders[c].status # "NONE" => SameTerms(orders[c], n)
  PROVE  \A d \in Cids : Known(d) => SameTerms(orders[d], orders'[d])
<1>1. orders'[c] = n /\ \A d \in Cids : d # c => orders'[d] = orders[d]
  BY DEF IInv, SoundOrders, Replaced
<1>2. QED
  BY <1>1 DEF SameTerms, Known

\* No broker step changes the terms of an order that exists.
LEMMA TermsStep ==
  ASSUME IInv, Next
  PROVE  \A d \in Cids : Known(d) => SameTerms(orders[d], orders'[d])
<1>1. \A c \in Cids : SoundOrder(orders[c])
  BY DEF IInv, SoundOrders
<1>2. ASSUME NEW c \in Cids, NEW t \in Tokens, NEW side \in Sides, NEW price \in Prices,
             NEW size \in Sizes, Create(c, t, side, price, size)
      PROVE  \A d \in Cids : Known(d) => SameTerms(orders[d], orders'[d])
  <2>1. CASE Known(c)
    <3> DEFINE n == [orders[c] EXCEPT !.reason = "IDEMPOTENT_REPLAY"]
    <3>1. Replaced(orders, c, n, orders')
      BY <1>2, <2>1 DEF Create, Replaced
    <3>2. SameTerms(orders[c], n)
      BY <1>1, ReplaySound DEF SameBooking, SameTerms
    <3> HIDE DEF n
    <3>3. QED
      BY <3>1, <3>2, TermsOfReplaced
  <2>2. CASE ~Known(c)
    <3>1. Replaced(orders, c, NewOrder(t, side, price, size), orders')
      BY <1>2, <2>2 DEF Create, Replaced
    <3>2. QED
      BY <2>2, <3>1, TermsOfReplaced DEF Known
  <2>3. QED
    BY <2>1, <2>2
<1>3. ASSUME NEW c \in Cids, Submit(c) \/ SimulateNoFill(c)
      PROVE  \A d \in Cids : Known(d) => SameTerms(orders[d], orders'[d])
  <2>1. Replaced(orders, c, Acknowledged(orders[c]), orders')
    BY <1>3 DEF Submit, SimulateNoFill, Acknowledged, Replaced
  <2>2. SameTerms(orders[c], Acknowledged(orders[c]))
    BY <1>1, AcknowledgedSound DEF SameBooking, SameTerms
  <2>3. QED
    BY <2>1, <2>2, TermsOfReplaced
<1>4. ASSUME NEW c \in Cids, Reject(c)
      PROVE  \A d \in Cids : Known(d) => SameTerms(orders[d], orders'[d])
  <2> DEFINE n == [orders[c] EXCEPT !.status = "REJECTED", !.reason = "GIVEN"]
  <2>1. Replaced(orders, c, n, orders')
    BY <1>4 DEF Reject, IInv, SoundOrders, Replaced
  <2>2. SameTerms(orders[c], n)
    BY <1>1, <1>4, RejectedSound DEF SameBooking, SameTerms, Reject
  <2> HIDE DEF n
  <2>3. QED
    BY <2>1, <2>2, TermsOfReplaced
<1>5. ASSUME NEW c \in Cids, NEW settle \in BOOLEAN, RequestCancel(c, settle)
      PROVE  \A d \in Cids : Known(d) => SameTerms(orders[d], orders'[d])
  <2>1. Replaced(orders, c, Cancelled(orders[c], settle), orders')
    BY <1>5 DEF RequestCancel, Replaced
  <2>2. orders[c].status \notin Finished /\ orders[c].status # "NONE"
    BY <1>5 DEF RequestCancel, Live, Known
  <2>3. SameTerms(orders[c], Cancelled(orders[c], settle))
    BY <1>1, <2>2, CancelledSound DEF SameBooking, SameTerms
  <2>4. QED
    BY <2>1, <2>3, TermsOfReplaced
<1>6. ASSUME NEW c \in Cids, NEW fee \in FeesPerShare, SimulateFill(c, fee)
      PROVE  \A d \in Cids : Known(d) => SameTerms(orders[d], orders'[d])
  <2> DEFINE a == Acknowledged(orders[c])
  <2>1. PICK k \in 1..Remaining(orders[c]) : orders' = [orders EXCEPT ![c] = Filled(a, k)]
    BY <1>6 DEF SimulateFill
  <2>2. SoundOrder(a) /\ SameBooking(orders[c], a) /\ a.size = orders[c].size
    BY <1>1, AcknowledgedSound
  <2>3. k \in 1..Remaining(a)
    BY <2>1, <2>2 DEF Remaining, SameBooking
  <2> HIDE DEF a
  <2>4. SameTerms(orders[c], Filled(a, k))
    BY <2>2, <2>3, FilledSound DEF SameBooking, SameTerms
  <2>5. QED
    BY <2>1, <2>4, TermsOfReplaced DEF Replaced
<1>7. ASSUME CancelOpen
      PROVE  \A d \in Cids : Known(d) => SameTerms(orders[d], orders'[d])
  <2>1. TAKE d \in Cids
  <2>2. CASE orders[d].status \in Sweepable
    <3>1. orders'[d] = Cancelled(orders[d], TRUE)
      BY <1>7, <2>2 DEF CancelOpen
    <3>2. orders[d].status \notin Finished /\ orders[d].status # "NONE"
      BY <2>2 DEF Sweepable, Finished
    <3>3. QED
      BY <1>1, <3>1, <3>2, CancelledSound DEF SameBooking, SameTerms
  <2>3. CASE orders[d].status \notin Sweepable
    BY <1>7, <2>3 DEF CancelOpen, SameTerms
  <2>4. QED
    BY <2>2, <2>3
<1>8. QED
  BY <1>2, <1>3, <1>4, <1>5, <1>6, <1>7 DEF Next

\* A client order id keeps its terms for ever, however often it is created again.
THEOREM TermsCorrect == Spec => TermsFixed
<1>1. IInv /\ [Next]_vars =>
        [\A c \in Cids : Known(c) =>
           /\ orders'[c].token = orders[c].token
           /\ orders'[c].side = orders[c].side
           /\ orders'[c].price = orders[c].price
           /\ orders'[c].size = orders[c].size]_vars
  BY TermsStep DEF SameTerms
<1>2. QED
  BY <1>1, InitIInv, NextIInv, PTL DEF Spec, TermsFixed

\* The last fill event of a fill names the order, the lots and the profit of it.
LEMMA FillEventStep ==
  ASSUME IInv, NEW c \in Cids, NEW feePerShare \in FeesPerShare, SimulateFill(c, feePerShare)
  PROVE  /\ lastFill'.cid = c
         /\ lastFill'.size = orders'[c].filled - orders[c].filled
         /\ lastFill'.realized = ledger'.realized - ledger.realized
<1> DEFINE o == orders[c]
           a == Acknowledged(o)
<1>1. PICK k \in 1..Remaining(o) :
        orders' = [orders EXCEPT ![c] = Filled(a, k)] /\ lastFill' = FillEvent(c, k)
  BY DEF SimulateFill
<1>2. SoundOrder(o) /\ orders'[c] = Filled(a, k)
  BY <1>1 DEF IInv, SoundOrders
<1>3. SoundOrder(a) /\ SameBooking(o, a) /\ a.size = o.size
  BY <1>2, AcknowledgedSound
<1>4. o.filled \in Nat /\ k \in Int /\ k \in 1..Remaining(a)
  BY <1>1, <1>2, <1>3, OrderTypeIs DEF SoundOrder, Remaining, SameBooking
<1> HIDE DEF a, o
<1>5. Filled(a, k).filled = o.filled + k
  BY <1>3, <1>4, FilledSound DEF SameBooking
<1>6. orders'[c].filled - o.filled = k
  BY <1>2, <1>4, <1>5
<1>7. QED
  BY <1>1, <1>6 DEF FillEvent, o

\* A broker step that moves the ledger is a simulate_fill.
LEMMA OnlyFillsMoveLedger ==
  ASSUME Next, ledger' # ledger
  PROVE  \E c \in Cids, fee \in FeesPerShare : SimulateFill(c, fee)
BY DEF Next, Create, Submit, Reject, SimulateNoFill, RequestCancel, CancelOpen

\* Whenever the ledger moves, last_fill_event tells the truth about it.
THEOREM FillEventCorrect == Spec => LastFillTruthful
<1>1. IInv /\ [Next]_vars =>
        [ledger' # ledger =>
           \E c \in Cids : /\ lastFill'.cid = c
                           /\ lastFill'.size = orders'[c].filled - orders[c].filled
                           /\ lastFill'.realized = ledger'.realized - ledger.realized]_vars
  <2>1. SUFFICES ASSUME IInv, Next, ledger' # ledger
                 PROVE  \E c \in Cids :
                          /\ lastFill'.cid = c
                          /\ lastFill'.size = orders'[c].filled - orders[c].filled
                          /\ lastFill'.realized = ledger'.realized - ledger.realized
    BY DEF vars
  <2>2. PICK c \in Cids, fee \in FeesPerShare : SimulateFill(c, fee)
    BY <2>1, OnlyFillsMoveLedger
  <2>3. QED
    BY <2>1, <2>2, FillEventStep
<1>2. QED
  BY <1>1, InitIInv, NextIInv, PTL DEF Spec, LastFillTruthful

=============================================================================
