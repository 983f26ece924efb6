---------------------------- MODULE PaperBroker ----------------------------
(***************************************************************************)
(* PaperBroker of execution/paper.py on top of the order state machine of  *)
(* execution/orders.py: the order table, the ledger it books fills in and  *)
(* the last fill event.  One action per broker method; a call that raises  *)
(* IllegalTransition or KeyError changes nothing and is a disabled action. *)
(* SUBMITTED never outlives a call and nothing in the repository expires   *)
(* an order.                                                               *)
(***************************************************************************)
EXTENDS LedgerRules, OrderRules

CONSTANTS MaxOrders,      \* bound on the client order ids
          Prices,         \* limit prices
          Sizes,          \* order sizes
          FeesPerShare    \* fees per share callers pass; a negative one counts as 0

ASSUME BrokerAssumption ==
  /\ MaxOrders \in Nat
  /\ Prices \subseteq Nat
  /\ Sizes \subseteq Nat \ {0}
  /\ FeesPerShare \subseteq Int

VARIABLES orders,     \* PaperBroker.orders, by client order id
          ledger,     \* PaperBroker.ledger
          lastFill    \* PaperBroker.last_fill_event

vars == <<orders, ledger, lastFill>>

Cids == 1..MaxOrders

NoFill == [cid |-> 0, size |-> 0, realized |-> 0]

Lifecycle == INSTANCE OrderLifecycle
  WITH book <- [c \in Cids |-> [status |-> orders[c].status, size |-> orders[c].size,
                                filled |-> orders[c].filled]]

Known(c) == orders[c].status # "NONE"

\* mutant: only a FILLED order refuses further calls
LiveUnlessFilled(c) == Known(c) /\ orders[c].status # "FILLED"

Live(c) == Known(c) /\ orders[c].status \notin Finished

-----------------------------------------------------------------------------
(* PaperBroker methods *)

Init ==
  /\ orders = [c \in Cids |-> Absent]
  /\ ledger = FreshLedger
  /\ lastFill = NoFill

\* mutant: the client order id is not looked up first
CreateOverExisting(c, t, side, price, size) ==
  /\ orders' = [orders EXCEPT ![c] =
       NewOrder(t, side, price, size)]
  /\ UNCHANGED <<ledger, lastFill>>

\* create(): a known id returns the existing order, marked as a replay, whatever
\* terms the caller passes the second time
Create(c, t, side, price, size) ==
  /\ orders' = [orders EXCEPT ![c] =
       IF Known(c) THEN [@ EXCEPT !.reason = "IDEMPOTENT_REPLAY"]
       ELSE NewOrder(t, side, price, size)]
  /\ UNCHANGED <<ledger, lastFill>>

\* submit(): CREATED -> SUBMITTED -> ACKNOWLEDGED; raises from any other status
Submit(c) ==
  /\ orders[c].status = "CREATED"
  /\ orders' = [orders EXCEPT ![c].status = "ACKNOWLEDGED"]
  /\ UNCHANGED <<ledger, lastFill>>

\* simulate_fill() with a fill ratio of zero or less: acknowledges, fills nothing
SimulateNoFill(c) ==
  /\ Live(c)
  /\ orders' = [orders EXCEPT ![c] = Acknowledged(@)]
  /\ lastFill' = NoFill
  /\ UNCHANGED ledger

\* mutant: the ledger is booked with everything filled so far, not with this fill
BookingOfTotal(o, k, feePerShare) ==
  ApplyFill(ledger, o.token, o.side, o.filled + k, o.price, k * Greater(0, feePerShare))

\* the ledger after booking k lots of order o
Booking(o, k, feePerShare) ==
  ApplyFill(ledger, o.token, o.side, k, o.price, k * Greater(0, feePerShare))

\* mutant: the fill event reports the order's running total
FillEventOfTotal(c, k) ==
  [cid |-> c, size |-> orders[c].filled + k, realized |-> ledger'.realized - ledger.realized]

FillEvent(c, k) ==
  [cid |-> c, size |-> k, realized |-> ledger'.realized - ledger.realized]

\* simulate_fill() with a positive ratio: k of the remaining lots, booked in the
\* ledger.  CANCEL_REQUESTED is live: a fill that races the cancel still counts.
SimulateFill(c, feePerShare) ==
  /\ Live(c)
  /\ \E k \in 1..Remaining(orders[c]) :
       /\ orders' = [orders EXCEPT ![c] = Filled(Acknowledged(@), k)]
       /\ ledger' = Booking(orders[c], k, feePerShare)
       /\ lastFill' = FillEvent(c, k)

\* request_cancel()
RequestCancel(c, settle) ==
  /\ Live(c)
  /\ orders' = [orders EXCEPT ![c] = Cancelled(@, settle)]
  /\ UNCHANGED <<ledger, lastFill>>

\* reject(): only before the order is acknowledged
Reject(c) ==
  /\ orders[c].status \in {"CREATED", "SUBMITTED"}
  /\ orders' = [orders EXCEPT ![c].status = "REJECTED", ![c].reason = "GIVEN"]
  /\ UNCHANGED <<ledger, lastFill>>

\* cancel_open(): a CANCEL_REQUESTED order is not swept, it waits for its own settle
CancelOpen ==
  /\ orders' = [c \in Cids |-> IF orders[c].status \in Sweepable THEN Cancelled(orders[c], TRUE)
                               ELSE orders[c]]
  /\ UNCHANGED <<ledger, lastFill>>

Next ==
  \/ \E c \in Cids, t \in Tokens, side \in Sides, price \in Prices, size \in Sizes :
       Create(c, t, side, price, size)
  \/ \E c \in Cids : Submit(c) \/ Reject(c) \/ SimulateNoFill(c)
  \/ \E c \in Cids, fee \in FeesPerShare : SimulateFill(c, fee)
  \/ \E c \in Cids, settle \in BOOLEAN : RequestCancel(c, settle)
  \/ CancelOpen

Spec == Init /\ [][Next]_vars

-----------------------------------------------------------------------------
(* Properties *)

OrderType ==
  [status : Lifecycle!Statuses \cup {"NONE"}, token : Tokens, side : Sides, price : Nat,
   size : Nat, filled : Nat, reason : {"NONE", "GIVEN", "IDEMPOTENT_REPLAY"}]

\* Orders, ledger and last fill event are well formed; an order that was created
\* has at least one lot and is never filled beyond its size.
TypeOK ==
  /\ orders \in [Cids -> OrderType]
  /\ ledger \in LedgerType
  /\ lastFill \in [cid : Nat, size : Nat, realized : Int]
  /\ \A c \in Cids : orders[c].filled <= orders[c].size /\ (Known(c) => orders[c].size > 0)

\* The status of an order tells how much of it is filled, over every interleaving
\* of partial fills, unsettled cancels, late fills and replays of create(): FILLED
\* exactly when complete, PARTIAL strictly in between, nothing filled before the
\* first fill or after a rejection, and a cancel never hides a complete fill.
StatusTellsFilled ==
  \A c \in Cids :
    LET o == orders[c]
    IN  /\ o.status = "FILLED" => o.filled = o.size
        /\ o.status = "PARTIAL" => o.filled \in 1..(o.size - 1)
        /\ o.status \in {"CANCEL_REQUESTED", "CANCELLED"} => o.filled < o.size
        /\ o.status \in {"NONE", "CREATED", "SUBMITTED", "ACKNOWLEDGED", "REJECTED", "EXPIRED"}
             => o.filled = 0

\* The ledger holds exactly what the order table says was filled: the lots of every
\* token are the signed filled sizes of its orders, and cash is what those lots
\* cost, fees included.  No fill is booked twice, lost by a cancel or a replayed
\* create, or booked for an order the table does not have.
FillsBooked ==
  /\ \A t \in Tokens :
       ledger.pos[t].qty =
         SumUpTo([c \in Cids |-> IF orders[c].token = t
                                 THEN Signed(orders[c].side, orders[c].filled) ELSE 0], MaxOrders)
  /\ ledger.cash = StartingCash - ledger.fees
       - SumUpTo([c \in Cids |-> Signed(orders[c].side, orders[c].filled) * orders[c].price],
                 MaxOrders)

\* The broker implements the order lifecycle: however its methods are called, an
\* order only moves along LEGAL_TRANSITIONS, only fills forward, and is final once
\* FILLED, CANCELLED or REJECTED.
LifecycleSpec == Lifecycle!Spec

\* "idempotent create": a client order id stands for one set of terms for ever; a
\* second create() with other terms can not change what a later fill books.
TermsFixed ==
  [][\A c \in Cids : Known(c) =>
       /\ orders'[c].token = orders[c].token
       /\ orders'[c].side = orders[c].side
       /\ orders'[c].price = orders[c].price
       /\ orders'[c].size = orders[c].size]_vars

\* last_fill_event is what the pipeline books as the trade and its P&L: whenever the
\* ledger moves it names the order that was filled, by how much, and the change of
\* realized P&L, also when a fill follows earlier partial fills of the same order.
LastFillTruthful ==
  [][ledger' # ledger =>
       \E c \in Cids : /\ lastFill'.cid = c
                       /\ lastFill'.size = orders'[c].filled - orders[c].filled
                       /\ lastFill'.realized = ledger'.realized - ledger.realized]_vars

=============================================================================
