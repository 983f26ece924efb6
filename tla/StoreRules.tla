----------------------------- MODULE StoreRules -----------------------------
\* SqliteStore (storage/sqlite_store.py): the tables, each save_* being one
\* insert and its own commit.  A row carries the process run that wrote it,
\* which the tables do not have: they know a row by its session id, and every
\* run of the default configuration has the same one.
EXTENDS LedgerRules, SequencesExt

CONSTANTS Lots,     \* what a paper order may fill at once
          Prices    \* prices of fills and marks

NoSnapshot == [run |-> 0, ledger |-> FreshLedger, events |-> 0, beside |-> 0]

EmptyTables ==
    [signals |-> 0, features |-> 0, risk |-> <<>>, orders |-> <<>>,
     trades |-> <<>>, events |-> <<>>, snapshot |-> NoSnapshot]

FillRow(run, cid, token, lots, price) ==
    [run |-> run, kind |-> "FILL", cid |-> cid, token |-> token, side |-> "BUY",
     size |-> lots, price |-> price]

FlattenRow(run, token, side, lots, price) ==
    [run |-> run, kind |-> "FLATTEN", cid |-> 0, token |-> token, side |-> side,
     size |-> lots, price |-> price]

\* a table of which only the number of rows matters here
InsertOne(db, table) == [db EXCEPT ![table] = @ + 1]

Insert(db, table, row) == [db EXCEPT ![table] = Append(@, row)]

\* the rows at some places of a table, in the order they were written
Select(rows, places) ==
    LET upTo[n \in 0..Len(rows)] ==
          IF n = 0 THEN <<>>
          ELSE IF n \in places THEN Append(upTo[n - 1], rows[n]) ELSE upTo[n - 1]
    IN  upTo[Len(rows)]

\* INSERT OR REPLACE by the client order id
SaveOrder(db, order) ==
    [db EXCEPT !.orders = Append(Select(@, {i \in DOMAIN @ : @[i].cid # order.cid}), order)]

\* INSERT OR REPLACE by the session id: there is one row, of the last run that saved
SaveSnapshot(db, run, ledger, events, beside) ==
    [db EXCEPT !.snapshot = [run |-> run, ledger |-> ledger, events |-> events, beside |-> beside]]

RowsOf(rows, run) == Select(rows, {i \in DOMAIN rows : rows[i].run = run})

FilledOrders(db, run) ==
    Select(db.orders, {i \in DOMAIN db.orders : db.orders[i].run = run /\ db.orders[i].filled > 0})

FillEvents(db, run) ==
    Select(db.events, {i \in DOMAIN db.events : db.events[i].run = run /\ db.events[i].kind = "FILL"})

Allowed(db, run) ==
    Select(db.risk, {i \in DOMAIN db.risk : db.risk[i].run = run /\ db.risk[i].allowed})

CidsOf(rows) == [i \in DOMAIN rows |-> rows[i].cid]

\* replay_events over the first n stored rows; there are no MARK rows
ReplayedTo(rows, n) ==
    LET book[k \in 0..n] ==
          IF k = 0 THEN FreshLedger
          ELSE ApplyFill(book[k - 1], rows[k].token, rows[k].side, rows[k].size, rows[k].price, 0)
    IN  book[n]

Replayed(rows) == ReplayedTo(rows, Len(rows))

\* the same lots, and the same cash and realized P&L but for what round trips beside the
\* rows made; marks and the peak are not stored
SameBookBut(a, b, beside) ==
    /\ b.cash = a.cash + beside /\ b.realized = a.realized + beside
    /\ \A t \in Tokens : a.pos[t].qty = b.pos[t].qty /\ a.pos[t].cost = b.pos[t].cost
=============================================================================
