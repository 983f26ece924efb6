----------------------------- MODULE ReplayRules ----------------------------
\* hotflow/backtest/events.py, fills.py, splits.py and metrics.py: how the rows
\* of a recorded file become the events of a replay, what an order is filled
\* with, and what a report says of the trades.  Prices are in mills, sizes in
\* hundredths of a share, so that money is in 0.00001 of a dollar; times are in
\* milliseconds.
EXTENDS PrefixSums, Sequences, FiniteSets, SequencesExt

CONSTANTS
    NULL,             \* Python's None
    Unreadable,       \* a timestamp that cannot be parsed
    Latency,          \* latency_ms
    TakerDelay,       \* taker_delay_ms
    QueuePct,         \* queue_penalty
    PartialPct,       \* trading.paper_fill_ratio
    RejectOnGap,      \* reject_on_gap
    RefuseCandleOnly, \* refuse_candle_only
    TrainMs, TestMs, StepMs  \* walk_forward; no windows when one of them is 0

ASSUME ReplayAssumption ==
    /\ Latency \in Nat /\ TakerDelay \in Nat
    /\ QueuePct \in 0..100 /\ PartialPct \in 0..100
    /\ {RejectOnGap, RefuseCandleOnly} \subseteq BOOLEAN
    /\ {TrainMs, TestMs, StepMs} \subseteq Nat

StateKinds == {"book", "trade", "mid", "twap", "sports_state", "weather_forecast", "esports_state",
               "gap", "decision", "resolve", "candle"}

-----------------------------------------------------------------------------
\* Rows of a file: NULL for what is not an object, else [ts, kind, payload].  An
\* event also has the place its row had in the file.
Event(row, index) == [ts |-> row.ts, kind |-> row.kind, payload |-> row.payload, seq |-> index]

\* FixtureEventSource: one bad row and the file is not read; the others are put
\* in the order of their time, then of their place.
Raises(row) == row # NULL /\ (row.ts \in {NULL, Unreadable} \/ row.kind \notin StateKinds)

Earlier(a, b) == a.ts < b.ts \/ (a.ts = b.ts /\ a.seq < b.seq)

\* mutant: the events are replayed in the order of the file
InFileOrder(sorted, event) == Append(sorted, event)

\* An event goes between the sorted ones that are earlier and the others.
Inserted(sorted, event) ==
    LET place == CHOOSE k \in 0..Len(sorted) : \A i \in DOMAIN sorted : Earlier(sorted[i], event) <=> i <= k
    IN SubSeq(sorted, 1, place) \o <<event>> \o SubSeq(sorted, place + 1, Len(sorted))

ReadRow(sorted, row, index) == IF row = NULL THEN sorted ELSE Inserted(sorted, Event(row, index))

FileEvents(rows) ==
    LET upTo[n \in 0..Len(rows)] == IF n = 0 THEN <<>> ELSE ReadRow(upTo[n - 1], rows[n], n)
    IN upTo[Len(rows)]

\* sanitize_event_rows.  A repetition is told by time, kind and payload, also
\* that of a row that came too late; what cannot be parsed still raises.
Corrupt(row) == row = NULL \/ row.ts = NULL \/ row.kind \notin StateKinds

Fingerprint(row) == <<row.ts, row.kind, row.payload>>
Late(row, accepted) == accepted # <<>> /\ row.ts < accepted[Len(accepted)].ts

Sanitize(state, row, index) ==
    LET Reject(reason) == [state EXCEPT !.rejected = Append(@, <<index, reason>>)]
        known == state.seen \cup {Fingerprint(row)}
    IN CASE Corrupt(row) -> Reject("EVENT_CORRUPT")
         [] ~Corrupt(row) /\ Fingerprint(row) \in state.seen -> Reject("EVENT_DUPLICATE")
         [] ~Corrupt(row) /\ Fingerprint(row) \notin state.seen /\ Late(row, state.accepted) ->
              [Reject("EVENT_OUT_OF_ORDER") EXCEPT !.seen = known]
         [] OTHER -> [state EXCEPT !.seen = known, !.accepted = Append(@, Event(row, index))]

Sanitized(rows) ==
    LET upTo[n \in 0..Len(rows)] ==
          IF n = 0 THEN [accepted |-> <<>>, rejected |-> <<>>, seen |-> {}]
          ELSE Sanitize(upTo[n - 1], rows[n], n)
    IN upTo[Len(rows)]

UnreadableRow(rows) == \E i \in DOMAIN rows : rows[i] # NULL /\ rows[i].ts = Unreadable

KindsIn(events)    == {events[i].kind : i \in DOMAIN events}
CandleOnly(events) == events # <<>> /\ KindsIn(events) \subseteq {"candle", "mid", "resolve", "decision"}

\* A level without its two numbers is left out.
BookLevels(side) ==
    LET upTo[n \in 0..Len(side)] ==
          IF n = 0 THEN <<>>
          ELSE IF side[n] = NULL THEN upTo[n - 1] ELSE Append(upTo[n - 1], side[n])
    IN upTo[Len(side)]

OrderBook(payload) == [bids |-> BookLevels(payload.bids), asks |-> BookLevels(payload.asks)]

\* dated_fee_schedule, and the market a document replays: its own fees before
\* those of the document, the demo's when it has neither.
DatedFees(raw) == IF raw = NULL THEN NULL ELSE [enabled |-> raw.enabled, rate |-> raw.rate, words |-> raw.words]

MarketFees(document) ==
    LET given == DatedFees(IF document.marketFees # NULL THEN document.marketFees ELSE document.fees)
    IN IF given = NULL THEN [enabled |-> TRUE, rate |-> 4, words |-> {"demo"}] ELSE given

FeesKnown(fees) == fees.enabled # NULL

\* The words are looked for in the name of the source and in the whole document.
FeesMarked(fees, document) == (fees.words \cup document.words) \cap {"as_of", "dated", "fixture"} # {}

-----------------------------------------------------------------------------
\* What an order is filled with (fills.py).  Orders of the pipeline buy.
FillDelay(style) == Latency + IF style = "TAKER" THEN TakerDelay ELSE 0

TouchBid(book) == IF book.bids = <<>> THEN NULL ELSE book.bids[1].price
TouchAsk(book) == IF book.asks = <<>> THEN NULL ELSE book.asks[1].price

\* The book of demo_market, the market of a document that describes no other.
DemoBook ==
    LET Level(price, shares) == [price |-> price, size |-> 100 * shares]
    IN [bids |-> <<Level(400, 90), Level(380, 100)>>, asks |-> <<Level(420, 80), Level(440, 120)>>]

\* Twice the mid, NULL when a side is empty.
TwiceMid(book) ==
    IF book = NULL THEN NULL
    ELSE IF book.bids = <<>> \/ book.asks = <<>> THEN NULL
    ELSE book.bids[1].price + book.asks[1].price

TakeLevel(walk, level, target) ==
    LET take == Lesser(target - walk.size, level.size)
    IN [size |-> walk.size + take, cost |-> walk.cost + take * level.price]

WalkFill(levels, target) ==
    LET upTo[n \in 0..Len(levels)] ==
          IF n = 0 THEN [size |-> 0, cost |-> 0] ELSE TakeLevel(upTo[n - 1], levels[n], target)
    IN upTo[Len(levels)]

\* rate * p * (1 - p) a share, p the average price, rounded to 0.00001
FeeOf(walk, fees) ==
    LET price == walk.cost \div walk.size
        share == IF fees.enabled = FALSE \/ price <= 0 \/ price >= 1000 THEN 0
                 ELSE (fees.rate * price * (1000 - price) + 500) \div 1000
    IN (share * walk.size) \div 100

Unfilled(style, reason) ==
    [filled |-> FALSE, reason |-> reason, style |-> style, size |-> 0, cost |-> 0, fee |-> 0, slippage |-> 0]
Filled(style, walk, fee, slippage) ==
    [filled |-> TRUE, reason |-> "OK", style |-> style, size |-> walk.size, cost |-> walk.cost,
     fee |-> fee, slippage |-> slippage]

\* A maker joins the bid, for a share of what the best ask shows, when the draw
\* from the seed of the order is lucky; it pays no fee.
MakerFill(shares, book, lucky) ==
    LET size == (Lesser(shares, book.asks[1].size) * (100 - QueuePct) * PartialPct) \div 10000
    IN CASE ~lucky -> Unfilled("MAKER", "ORDER_REJECTED")
         [] lucky /\ TouchBid(book) = NULL -> Unfilled("MAKER", "NO_BOOK")
         [] lucky /\ TouchBid(book) # NULL /\ size = 0 -> Unfilled("MAKER", "ORDER_REJECTED")
         [] OTHER -> Filled("MAKER", [size |-> size, cost |-> size * TouchBid(book)], 0, 0)

\* A taker walks the asks for the part of its shares that is filled.
TakerFill(shares, book, fees) ==
    LET walk == WalkFill(book.asks, (shares * PartialPct) \div 100)
    IN CASE walk.size = 0 -> Unfilled("TAKER", "ORDER_REJECTED")
         [] walk.size > 0 /\ fees.enabled # FALSE /\ fees.rate = NULL -> Unfilled("TAKER", "UNKNOWN_FEES")
         [] OTHER -> Filled("TAKER", walk, FeeOf(walk, fees),
                            Greater(0, (100 * walk.cost) \div walk.size - 100 * TouchAsk(book)))

SimulateExecution(style, shares, book, gap, fees, lucky) ==
    CASE gap /\ RejectOnGap -> Unfilled(style, "DATA_GAP")
      [] ~(gap /\ RejectOnGap) /\ book = NULL -> Unfilled(style, "NO_BOOK")
      [] OTHER -> IF book.asks = <<>> \/ shares <= 0 THEN Unfilled(style, "NO_BOOK")
                  ELSE IF style = "MAKER" THEN MakerFill(shares, book, lucky)
                  ELSE TakerFill(shares, book, fees)

-----------------------------------------------------------------------------
\* Where a time falls (splits.py), and the windows of a walk forward.
AssignSplit(ts, split) ==
    LET trained == split.trainEnd # NULL
        Before(limit) == limit # NULL /\ ts < limit
    IN CASE split.oosStart # NULL /\ ~Before(split.oosStart) -> "oos"
         [] OTHER -> IF trained /\ ~Before(split.trainEnd) /\ (Before(split.validationEnd) \/ Before(split.oosStart))
                     THEN "validation" ELSE "train"

WalkForward(start, end) ==
    LET span  == TrainMs + TestMs
        count == IF end - start < span THEN 0 ELSE (end - start - span) \div StepMs + 1
        From(i) == start + (i - 1) * StepMs
    IN IF 0 \in {TrainMs, TestMs, StepMs} THEN <<>>
       ELSE [i \in 1..count |-> [train |-> From(i), test |-> From(i) + TrainMs, end |-> From(i) + span]]

-----------------------------------------------------------------------------
\* What a report says (metrics.py).  A quotient is a pair.
TotalOf(values) == FoldLeft(LAMBDA sum, v : sum + v, 0, values)
MeanOf(values)  == IF values = <<>> THEN <<0, 1>> ELSE <<TotalOf(values), Len(values)>>
Wins(values)    == SelectSeq(values, LAMBDA v : v > 0)
Losses(values)  == SelectSeq(values, LAMBDA v : v < 0)

\* In basis points of the peak before it.
MaxDrawdown(equity) ==
    LET Step(seen, value) ==
          LET peak == Greater(seen.peak, value)
              fall == IF peak >= 10000 THEN (peak - value) \div (peak \div 10000) ELSE 0
          IN [peak |-> peak, worst |-> Greater(seen.worst, fall)]
    IN FoldLeft(Step, [peak |-> IF equity = <<>> THEN 0 ELSE equity[1], worst |-> 0], equity).worst

\* NULL stands for an infinite quotient.
ProfitFactor(values) ==
    LET won == TotalOf(Wins(values))  lost == -TotalOf(Losses(values))
    IN IF lost = 0 THEN (IF won > 0 THEN NULL ELSE <<0, 1>>) ELSE <<won, lost>>

Summary(trades, equity, fees, slippage) ==
    LET values == [i \in DOMAIN trades |-> IF trades[i].pnl = NULL THEN 0 ELSE trades[i].pnl]
    IN [expectancy |-> MeanOf(values), drawdown |-> MaxDrawdown(equity), fees |-> fees, slippage |-> slippage,
        count |-> Len(trades), winRate |-> <<Len(Wins(values)), Greater(1, Len(values))>>,
        avgWin |-> MeanOf(Wins(values)), avgLoss |-> MeanOf(Losses(values)), factor |-> ProfitFactor(values),
        total |-> TotalOf(values), tail |-> FoldLeft(Lesser, IF values = <<>> THEN 0 ELSE values[1], values)]

=============================================================================
