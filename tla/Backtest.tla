------------------------------ MODULE Backtest ------------------------------
\* EventDrivenBacktester.run (backtest/engine.py): a recorded document replayed
\* event by event.  What the pipeline answers to a decision is any answer it may
\* give (Evaluation and PaperSession model it); the two risk limits that depend
\* on what the replay did before are kept.  The average entry price times the
\* position is kept as the cost of the position, equity is that of the start
\* plus what was made, and a trade's price is its cost over its size.
EXTENDS RecorderRules

CONSTANTS
    Documents,     \* what may be replayed: [rows, fees, marketFees, words, split, book]
    Intents,       \* orders the pipeline may want: [style, shares]
    Start,         \* paper_starting_cash
    MaxMarket,     \* risk.max_market_exposure
    Cooldown       \* risk.cooldown_ms

\* Prices, sizes, rates and times of a document are numbers, and not negative;
\* what is not there is none of them.
Levels == [price : Nat, size : Nat]
Books == [bids : Seq(Levels), asks : Seq(Levels)]

Wellformed(row) ==
    /\ row.ts \in Nat \cup {NULL, Unreadable}
    /\ row.kind = "book" => \A side \in {"bids", "asks"} :
         \E levels \in {row.payload[side]} :
            levels \in Seq(ToSet(levels)) /\ \A i \in DOMAIN levels : levels[i] = NULL \/ levels[i] \in Levels
    /\ row.kind = "resolve" => row.payload.price \in Int

ASSUME BacktestAssumption ==
    /\ NULL \notin Int /\ NULL \notin Books
    /\ Start \in Int
    /\ \A intent \in Intents : intent.style \in {"MAKER", "TAKER"} /\ intent.shares \in Nat
    /\ \A d \in Documents :
         /\ d.rows \in Seq(ToSet(d.rows)) /\ \A i \in DOMAIN d.rows : d.rows[i] = NULL \/ Wellformed(d.rows[i])
         /\ \A fees \in {d.fees, d.marketFees} : fees = NULL \/ fees.rate \in Nat \cup {NULL}
         /\ d.book \in Books \cup {NULL}

VARIABLES
    document, clean, \* the document, and whether its rows were sanitized first
    phase,     \* "loading", "replaying", "done", "refused" or "failed"
    events, at, \* the stream and the next place in it
    book, gap, lastTrade, \* the market as the last event left it
    sources,   \* the last row of each kind that the fixtures of the pipeline hold
    micro,     \* how many book and trade events the pipeline is shown
    decisions, trades, skips, \* of the report
    position, cost, realized, fees, slippage, equity,
    exposure, lastOrder, \* of the risk engine
    report

accountVars == <<position, cost, realized, fees, slippage, equity>>
marketVars  == <<book, gap, lastTrade, sources, micro>>
riskVars    == <<exposure, lastOrder>>
inputVars   == <<document, clean, phase, events>>
backtestVars == <<inputVars, at, marketVars, decisions, trades, skips, accountVars, riskVars, report>>

-----------------------------------------------------------------------------
SourceKinds == {"twap", "weather_forecast", "sports_state", "esports_state"}

NoSkips == [reason \in {} |-> 0]
Counted(counts, reason) == [r \in DOMAIN counts \cup {reason} |->
                              (IF r \in DOMAIN counts THEN counts[r] ELSE 0) + (IF r = reason THEN 1 ELSE 0)]

Init ==
    /\ document \in Documents /\ clean \in BOOLEAN
    /\ phase = "loading" /\ events = <<>> /\ at = 1
    /\ book = NULL /\ gap = FALSE /\ lastTrade = NULL
    /\ sources = [kind \in SourceKinds |-> NULL] /\ micro = 0
    /\ decisions = <<>> /\ trades = <<>> /\ skips = NoSkips
    /\ position = 0 /\ cost = 0 /\ realized = 0 /\ fees = 0 /\ slippage = 0 /\ equity = <<Start>>
    /\ exposure = 0 /\ lastOrder = NULL
    /\ report = NULL

\* The rows become events, of which the replay refuses a stream without books
\* and a market whose fees are unknown (which raises) or not marked as dated.
\* The market is a template: it comes with a book, which no event brought.
Refusal(stream) ==
    CASE RefuseCandleOnly /\ CandleOnly(stream) -> "CANDLE_ONLY_REFUSED"
      [] ~(RefuseCandleOnly /\ CandleOnly(stream)) /\ ~FeesMarked(MarketFees(document), document) -> "UNKNOWN_FEES"
      [] OTHER -> NULL

Raised == IF clean THEN UnreadableRow(document.rows)
          ELSE \E i \in DOMAIN document.rows : Raises(document.rows[i])

Refuse ==
    /\ phase = "loading" /\ Raised
    /\ phase' = "failed"
    /\ UNCHANGED <<document, clean, events, at, marketVars, decisions, trades, skips, accountVars, riskVars, report>>

\* The rows are sanitized or not, as a caller of sanitize_event_rows would have them; the
\* program's own replays never are (failure/scenarios.py:202 only counts what is dropped).
Load ==
    /\ phase = "loading" /\ ~Raised
    /\ \E stream \in {IF clean THEN Sanitized(document.rows).accepted ELSE FileEvents(document.rows)} :
         /\ events' = stream
         /\ LET unknown == ~FeesKnown(MarketFees(document))  reason == Refusal(stream)
                candles == reason = "CANDLE_ONLY_REFUSED"
            IN /\ phase' = IF unknown /\ ~candles THEN "failed" ELSE IF reason # NULL THEN "refused" ELSE "replaying"
               /\ skips' = IF phase' = "refused" THEN Counted(skips, reason) ELSE skips
               /\ report' = IF phase' = "refused" THEN Summary(<<>>, equity, 0, 0) ELSE NULL
    /\ book' = document.book
    /\ UNCHANGED <<document, clean, at, gap, lastTrade, sources, micro, decisions, trades, accountVars, riskVars>>

-----------------------------------------------------------------------------
\* The event at hand is applied, whatever its kind, and the loop goes on.
Now == events[at]
Takes(kinds) == phase = "replaying" /\ at <= Len(events) /\ Now.kind \in kinds /\ at' = at + 1

OnBook ==
    /\ Takes({"book"})
    /\ book' = OrderBook(Now.payload) /\ gap' = FALSE /\ micro' = micro + 1
    /\ UNCHANGED <<inputVars, lastTrade, sources, decisions, trades, skips, accountVars, riskVars, report>>

OnTrade ==
    /\ Takes({"trade"})
    /\ lastTrade' = IF Now.payload.price = NULL THEN lastTrade ELSE Now.payload.price
    /\ micro' = micro + 1
    /\ UNCHANGED <<inputVars, book, gap, sources, decisions, trades, skips, accountVars, riskVars, report>>

OnGap ==
    /\ Takes({"gap"})
    /\ book' = NULL /\ gap' = TRUE
    /\ UNCHANGED <<inputVars, lastTrade, sources, micro, decisions, trades, skips, accountVars, riskVars, report>>

\* A print needs its symbol and window; a mid or a candle changes nothing.
OnState ==
    /\ Takes(SourceKinds \cup {"mid", "candle"})
    /\ sources' = IF \/ Now.kind \notin SourceKinds
                     \/ Now.kind = "twap" /\ (Now.payload.symbol = NULL \/ Now.payload.window = NULL)
                  THEN sources ELSE [sources EXCEPT ![Now.kind] = Event(Now, Now.ts)]
    /\ UNCHANGED <<inputVars, book, gap, lastTrade, micro, decisions, trades, skips, accountVars, riskVars, report>>

\* _close: the open trades, in order, until the position is used up.  The fee of
\* a trade is taken from its profit here, after it was taken when it filled.
CloseTrade(done, trade, price, marked) ==
    LET take == Lesser(done.left, trade.size)
        pnl  == take * price - (take * trade.cost) \div trade.size - trade.fee
    IN IF trade.pnl # NULL \/ done.left <= 0 THEN [done EXCEPT !.trades = Append(@, trade)]
       ELSE [left |-> done.left - take, made |-> done.made + pnl,
             trades |-> Append(done.trades, [trade EXCEPT !.pnl = pnl, !.exit = price, !.marked = marked])]

Close(price, marked) ==
    LET upTo[n \in 0..Len(trades)] ==
          IF n = 0 THEN [left |-> position, made |-> 0, trades |-> <<>>]
          ELSE CloseTrade(upTo[n - 1], trades[n], price, marked)
    IN upTo[Len(trades)]

\* mutant: a resolution leaves the position as it was
StillHeld(held) == held

AfterResolve(held) == 0

OnResolve ==
    /\ Takes({"resolve"})
    /\ \E closed \in {Close(Now.payload.price, FALSE)} :
         /\ trades' = closed.trades
         /\ realized' = realized + closed.made
         /\ equity' = Append(equity, Start + realized + closed.made)
    /\ position' = AfterResolve(position) /\ cost' = AfterResolve(cost)
    /\ UNCHANGED <<inputVars, marketVars, decisions, skips, fees, slippage, riskVars, report>>

-----------------------------------------------------------------------------
\* _peek_book: the market when the order is filled.  Events that stand before
\* the decision in the file are passed over, and the first later one ends it.
SeenBy(origin, until) ==
    LET late == {i \in DOMAIN events : events[i].seq > origin.seq /\ events[i].ts > until}
        stop == IF late = {} THEN Len(events) + 1 ELSE CHOOSE i \in late : \A j \in late : i <= j
    IN {i \in DOMAIN events : i < stop /\ events[i].seq > origin.seq}

\* mutant: the book of the fill is that of the end of the stream
LastQuoteOf(origin, until) ==
    LET quotes == {i \in DOMAIN events : events[i].seq > origin.seq /\ events[i].kind \in {"book", "gap"}}
    IN IF quotes = {} THEN NULL ELSE CHOOSE i \in quotes : \A j \in quotes : j <= i

QuoteWithin(origin, until) ==
    LET quotes == {i \in SeenBy(origin, until) : events[i].kind \in {"book", "gap"}}
    IN IF quotes = {} THEN NULL ELSE CHOOSE i \in quotes : \A j \in quotes : j <= i

PeekBook(origin, until) ==
    LET last == QuoteWithin(origin, until)
    IN IF last = NULL THEN [book |-> book, gap |-> gap]
       ELSE IF events[last].kind = "gap" THEN [book |-> NULL, gap |-> TRUE]
       ELSE [book |-> OrderBook(events[last].payload), gap |-> FALSE]

\* The market of a decision: the template with the book and the last trade of
\* now.  Its book and its fees are dated now, however old they are.
\* mutant: the decision is shown the book its order will be filled with
MarketLater(event) ==
    LET later == PeekBook(event, event.ts + FillDelay("TAKER"))
    IN [book |-> later.book, last |-> lastTrade, at |-> event.ts]

MarketNow(event) == [book |-> book, last |-> lastTrade, at |-> event.ts]

Decision(event, shown, accepted, reason) ==
    [event |-> event, accepted |-> accepted, reason |-> reason, book |-> shown,
     split |-> AssignSplit(event.ts, document.split), fillAt |-> NULL, fillBook |-> NULL]

\* After a gap no market is shown to the pipeline.
SkipOnGap ==
    /\ Takes({"decision"}) /\ gap
    /\ decisions' = Append(decisions, Decision(Now, NULL, FALSE, "DATA_GAP"))
    /\ skips' = Counted(skips, "DATA_GAP")
    /\ UNCHANGED <<inputVars, marketVars, trades, accountVars, riskVars, report>>

\* What the risk engine refuses; the pipeline may refuse anything else first,
\* and refuses an order on a market without both quotes.
RiskVeto(intent, market, ts) ==
    CASE exposure + intent.shares * TouchAsk(market.book) > MaxMarket -> "RISK_LIMIT"
      [] exposure + intent.shares * TouchAsk(market.book) <= MaxMarket
           /\ lastOrder # NULL /\ ts - lastOrder < Cooldown -> "COOLDOWN"
      [] OTHER -> NULL

Rejected ==
    /\ Takes({"decision"}) /\ ~gap
    /\ \E market \in {MarketNow(Now)} :
       \E reason \in {"NO_TRADE"} \cup
            (IF TwiceMid(market.book) = NULL THEN {} ELSE {RiskVeto(intent, market, Now.ts) : intent \in Intents} \ {NULL}) :
         /\ decisions' = Append(decisions, Decision(Now, market.book, FALSE, reason))
         /\ skips' = Counted(skips, reason)
    /\ UNCHANGED <<inputVars, marketVars, trades, accountVars, riskVars, report>>

\* An accepted order is filled at once, with the book its delay will show.
FilledOrder(market, intent, fill, quote, until) ==
    LET trade == [at |-> until, seq |-> Now.seq, size |-> fill.size, cost |-> fill.cost, fee |-> fill.fee,
                  style |-> fill.style, split |-> AssignSplit(Now.ts, document.split),
                  pnl |-> NULL, exit |-> NULL, marked |-> FALSE]
        mark  == IF TwiceMid(quote.book) = NULL THEN 2 * (fill.cost \div fill.size) ELSE TwiceMid(quote.book)
    IN /\ fees' = fees + fill.fee /\ slippage' = slippage + fill.slippage
       /\ realized' = realized - fill.fee
       /\ position' = position + fill.size /\ cost' = cost + fill.cost
       /\ exposure' = exposure + fill.cost /\ lastOrder' = until
       /\ trades' = Append(trades, trade)
       /\ equity' = Append(equity, Start + realized' + (position' * mark) \div 2 - cost')
       /\ UNCHANGED skips

Ordered ==
    /\ Takes({"decision"}) /\ ~gap
    /\ \E market \in {MarketNow(Now)}, intent \in Intents, lucky \in BOOLEAN :
         /\ TwiceMid(market.book) # NULL /\ RiskVeto(intent, market, Now.ts) = NULL
         /\ lucky \/ intent.style = "MAKER"
         /\ \E until \in {Now.ts + FillDelay(intent.style)} : \E quote \in {PeekBook(Now, until)} :
            \E fill \in {SimulateExecution(intent.style, intent.shares, quote.book, quote.gap,
                                           MarketFees(document), lucky)} :
              /\ decisions' = Append(decisions, [Decision(Now, market.book, TRUE, "OK")
                                                   EXCEPT !.fillAt = until, !.fillBook = quote.book])
              /\ IF fill.filled THEN FilledOrder(market, intent, fill, quote, until)
                 ELSE /\ skips' = Counted(skips, fill.reason)
                      /\ UNCHANGED <<trades, accountVars, riskVars>>
    /\ UNCHANGED <<inputVars, marketVars, report>>

-----------------------------------------------------------------------------
\* The end of the stream: what is still held is closed at the mid, if there is
\* one, without giving the position up, and the report is made.
SplitSummary(rows, name) ==
    LET Of(row)  == row.split = name
        mine     == SelectSeq(rows, Of)
        finished == SelectSeq(mine, LAMBDA row : row.pnl # NULL)
        total    == FoldLeft(LAMBDA sum, row : sum + row.fee, 0, mine)
    IN Summary(IF finished = <<>> THEN mine ELSE finished, equity, total, 0)

Report(rows, values) ==
    LET finished == SelectSeq(rows, LAMBDA row : row.pnl # NULL)
        first == IF events = <<>> THEN 0 ELSE events[1].ts
        last  == IF events = <<>> THEN 0 ELSE events[Len(events)].ts
    IN [metrics |-> Summary(IF finished = <<>> THEN rows ELSE finished, values, fees, slippage),
        splits  |-> [name \in {"train", "validation", "oos"} |-> SplitSummary(rows, name)],
        windows |-> WalkForward(first, last)]

Finish ==
    /\ phase = "replaying" /\ at > Len(events)
    /\ phase' = "done"
    /\ \E closed \in {IF position = 0 \/ TwiceMid(book) = NULL THEN [made |-> 0, trades |-> trades]
                      ELSE Close(TwiceMid(book) \div 2, TRUE)} :
         /\ trades' = closed.trades
         /\ realized' = realized + closed.made
         /\ equity' = IF position = 0 \/ TwiceMid(book) = NULL THEN equity ELSE Append(equity, Start + realized')
         /\ report' = Report(trades', equity')
    /\ UNCHANGED <<document, clean, events, at, marketVars, decisions, skips, position, cost, fees, slippage, riskVars>>

Next ==
    \/ Load \/ Refuse
    \/ OnBook \/ OnTrade \/ OnGap \/ OnState \/ OnResolve
    \/ SkipOnGap \/ Rejected \/ Ordered
    \/ Finish

Spec == Init /\ [][Next]_backtestVars

-----------------------------------------------------------------------------
\* The stream is in the order of time, and what a decision or a trade holds is
\* of the kind the report writes.
TypeOK ==
    /\ phase \in {"loading", "replaying", "done", "refused", "failed"}
    /\ \A i \in 1..(Len(events) - 1) : events[i].ts <= events[i + 1].ts
    /\ KindsIn(events) \subseteq StateKinds
    /\ at \in 1..(Len(events) + 1) /\ gap \in BOOLEAN /\ (gap => book = NULL)
    /\ Len(decisions) >= Len(trades) /\ micro <= at
    /\ position >= 0 /\ cost >= 0 /\ fees >= 0 /\ slippage >= 0
    /\ \A i \in DOMAIN trades : trades[i].size > 0 /\ (trades[i].style = "MAKER" => trades[i].fee = 0)
    /\ clean /\ phase \in {"replaying", "done"} => Len(events) <= Len(document.rows)

\* The rows of the document that are replayed, told from the file and not from
\* the stream: all of them, or, when it is sanitized, those that are not late
\* and repeat no other.
Replayed(rows, sanitized) ==
    {i \in DOMAIN rows :
       /\ ~Corrupt(rows[i])
       /\ sanitized => \A j \in 1..(i - 1) :
            Corrupt(rows[j]) \/ (rows[j].ts <= rows[i].ts /\ Fingerprint(rows[j]) # Fingerprint(rows[i]))}

Quotes == {i \in Replayed(document.rows, clean) : document.rows[i].kind \in {"book", "gap"}}

Before(i, ts, seq) == document.rows[i].ts < ts \/ (document.rows[i].ts = ts /\ i < seq)

\* The book of the latest quote among these, NULL after a gap, that of the
\* template when there is none.
BookOf(quotes) ==
    IF quotes = {} THEN document.book
    ELSE LET last == CHOOSE i \in quotes : \A j \in quotes \ {i} : Before(j, document.rows[i].ts, i)
         IN IF document.rows[last].kind = "gap" THEN NULL ELSE OrderBook(document.rows[last].payload)

\* No decision looks ahead (backtest/engine.py, line 1: "Decisions see only
\* events at or before now"): the book it is taken on is that of the last book
\* or gap that the file has before it, in time and then in place.
NoLookAhead ==
    \A i \in DOMAIN decisions :
        LET d == decisions[i].event
        IN decisions[i].book = BookOf({q \in Quotes : Before(q, d.ts, d.seq)})

\* An order is filled with the book of its fill time (_peek_book), when the rows
\* of the file are in the order of time; when they are not, a book that stands
\* before the decision in the file and after it in time is passed over.
InOrder == \A i, j \in DOMAIN document.rows :
             i < j /\ ~Corrupt(document.rows[i]) /\ ~Corrupt(document.rows[j])
               => document.rows[i].ts <= document.rows[j].ts

FilledAtFillTime ==
    phase \in {"replaying", "done"} /\ InOrder =>
        \A i \in DOMAIN decisions :
            decisions[i].accepted =>
              decisions[i].fillBook =
                  BookOf({q \in Quotes : Before(q, decisions[i].fillAt, Len(document.rows) + 1)})

\* The account agrees with the trades: the position is what the open ones hold,
\* a trade is closed once and whole, and what was made is the proceeds of the
\* closed ones less their cost, and the fee of each twice: when it fills and
\* when it is closed.
Held(trade) == IF trade.pnl = NULL THEN trade.size ELSE 0
Made(trade) == (IF trade.pnl = NULL THEN 0 ELSE trade.size * trade.exit - trade.cost - trade.fee) - trade.fee

AccountAgrees ==
    /\ phase # "done" => position = SumUpTo([i \in DOMAIN trades |-> Held(trades[i])], Len(trades))
    /\ realized = SumUpTo([i \in DOMAIN trades |-> Made(trades[i])], Len(trades))
    /\ position = 0 => equity[Len(equity)] = Start + realized

=============================================================================
