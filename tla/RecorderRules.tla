--------------------------- MODULE RecorderRules ----------------------------
\* hotflow/backtest/recorder.py: how a document that can be replayed is made
\* from what the public feeds answered, or made up whole.
EXTENDS ReplayRules

CONSTANTS
    MaxEvents,   \* rows kept of a recording
    PollMs,      \* poll_interval_s
    PrintSymbols, PrintWindows, \* the documented prints
    TrainSpan,   \* train_end of a recording after its start
    TestSpan     \* validation_end and oos_start after train_end

Row(ts, kind, payload) == [ts |-> ts, kind |-> kind, payload |-> payload]

\* parse_clob_book_payload: a book with levels on both sides, best first.
Known(side) == SelectSeq(side, LAMBDA level : level # NULL)

ParseBook(answer) ==
    LET bids == SortSeq(Known(answer.bids), LAMBDA a, b : a.price > b.price)
        asks == SortSeq(Known(answer.asks), LAMBDA a, b : a.price < b.price)
    IN IF bids = <<>> \/ asks = <<>> THEN NULL ELSE [bids |-> bids, asks |-> asks]

\* A book is recorded with its mid after it; one that cannot be used leaves no row.
MidRow(row) == Row(row.ts, "mid", [mid |-> (row.payload.bids[1].price + row.payload.asks[1].price) \div 2])

PollRows(ts, answer) ==
    LET parsed == ParseBook(answer)
    IN IF parsed = NULL THEN <<>>
       ELSE LET row == Row(ts, "book", parsed) IN <<row, MidRow(row)>>

\* A print of a symbol and a window that are documented.
TwapRow(print) == Row(print.at, "twap", [symbol |-> print.symbol, window |-> print.window, value |-> print.value])

PrintRows(prints) ==
    LET documented == SelectSeq(prints, LAMBDA p : p.symbol \in PrintSymbols /\ p.window \in PrintWindows)
    IN [i \in DOMAIN documented |-> TwapRow(documented[i])]

\* Without a rate the schedule reads "no fees", also when its fetch failed.
DatedFeeBlock(rate) == [enabled |-> rate # NULL, rate |-> rate, words |-> {"dated", "as_of"}]

WrapStream(rows, fee, start) ==
    [rows |-> SubSeq(rows, 1, Lesser(MaxEvents, Len(rows))), fees |-> fee, marketFees |-> fee,
     words |-> {"as_of", "dated"}, book |-> DemoBook,
     split |-> [trainEnd |-> start + TrainSpan, validationEnd |-> start + TrainSpan + TestSpan,
                oosStart |-> start + TrainSpan + TestSpan]]

\* record_live_stream: a book each poll, then the prints that came in the same
\* time, or a gap at the very start when none did.  A poll that fails loses all.
RecordedRows(start, answers, prints) ==
    LET polled == FoldLeft(LAMBDA rows, i : rows \o PollRows(start + (i - 1) * PollMs, answers[i]),
                           <<>>, [i \in 1..Lesser(MaxEvents, Len(answers)) |-> i])
        collected == PrintRows(prints)
    IN CASE prints = NULL -> polled
         [] prints # NULL /\ PrintRows(prints) = <<>> -> Append(polled, Row(start, "gap", [reason |-> "rtds_no_prints"]))
         [] OTHER -> polled \o collected

Recorded(start, answers, rate, prints) ==
    IF \E i \in DOMAIN answers : answers[i] = NULL THEN NULL
    ELSE WrapStream(RecordedRows(start, answers, prints), DatedFeeBlock(rate), start)

\* build_synthetic_longer_stream: a book every 15 seconds around a mid that
\* wanders, a mid with every second and a print with every fourth, and three
\* decisions before the resolution.
SyntheticBook(step) ==
    LET mid == Greater(320, Lesser(480, 410 + 2 * (((step * 17) % 9) - 4)))
        Level(price, size) == [price |-> price, size |-> 100 * size]
    IN [bids |-> <<Level(mid - 10, 90), Level(mid - 30, 100)>>,
        asks |-> <<Level(mid + 10, 80), Level(mid + 30, 120)>>]

SyntheticStep(start, step) ==
    LET row == Row(start + 15000 * step, "book", SyntheticBook(step))
        print == [at |-> row.ts, symbol |-> "btc/usd", window |-> 60, value |-> 65000 + 8 * (step % 5)]
    IN <<row>> \o (IF step % 2 = 0 THEN <<MidRow(row)>> ELSE <<>>)
               \o (IF step % 4 = 0 THEN <<TwapRow(print)>> ELSE <<>>)

Synthetic(start, steps, minutes, end) ==
    LET books     == FoldLeft(LAMBDA rows, i : rows \o SyntheticStep(start, i - 1), <<>>, [i \in 1..steps |-> i])
        decisions == [i \in DOMAIN minutes |-> Row(start + 60000 * minutes[i], "decision", [info |-> 700])]
        resolve   == Row(start + end, "resolve", [price |-> 1000])
        sorted    == FileEvents(Append(books \o decisions, resolve))
    IN WrapStream([i \in DOMAIN sorted |-> Row(sorted[i].ts, sorted[i].kind, sorted[i].payload)],
                  DatedFeeBlock(4), start)

=============================================================================
