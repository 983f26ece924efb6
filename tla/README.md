# A verification development for hotflow

`hotflow` scores prediction markets, sizes and places paper orders, keeps their
ledger and stops itself when a limit is crossed. This directory holds TLA+ modules
that model its trading core, the feeds and evaluations before it, the store and the
dashboard behind it and the backtester beside it, the TLC configurations that check them on small
instances, and TLAPS proofs of what matters most for instances of every size.

Paths below are relative to `src/src/hotflow/`.

## The system

| Component | State it keeps | Operations | Works with |
| --- | --- | --- | --- |
| Paper ledger (`portfolio/ledger.py`) | cash, realized P&L, fees, peak equity, positions, event list | `apply_fill`, `mark`, `flatten`, `replay_events` | broker, session, risk engine |
| Orders and paper broker (`execution/orders.py`, `execution/paper.py`) | orders by client order id, last fill event | `create`, `submit`, `simulate_fill`, `request_cancel`, `reject`, `cancel_open` | pipeline above, ledger below |
| Risk engine and kill switch (`risk/`) | exposures, P&L, reject streak, active trip | `decide`, `note_fill`, `note_reject`, `sync_from_ledger`, `enforce_session_limits`, `trip`, `reset` | pipeline, session |
| Pipeline (`pipeline.py`) | freshness, cooldowns, the objects above | `evaluate_markets` (score all, allocate once, commit in turn), `check_external_positions` | everything |
| Paper session (`portfolio/session.py`) | remembered marks | `run_markets`, `flatten`, `run_kill_recovery_drill` | pipeline, ledger |
| Allocator (`portfolio/allocator.py`, `correlation.py`, `book.py`, `sizing.py`) | none between calls | `allocate` | risk state in, rows out |
| Storage (`storage/sqlite_store.py`) | orders, trades, ledger events, snapshots | one commit per save | pipeline, session |
| Market data (`marketdata/`) | freshness clock, TWAP and sports caches | `touch`, `push`, `save`, `load`, reconnect loops | pipeline |
| Discovery (`discovery/`) | none | `scan` | pipeline, what an evaluation is given |
| Fair value, features, scores, regimes (`fairvalue/`, `features/`, `hotmarket/`, `analytics/`) | spread history | one function of a market each | pipeline |
| News (`news/`) | seen items | `evaluate` | pipeline |
| Monitoring (`monitoring/`) | dashboard hub, health, metrics | `publish`, stream readers (threads) | pipeline, HTTP |
| Backtester (`backtest/`) | position, realized P&L, trades, equity | one replay step per event | reads recordings, asks the pipeline for decisions |
| Live gate and executor (`execution/live_*.py`) | none | refuses every call | pipeline |

Readiness, CLI, configuration and security checks hold no state that interacts.

The trading core runs in one thread. What is hard there is not threads but *order*:
a batch is scored, then allocated, then committed market by market, then marked,
over shared mutable objects, so each step may read what an earlier step made stale.
Marks move the ledger without the risk engine being told; an order stays partly
filled for as long as nobody cancels it; a trip arrives between the scoring and the
commit of the same candidate; an operator resets a trip at any time. Real threads
exist only around it (subscribers, dashboard), and crashes matter where the store is
written.

What makes each part correct:

- **Ledger**: no lot is paid for twice or sold twice; the event list alone rebuilds it.
- **Broker**: an order follows its state machine; the ledger contains exactly the filled
  sizes of the order table; creating twice under one id is harmless.
- **Risk engine and session**: a trip stops new orders, limits bound the books and not just
  the numbers the engine happens to hold.
- **Allocator**: what a batch reserves fits in every room at once.
- **Storage, caches**: a restart finds what was there, never an older value as a newer one.
- **News**: an event moves a probability at most once, however many items tell it.
- **Evaluation**: a candidate was decided on data that were fresh, its own and not another
  market's.
- **Feed readers**: a reader ends at its deadline and reconnects after a disconnect.
- **Dashboard**: a connected page catches up with what the process last did.
- **Backtester**: no decision looks ahead, an order is filled with the book of its fill
  time, and the account is the sum of the trades.

`PROJECT.json` lists every component with its status, and under `hazards` the
places where this code is hard to test, each with the properties that would catch it going
wrong, or with the reason why none does.

## The modules

| Module | Models | Built from |
| --- | --- | --- |
| `PrefixSums` | finite sums, `Abs`, `Lesser`, `Greater` | |
| `LedgerRules` | arithmetic of `apply_fill`, `mark`, `flatten` on a ledger record | `PrefixSums` |
| `PaperLedger` | the ledger as a state machine with its event list, and its replay | `LedgerRules` |
| `OrderRules` | the effect of each order operation on one order | `PrefixSums` |
| `OrderLifecycle` | abstract: what an order promises, whatever moves it | |
| `PaperBroker` | the broker: one action per method; refines `OrderLifecycle` | `LedgerRules`, `OrderRules` |
| `RiskLimits` | the limits and categories risk engine and allocator both read | |
| `RiskRules` | `RiskState` and `RiskEngine` as operators on a risk record | `LedgerRules`, `RiskLimits` |
| `AllocatorRules` | correlation rules, rooms, and the placing of one candidate | `RiskLimits`, `PrefixSums` |
| `Allocator` | one `allocate` call, candidate by candidate | `AllocatorRules` |
| `PaperSession` | pipeline, session, broker, ledger, allocator, risk engine, kill switch composed | `RiskRules`, `OrderRules`, `AllocatorRules` |
| `MCPaperLedger`, `MCPaperBroker`, `MCAllocator`, `MCPaperSession` | values for TLC | |
| `FeedProcess` | the process that runs both readers, its clock, backoff, a cache and its file | |
| `RtdsFeed` | the RTDS subscriber, its connection and the print cache | `FeedProcess` |
| `SportsFeed` | the sports subscriber, its connection and the game cache | `FeedProcess` |
| `ScanFeeds` | scans, crashes and restarts over both | `RtdsFeed`, `SportsFeed` |
| `BookRules` | what is read off a book: depth, walks, imbalance, microprice | `PrefixSums` |
| `FeedRules` | the feed clock, ages of prints and game states | `BookRules` |
| `ResolutionRules`, `DiscoveryRules` | what a market says of its resolution; from listing to record | `BookRules` |
| `FairValueRules`, `ScoreRules` | probability, edge, size; features, heat, opportunity | `BookRules` |
| `NewsRules`, `RegimeRules` | what an item says about a market; the labels of its state | `BookRules` |
| `Evaluation` | `_evaluate_market`, gate by gate, over all of these | the eight above |
| `ReplayRules`, `RecorderRules` | rows to events, fills, splits, summaries; how a document is made | |
| `Backtest` | the replay of a document | `RecorderRules` |
| `StoreRules` | the SQLite tables, one commit per save | `LedgerRules` |
| `DashboardHub` | the hub, its lock, health and the threads of its stream | |
| `Outputs` | a process that decides, saves and publishes, with crashes and restarts | `StoreRules`, `DashboardHub` |
| `MCScanFeeds`, `MCEvaluation`, `MCBacktest`, `MCOutputs` | values for TLC | |
| `RulesProofs` | lemmas about sums, ledger arithmetic and rooms | `LedgerRules`, `AllocatorRules` |
| `PaperLedgerProofs`, `PaperBrokerProofs`, `ScanFeedsProofs`, `EvaluationProofs`, `BacktestProofs`, `OutputsProofs` | theorems about one state machine each | that module and the lemmas |
| `PortfolioProofs` | theorems about the allocate call and about the session that makes such calls | `Allocator`, `PaperSession` and the lemmas |

The arithmetic is in operators on records (`LedgerRules`, `OrderRules`, `RiskRules`)
because three state machines use it: a lemma about `ApplyFill` serves the ledger, the
broker and the session.

**Ledger.** `ledger` is the record of the `PaperLedger` fields and `events` its event
list; `Fill`, `Mark` and `Flatten` are the three methods with their trailing `_commit`.
The code keeps an average cost; the model keeps `cost = |qty| * avg_cost`, exact under
adding and flipping. A partial close releases the closed lots' share of the cost,
rounded down where the code divides floats, so each theorem also covers a cost that
does not divide. Flattening several tokens visits them in an order callers do not fix.
`Replay` is `replay_events`. Timestamps, notes and the list of closed P&Ls are left out.

**Broker.** `orders` is the table by client order id, `ledger` the shared ledger,
`lastFill` the event the pipeline books the trade from. A call that raises changes
nothing and is a disabled action. A fill takes any positive number of the remaining
lots, which stands for every ratio; a ratio of zero is an action of its own. `SUBMITTED`
never outlives a call and nothing in the repository expires an order. The setter of
`cash` has no caller and is left out.

**Allocator.** A call keeps nothing, so `given` is what it is called with (exposure book,
category, total and concurrent exposures) and `seen` the same with what it has reserved.
`Init` ranges over what a session can hand over: book and category exposure grow by the
same fills (a property of the `session` run), while marks move the total and a market
may be concurrent without a fill. `Place` is `_place`: no room for a new concurrent
market, or a group that is full, is a skip; otherwise the smallest of the rooms, if it
is worth an order. The rank is a number made of scores, so candidates come in any order.
What `extract_identity` parses from a market's text is a constant; regime labels vary.

**Session.** `batch` is the running `run_markets` call: its phase (scoring, committing,
marking), the markets left and the candidate rows. Each action handles one market, so
a market's step sees what earlier steps did. Scoring is an outcome: stale data (which
trips and cancels), filtered out, or a candidate. Allocation is that of `AllocatorRules`
in any rank order, against the exposure book `exposure`, without regimes; a downsized
row is lifted to the minimum size as `_apply_allocation` does. `CommitVeto` and `CommitTrade`
are the two halves of `_commit_prepared` around `decide`, whose checks are
`Allows`. `dataOk` stands for the quality vetoes (confidence, spread, depth, impact,
slippage, age, latency) and, for a single evaluation, the cooldown. `StartSingle` is
`evaluate_market`: a batch of one that no session marks. `SoakLot` and `KillDrill` book a
round trip beside the pipeline, under tokens that no market has, and tell the risk engine
at once; the drill then has a market evaluated. `EndRecipe` is what the mixed soak does
between recipes: a flatten and `_reset_flat_risk`, which clears the engine's counters
from outside; `settled` remembers the orders it left behind. `RememberMark`, `Flatten`, `PositionMismatch` and `Reset` are
the session's own marking and flattening, the consistency check's trip and the
operator's reset. Every market is assumed to carry a book, hence a mid, and to trade
its first token only, so markets and tokens share their numbers.

**Feeds.** `phase` is where `run_scan` is: loading a cache row by row (each `put` saves
the file again), reading prints, reading games, evaluating. `rtds` and `sports` are the
subscribers' program counters between two awaits, `link` and `feed` their connections
with the messages in flight; a venue sends in order and replays nothing. `printFile` and
`gameFile` are the JSON files, `TornFile` while one is rewritten. A crash may fall
anywhere; `cut` remembers one inside a load or a write.

**Evaluation.** One action is one `_evaluate_market` call, its gates applied in the order
of the code to a record `d` whose `reason` is `NULL` until one refuses; between two calls
the clock moves, prints and game states arrive, a scan replaces the universe. `samples` is
the feed clock with its one sample per feed, whatever market it came from; `seen` the
fingerprints of the news engine, `applied` a history of those that moved a probability.
Numbers are fixed point, regular expressions and words are the sets of what they find; the
normal distribution and logarithms are linear between knots, which keeps every comparison
of the code and approximates its values. `p_info` given by the caller wins over every
source, as in the code.

**Backtest.** `Load` parses and optionally sanitizes a document and may refuse it (nothing in
the repository replays a sanitized document: `sanitize_event_rows` is called to count what it
drops, `failure/scenarios.py:202`; the models cover both); then each event is one step of the loop in `run`. What the pipeline answers to a decision is
any intent; the risk vetoes that depend on the replay's own past are kept. `_peek_book`
is translated as the code searches, by place in the file and then by time, so that the
property can be told from the document instead: `NoLookAhead` and `FilledAtFillTime` name
the last book of the *file* that is earlier than the decision or than the fill. What the
code builds in a loop (stream, accepted rows, a fill level by level, the closes trade by
trade) is a recursive function with its step as an operator of its own.

**Outputs.** An operation of pipeline or session decides in memory; `proc.agenda` is what
it still has to do, in the order of the code, and each effect (one commit, one health
field, one publication) is a step. A crash drops the agenda and the memory, `Start`
opens the same file with a fresh ledger. `KillDrill` and `SoakLot` are the drill of
`session.py` and the lots of `long_soak.py`: a round trip on the ledger of the process under
a token of its own, published and not stored, so its lots are gone when the step ends and
`RoundTrip` keeps what it made, the peak included; `made` is any of `Results`. `beside` is a
history variable: the sum of what they made, which no row tells. A snapshot remembers its
value, too. After its trip the drill has a market evaluated (`Probing`), with all that an
evaluation saves. A row carries the run that wrote it, which the
tables do not have: every run of the default configuration uses one session id. A reader
thread asks, waits for a new generation for a second at most, copies status, health and
ring under the lock, and sends; whether its copy is of the last generation is the flag
`current` instead of a counter. Health fields change outside the lock.

## What is checked

| Run | Instance | Shows |
| --- | --- | --- |
| `ledger` | 2 tokens, prices {1,3}, sizes {1,2}, fees {0,1}, 3 operations | type, double entry, replay, peak, flatten, equity moves by marks and fees only |
| `broker` | 2 orders of 3 lots on one token, prices {1,2}, fees {-1,1} per share | status tells filled, fills are booked exactly, refines `OrderLifecycle`, terms fixed, last fill event truthful |
| `allocator` | 4 markets, 3 groups, one regime, held notionals of 2, intended {2,3} | rooms are shared by a batch, groups and underlyings bound it in every rank order, a regime label of any member tightens its group |
| `session` | 3 markets in 2 categories, 2 calls (cycles, single evaluations, drills, soak lots), batches of up to 2, 3 orders, fill 50%, minimum size 2 | open orders, category exposure and concurrent markets bounded *of the books*, no order while tripped, daily loss stops trading, a seen breach trips |
| `trip_cancels` | as `session`, 3 cycles | disagreement, see below |
| `group_cap` | as `session`, whole fills, correlated cap 6 | disagreement |
| `market_cap` | as `session`, 3 cycles, market cap 4 | disagreement |
| `feeds` | 1 symbol, 1 game, 3 frames of each kind, 2 seconds, 3 messages, 1 lost connection, 1 crash, 2 scans | nothing accepted is forgotten, readers end, a disconnect recovers |
| `evaluation` | 4 categories, universes of up to 2 markets out of 3 listings and their variants (missing, thin, crossed books), 8 news items, 2 evaluations, 1 move of the clock, 1 arrival | candidates were decided on fresh data, an event shifts once, the two book walks agree |
| `backtest` | every file of up to 5 rows over a pool of 8 that crowd around a decision, with and without the book of the template in front of them, files with bad or repeated rows, recordings, the synthetic stream (198,928 states) | no look-ahead, fills at fill time, the account agrees with the trades |
| `outputs` | 2 tokens, 2 orders, 4 operations (2 while serving), 1 trip, 2 runs, 1 reader, round trips that lose 1 (1,100,192 states) | the tables agree after any crash, but for what drills and soak lots made; a page catches up |
| `live_reconnect` | as `feeds`, with the exception the library raises | disagreement |

**Bounds** (`MaxEvents`, `MaxOrders`, `MaxCycles`, `MaxBatch`) only cut behaviours
short: an operation that would pass one is disabled. Three ledger operations reach every
kind of pair (open, add, partial close with a cost that does not divide, close, flip,
short) followed by a flatten of two tokens. Three-lot orders can be partly filled twice
before the last lot; two of them on one token let a sale close or flip what a purchase
opened. Two batches let one cycle's stale state be read by the next; two markets of one
category and one of another separate the category rooms; two open orders and two
concurrent markets are limits that the third order reaches. A round trip of two lots loses
or makes two, which is the daily loss limit, so a drill trips or does not. In the allocator's instance
one pair is linked by a group, one by its underlying and one by tags, so that correlation
is not transitive. The ledger and the session stop at their bounds and a call of the
allocator ends, so deadlock is checked only for the broker.

Two scans are needed for a cache to be loaded and read again; one lost connection may fall
between two frames, in a backoff or at the deadline, and a second would repeat the first.
Two evaluations let the second read what the first left in the clock, the history and the
news engine; the clock moves past every age limit or back. Files of five rows put two
books, a gap and two decisions in any order; files that do not begin with a book are of two
rows, since only what comes before the first quote differs. The synthetic stream is shortened to 18
steps, which is where all of its kinds of event have occurred. Two runs of the process
with two orders leave a partial trade of the first behind the second; each operation is a
dozen effects, so runs that also serve a page have `MaxServed` operations, the others
`MaxOps`. A drill or a soak lot counts as two operations and the evaluation of a drill as none:
with four, a drill may come before and after a trade or a flatten that saves a snapshot. Feeds, evaluation, backtest and outputs stop at their bounds, too.

**Fairness.** In `ScanFeeds`, weak fairness of the process step and of time: a task of the
event loop that can run does, and `recv` is awaited with a timeout. Nothing is assumed of
venues, crashes or restarts. In `Outputs`, weak fairness of the effects of an operation
that has begun (one thread that waits for nothing but the hub's lock), of the evaluation a
drill goes on to, and of each reader thread (its wait has a timeout of one second). No operation is assumed to begin: a session
runs as often as its caller calls it, so the core has safety properties only.

**Mutants.** Each property of each passing run has a plausible bug of the code that
breaks it (a fee charged twice, a replay that drops the fee, a cancel that leaves the
order waiting, a drawdown looked at too late, ...). They stand beside the definition
they would replace, marked `mutant`.

### Where code and documents disagree

- `trip_cancels`: `docs/risk.md` says a trip blocks new orders and then cancels; only
  the stale-data trip cancels. Every other trip leaves PARTIAL orders working.
- `group_cap`: `docs/risk.md` calls `max_correlated_exposure` a backstop on the summed
  correlated bucket; a market already held is not counted against its own group, so a
  bucket grows by a whole cap each cycle.
- `market_cap`: `market_exposure` is written under token ids after each fill and read
  under market ids, so the market limit bounds one order and never the position.
- `live_reconnect`: `marketdata/rtds_subscriber.py` says that after a disconnect it
  reconnects and resubscribes; it catches `ConnectionError` only, which the exception of
  `websockets` on a closed connection is not, so the reader dies. In the run `feeds`, with
  a transport that raises `ConnectionError` as the tests' does, it recovers.
- No run of its own, but part of what `TablesAgree` says: `docs/runbook.md:297-301`, in the
  paragraph on `--flatten` and `--kill-drill`, says that `ledger_events` and
  `ledger_snapshots` persist the same numbers the gauges read. The drill
  (`session.py:151-173`) and each lot of the long soak (`long_soak.py:93-134`) book on the
  session's ledger and publish it to the gauges, with a store open (`cli.py:209-247`,
  `755-758`), but save neither an event nor a snapshot. From then on the stored rows do not
  add up to cash and realized P&L, by exactly what the round trips made, and the stored snapshot
  lags behind the gauges until a later trade or flatten saves one; that one has the numbers of
  the gauges, and the rows do not add up to it. Lots and cost are not affected.

### Behaviour to know

No document is contradicted by these, and the models contain them:

- a loss taken by `flatten` is never told to `note_fill`, so the next order may be larger;
- paper orders stay PARTIAL until they are cancelled, so the cap on open orders can end all
  trading of a session, and the vetoes that follow trip the switch;
- a news item is marked as seen by the first market it is evaluated for, also when it does
  not apply there, and is a duplicate for the market it is about;
- a commit lifted to the minimum size (`pipeline.py:147`) exceeds its allocation, and `decide` rechecks category
  and total exposure, not the group;
- of two prints of one key the cache keeps the last to arrive, and `clob_book` has one sample
  for all markets;
- marks are made after the last commit and not synced to the engine: drawdown is enforced
  one trade late;
- vetoes of a tripped switch count as rejects and overwrite its reason;
- the fee of a backtest trade is charged when it fills and again when it closes, and a
  replay stamps its books with the time of the decision, so none is ever stale;
- a decision before the first book of the file is taken on the book of the market template,
  or of the demo market, so it is not skipped; and of the rows A, B, A of one time the last
  is rejected as a repetition, so a sanitized replay ends on B;
- every run uses one session id by default; marks are counted as events and not stored, so
  a snapshot's `event_count` is not the number of rows; a cancel is not stored.

## What is proved

Each theorem holds for every value of the constants, from the named assumptions of the
modules: the bounds are naturals, sizes and prices positive, limits naturals, frames and
keys what the code can be given. None assumes anything of the environment's order.

| Theorem | States |
| --- | --- |
| `PaperLedgerProofs!TypeCorrect` | `[]TypeOK` |
| `PaperLedgerProofs!DoubleEntry` | `[]CashIdentity` |
| `PaperLedgerProofs!Replayable` | `[]ReplayExact` |
| `PaperLedgerProofs!PeakCorrect` | `[]PeakIsHighWater` |
| `PaperLedgerProofs!FlattenComplete` | `[]FlattenLeavesNothingOpen` |
| `PaperLedgerProofs!EquityConserved` | `EquityMovesByMarksAndFees` |
| `PaperBrokerProofs!TypeCorrect` | `[]TypeOK` |
| `PaperBrokerProofs!StatusCorrect` | `[]StatusTellsFilled` |
| `PaperBrokerProofs!BookingCorrect` | `[]FillsBooked` |
| `PaperBrokerProofs!Refinement` | the broker implements `OrderLifecycle` |
| `PaperBrokerProofs!TermsCorrect` | `TermsFixed` |
| `PaperBrokerProofs!FillEventCorrect` | `LastFillTruthful` |
| `PortfolioProofs!AllocateTypeCorrect` | `[]AllocateTypeOK` |
| `PortfolioProofs!RoomsSharedCorrect` | `[]RoomsShared` |
| `PortfolioProofs!GroupsCorrect` | `[]GroupsFit`, if no group scale is above 1 |
| `PortfolioProofs!UnderlyingsCorrect` | `[]UnderlyingsFit` |
| `PortfolioProofs!RegimesCorrect` | `RegimesTighten` |
| `PortfolioProofs!TypeCorrect` | `[]TypeOK` |
| `PortfolioProofs!OpenOrdersCorrect` | `[]OpenOrdersCapped` |
| `PortfolioProofs!ConcurrentMarketsCorrect` | `[]ConcurrentMarketsCapped` |
| `PortfolioProofs!CategoryCorrect` | `[]CategoryCountsEveryPurchase` |
| `PortfolioProofs!NoOrderWhileTrippedCorrect` | `NoOrderWhileTripped` |
| `PortfolioProofs!LossStopsTradingCorrect` | `LossStopsTrading` |
| `PortfolioProofs!BreachTripsCorrect` | `BreachTrips` |
| `ScanFeedsProofs!TypeCorrect` | `[]TypeOK` |
| `ScanFeedsProofs!RememberedCorrect` | `[]NothingForgotten` |
| `EvaluationProofs!FreshnessCorrect` | `DecidedOnFreshData` |
| `EvaluationProofs!NewsCorrect` | `NewsShiftsOnce` |
| `EvaluationProofs!WalksCorrect` | `[]WalksAgree` |
| `EvaluationProofs!TypeCorrect` | `[]TypeOK` |
| `BacktestProofs!TypeCorrect` | `[]TypeOK` |
| `BacktestProofs!NoLookAheadCorrect` | `[]NoLookAhead` |
| `BacktestProofs!FillTimeCorrect` | `[]FilledAtFillTime` |
| `BacktestProofs!AccountCorrect` | `[]AccountAgrees` |
| `OutputsProofs!TypeCorrect` | `[]TypeOK` |
| `OutputsProofs!TablesCorrect` | `[]TablesAgree` |

*Sums.* `RulesProofs` proves what changing one summand, or adding one at the end,
does to `SumUpTo`, and the same for sums over a set of markets.
The arguments that would be inductions are by least counterexample on the naturals,
since an induction theorem with an operator parameter cannot be instantiated by the
provers in use.

*Ledger.* The inductive invariant is `Inv == TypeOK /\ CashIdentity`. Double entry alone
is not inductive: a closing fill divides by the held lots and subtracts a released
cost, which is sound only while costs are naturals and an empty position carries none.
`RulesProofs` shows that one fill and one mark keep a ledger sound and move its
balance by the fee of an opening fill and nothing else; a flatten is a chain of fills,
handled by the same least-counterexample argument over the closes done. Replay is
proved separately: replaying an extended list is replaying the list and applying the
new event, which does to the ledger what the recorded operation did. The high-water
mark follows the same extension of the list, event by event.

*Broker.* The inductive invariant `IInv` joins: every order is sound (its status tells
its filled size, the size bounds it, an unused id has size 0), the ledger is sound, the
last fill event is well formed, and the ledger's lots and cash are the sums over the
order table. The status part is what makes a fill legal, the unused-id part is what
makes a new order change no sum. The refinement theorem uses the same invariant and one
lemma per method.

*Allocator.* The inductive invariant joins `AllocateTypeOK`, `RoomsShared`, what each candidate
has reserved is exactly the difference of `seen` to `given`, and a market's labels are
those it was bought with and those of today. A bucket is a sum over a set of markets, so
the lemmas are those of sums over sets: adding one market, changing one, splitting in
two. `GroupsCorrect` has a hypothesis, `ScalesTighten`: a regime may scale a group's
cap, and the code does not check that the scale is at most 1. Every scale of the shipped
configuration is 0.5; with a scale above 1 the property is false.

*Session.* The inductive invariant ties each counter of the risk engine to the books:
rows of the batch that wait for a commit fit the rooms they were allocated from, the
open-order counter covers the orders that work in the table, the concurrent set covers
every token held or worked, category exposure of engine, order table and exposure book
agree, no position is short (the pipeline buys only), and the practice token of drills
and soak lots holds nothing between two steps. It was checked with TLC on the instance
of the `session` run before it was proved.

*Feeds.* The invariant `IInv` has one half per reader, and a step of one leaves the other
half alone. Each half says: messages consumed, in flight and left to send exclude each
other (so counters are bounded); reconnections and an open loss never exceed the losses
that happened; cache and file have one row per key; and what is remembered where: before
a load in the file alone, during it in cache and unread rows *together* (the file is
rewritten shorter with every row, which is why a cut load forgets), afterwards in both,
but for a write under way. `put` replaces in place or appends, and loading the next row
of a list without duplicates changes nothing of cache and unread rows together: these
two lemmas carry the proof. The theorem is about losing rows; that every reader ends and
recovers is liveness.

*Evaluation.* The theorems follow one decision through the gates. `Decided` is what
every gate leaves true of it: its print and game state are within their age limits, a
snap has a print, its news is either no impact or that of an event that was not in
`seen` before and is in it now, its edge is sure by a percentage, its spread is a number
or unknown. One lemma per gate shows that the gate keeps `Decided` whether it refuses or
passes; the freshness of book and fees follows from `Stale`, which is asked once the
market's own feeds were touched. The inductive invariant `IInv` says that times are
numbers wherever they are kept (a scan copies them from the venue's answers), that the
levels of every book have a price above zero and a size, that histories are no longer than
their limit, and that what has moved a probability is in `seen`. The ranges in `TypeOK`
are lemmas about the estimators: the far levels of a side hold no less than none, a
weighted sum of sizes is a natural, and the microprice is an average of the quotes.

`WalksAgree` compares two loops, one that stops after a number of *shares* and one that
stops after an amount of *money*. Walk the book for money with what the shares cost, level
by level beside the other walk: as long as all of a level is bought, both have taken the
same shares at the same cost, and what is left of the money is what the remaining shares
cost (`Agrees`). In the level where the shares end the money ends too, as it pays for
less than the whole level; after it neither takes anything. That the money cannot end
before is `Ends`: whatever is left to buy costs at least a mill for each share. Each step
is `AgreesOn`; that there is a walk to step along is shown by `Iterates`. The order of the
levels does not matter, nor does a level of size zero. The price above zero does, and
`Levels` assumes it of the venue: the parser (discovery/clob.py:22-40) keeps a level at
price zero, which `walk_slippage` would take for nothing and `walk_vwap` skips.

The fold of the news engine over its items and the loop of the scanner are recursive
functions; what they return is shown by least counterexample on the number of items.
`EvaluationAssumption` states the shape of the venue's rows, items and prints, that the
feeds of the configuration exist, that book and fees are critical ones, and that a stale
answer is not a number.

*Backtest.* The property is about the file and the replay works on a stream, so the proof
is in two parts. First, what the stream *tells*: whatever the rows, the accepted events are
those of a set of places of the file (all that can be read, or, sanitized, those that repeat
no earlier row and are overtaken by none), one event for each place, in the order of time and
then of place. Inserting one event into such a sequence keeps it so, and a sanitized row goes
to its end; both loaders are that step repeated. Second, the replay: the inductive invariant
says that nothing has happened before the file is read, that from then on the stream tells
the file, and that the market shows the book of the last quote *passed*. What has been passed
when a decision comes is what the file has before it, which is `NoLookAhead`. `_peek_book`
searches forward by place and stops by time; when the file is in the order of time, the two
agree, which is `FilledAtFillTime` (and why it has that condition). `AccountAgrees` is an
invariant of sums over the trades: a fill adds one trade, and `_close`, an iteration over the
open ones, moves each from what is held to what was made; a fill holds at least a hundredth
of a share and a maker pays no fee. `Reaches`, `Iterates` and least counterexamples take the
place of induction.

*Outputs.* `TablesAgree` says what a reader of the file finds; that it stays true needs
what is still to come. The inductive invariant `TablesInv` reads it from the agenda: while
a trade is under way (`Trading`), the effects that write its rows are owed in the order of
the code (`Ranked`), each entails the later ones (`Debts`), and each table lacks exactly
the row that is owed to it: an order saved whose trade is owed is the one order without a
trade, a trade whose event is owed the one trade without an event. Otherwise (`Resting`)
only the closes of a flatten may be missing, and they come first (`Quiet`). In both cases
the stored events followed by the unsaved ones replay to the ledger of the process, but for
`beside` (`Owing`), so a snapshot, which the code saves after every event of its operation,
is a replay of a prefix but for the `beside` of its time. A drill or a soak lot adds the same
to the ledger's money and to `beside` and touches no lot (`SameBookRoundTrip`): fills and marks
before and after it move the book and the replay alike. A crash drops the agenda; what is left are the clauses of every run
(`Chained`) and of the snapshot, which ask nothing of the memory, and a restart begins a
run of which the tables hold no row. One lemma per operation shows that it begins with the
agenda the invariant asks for, one per effect that it pays what it owed. A close of a
flatten leaves the other positions alone, so rows priced before the flatten replay to the
ledger after it (`FlattenBooks`). `Select`, `ReplayedTo` and `Marked` are recursive
functions; what one more row does to them is shown by least counterexample. `HubInv`, for
the dashboard, says that who copies holds the lock and that the ring keeps its length. The
invariant was checked with TLC on the instance of the `outputs` run before it was proved.

Only model-checked: the liveness properties `ReadersEnd`, `DisconnectRecovers` and
`ReadersCatchUp` (fairness and `ENABLED` are out of the prover's reach), and the four
disagreements, which are counterexamples. Every invariant and every action property of the
passing runs is a theorem. What the numbers of the estimators *are* (a median, a normal
distribution, a score) is not stated: only the ranges and agreements above.

## Not modelled

Shadow and live branches of the pipeline; the news, groups and regimes a soak changes
between its recipes; the disabled mode of the allocator and regimes inside the session; the
history of trips. HTTP
clients, JSON and date parsing, the one-shot pages of the dashboard, metrics, logs,
redaction and the parquet export are input and output. Shadow comparison, rank reports and
offline analytics are statistics over finished trades. The live executor refuses every
call and the live gate is one conjunction of flags. Scenarios, readiness, strategies, the
research client, CLI and configuration are drivers, declarations and command parsing.

Float arithmetic is modelled by its fixed-point form: rounding in the last digit is
outside what the properties tell apart.

## Plan

1. Done: ledger, broker, order lifecycle, allocator, session, feeds, evaluation, backtest,
   store and dashboard; proofs of ledger, broker, allocator, session, feeds, evaluation,
   backtest and outputs.
2. Regimes and changing groups inside the session.
