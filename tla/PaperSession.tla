---------------------------- MODULE PaperSession ----------------------------
(***************************************************************************)
(* A paper session: PaperSession.run_markets and flatten (session.py)      *)
(* around PaperPipeline.evaluate_markets (pipeline.py), with the ledger,   *)
(* the order table, the risk engine and the kill switch they share.        *)
(*                                                                         *)
(* A cycle scores every market, allocates once for the batch, commits the  *)
(* candidates in turn and then marks every market.  Each step handles one  *)
(* market, so that what one market's step does to the shared state is seen *)
(* by the steps of the markets after it.  Beside the cycles, evaluate_market *)
(* is called for a single market, and the kill drill and the soaks          *)
(* (long_soak.py, mixed_soak.py) trade and reset around the pipeline.       *)
(***************************************************************************)
EXTENDS RiskRules, OrderRules, AllocatorRules

CONSTANTS MaxOrders,      \* bound on orders: a commit needs a free slot
          MaxCycles,      \* bound on calls that trade: cycles, single evaluations, round trips
          MaxBatch,       \* bound on the markets of one call
          Prices,         \* ask prices met while scoring
          MarkPrices,     \* mids met while marking
          SharesWanted,   \* intended shares after sizing
          MinSize,        \* order_min_size
          FillPct,        \* paper_fill_ratio in percent
          PracticeToken,  \* stands for the token each round trip has of its own
          LotSizes,       \* lots of a round trip
          FeePerShare     \* edge.fee_per_share

ASSUME SessionAssumption ==
  /\ MaxOrders \in Nat /\ MaxCycles \in Nat /\ MaxBatch \in Nat /\ MinSize \in Nat /\ FeePerShare \in Nat
  /\ Prices \subseteq Nat \ {0} /\ MarkPrices \subseteq Nat /\ SharesWanted \subseteq Nat \ {0}
  /\ FillPct \in 1..100 /\ LotSizes \subseteq Nat \ {0}
  /\ PracticeToken \in Tokens \ Markets

VARIABLES ledger,   \* the PaperLedger pipeline, broker and session share
          orders,   \* PaperBroker.orders
          risk,     \* RiskEngine.state
          exposure, \* PaperPipeline.exposure: what each market was bought for
          kill,     \* KillSwitchBoard: the active reason, or "NONE"
          marks,    \* PaperSession.marks
          batch,    \* the running evaluate_market / run_markets call
          cycles,   \* calls so far
          settled   \* history: the orders a soak has left behind with its last reset

vars == <<ledger, orders, risk, exposure, kill, marks, batch, cycles, settled>>

Cids == 1..MaxOrders

NoBatch == [phase |-> "idle", todo |-> <<>>, markets |-> <<>>, rows |-> <<>>]

\* evaluate_market is a batch of one that no session marks afterwards
Call(todo, markets) == [phase |-> "scoring", todo |-> todo, markets |-> markets, rows |-> <<>>]

Known(c) == orders[c].status # "NONE"

FreeCids == {c \in Cids : ~Known(c)}

\* the statuses _commit_prepared counts as open
Working(os) == {c \in Cids : os[c].status \in {"SUBMITTED", "ACKNOWLEDGED", "PARTIAL"}}

-----------------------------------------------------------------------------
Init ==
  /\ ledger = FreshLedger
  /\ orders = [c \in Cids |-> Absent]
  /\ risk = SyncFromLedger(EmptyRisk, FreshLedger)
  /\ exposure = [m \in Markets |-> NotOpen]
  /\ kill = "NONE"
  /\ marks = [t \in Tokens |-> NoMark]
  /\ batch = NoBatch
  /\ cycles = 0
  /\ settled = {}

\* one more call
Calls ==
  /\ batch.phase = "idle" /\ cycles < MaxCycles
  /\ cycles' = cycles + 1
  /\ UNCHANGED <<orders, exposure, settled>>

\* run_markets() is called with some markets
StartCycle(markets) ==
  /\ Calls
  /\ batch' = Call(markets, markets)
  /\ UNCHANGED <<ledger, risk, kill, marks>>

\* evaluate_market() is called with one
StartSingle(m) ==
  /\ Calls
  /\ batch' = Call(<<m>>, <<>>)
  /\ UNCHANGED <<ledger, risk, kill, marks>>

-----------------------------------------------------------------------------
(* Scoring: _evaluate_market(dry_run=True) *)

Scored == [batch EXCEPT !.todo = Tail(@)]

\* broker.cancel_open()
Swept == [c \in Cids |-> IF orders[c].status \in Sweepable THEN Cancelled(orders[c], TRUE) ELSE orders[c]]

\* A critical feed is stale: trip and cancel working orders.
ScoreStale ==
  /\ batch.phase = "scoring" /\ batch.todo # <<>>
  /\ kill' = "STALE_CRITICAL_DATA"
  /\ orders' = Swept
  /\ batch' = Scored
  /\ UNCHANGED <<ledger, risk, exposure, marks, cycles, settled>>

\* Clock skew, a disabled category, unknown resolution or fees, no edge, ...
ScoreFiltered ==
  /\ batch.phase = "scoring" /\ batch.todo # <<>>
  /\ batch' = Scored
  /\ UNCHANGED <<ledger, orders, risk, exposure, kill, marks, cycles, settled>>

\* A candidate.  The kill switch is not looked at here: candidates of a batch that
\* trips it later are still allocated and reach decide.
ScoreCandidate(price, wanted) ==
  LET shares == Lesser(Greater(MinSize, wanted), MaxOrderNotional \div price)
  IN  /\ batch.phase = "scoring" /\ batch.todo # <<>>
      /\ shares > 0
      /\ batch' = [Scored EXCEPT !.rows =
                     Append(@, [market |-> Head(batch.todo), price |-> price,
                                shares |-> shares, taken |-> FALSE])]
      /\ UNCHANGED <<ledger, orders, risk, exposure, kill, marks, cycles, settled>>

-----------------------------------------------------------------------------
(* Allocation: PortfolioAllocator.allocate over the whole batch, in an order *)
(* that the scores decide.  Regimes are not detected in this module.         *)

Intended(row) == row.shares * row.price

CandidateOf(row) == [market |-> row.market, intended |-> Intended(row), labels |-> {}]

\* _apply_allocation: a downsized row is resized, but never below the minimum size
FinalShares(row, allocated) ==
  IF allocated >= Intended(row) THEN row.shares
  ELSE Lesser(Greater(MinSize, allocated \div row.price), MaxOrderNotional \div row.price)

Allocate ==
  /\ batch.phase = "scoring" /\ batch.todo = <<>>
  /\ \E ranked \in SetToSeqs(DOMAIN batch.rows) :
       LET rows      == batch.rows
           given     == Exposures(exposure, risk.category, risk.total, risk.concurrent)
           allocated == AllocateAll(given, [k \in DOMAIN ranked |-> CandidateOf(rows[ranked[k]])])
           mine(i)   == allocated[CHOOSE k \in DOMAIN ranked : ranked[k] = i]
       IN  batch' = [batch EXCEPT !.phase = "committing",
                       !.rows = [i \in DOMAIN rows |->
                          [rows[i] EXCEPT !.taken = mine(i) > 0,
                             !.shares = IF mine(i) > 0 THEN FinalShares(rows[i], mine(i)) ELSE 0]]]
  /\ UNCHANGED <<ledger, orders, risk, exposure, kill, marks, cycles, settled>>

-----------------------------------------------------------------------------
(* Commit: _commit_prepared for the first candidate left *)

Committed == [batch EXCEPT !.rows = Tail(@)]

Notional(row) == Lesser(row.shares * row.price, MaxOrderNotional)

CommitSkip ==
  /\ batch.phase = "committing" /\ batch.rows # <<>>
  /\ ~Head(batch.rows).taken
  /\ batch' = Committed
  /\ UNCHANGED <<ledger, orders, risk, exposure, kill, marks, cycles, settled>>

\* refused by decide: note_reject, which may trip the switch
CommitVeto(dataOk) ==
  LET row == Head(batch.rows)
  IN  /\ batch.phase = "committing" /\ batch.rows # <<>>
      /\ row.taken
      /\ ~Allows(risk, kill, row.market, Notional(row), dataOk)
      /\ risk' = [risk EXCEPT !.rejects = @ + 1]
      /\ kill' = KillAfterVeto(risk, kill, row.market, Notional(row))
      /\ batch' = Committed
      /\ UNCHANGED <<ledger, orders, exposure, marks, cycles, settled>>

\* lots simulate_fill fills at once: paper_fill_ratio of the order, in whole lots
FilledLots(shares) == (shares * FillPct) \div 100

\* mutant: open orders are counted before the new order joins them
RecountBeforeSubmit(after) == Cardinality(Working(orders))

Recount(after) == Cardinality(Working(after))

\* allowed by decide: create, submit, simulate_fill, then the books of the risk engine
CommitTrade(dataOk) ==
  LET row    == Head(batch.rows)
      m      == row.market
      lots   == FilledLots(row.shares)
      order  == [NewOrder(m, "BUY", row.price, row.shares) EXCEPT !.status = "ACKNOWLEDGED"]
      cid    == CHOOSE c \in FreeCids : \A d \in FreeCids : c <= d
  IN  /\ batch.phase = "committing" /\ batch.rows # <<>>
      /\ row.taken
      /\ FreeCids # {}
      /\ Allows(risk, kill, m, Notional(row), dataOk)
      /\ orders' = [orders EXCEPT ![cid] = IF lots > 0 THEN Filled(order, lots) ELSE order]
      /\ ledger' = IF lots > 0 THEN ApplyFill(ledger, m, "BUY", lots, row.price, lots * FeePerShare)
                   ELSE ledger
      /\ risk' = SyncFromLedger(
                   NoteFill([risk EXCEPT !.openOrders = Recount(orders')],
                            m, lots * row.price, ledger'.realized - ledger.realized),
                   ledger')
      /\ exposure' = [exposure EXCEPT ![m].notional = @ + lots * row.price]
      /\ kill' = EnforceSessionLimits(kill, risk')
      /\ batch' = Committed
      /\ UNCHANGED <<marks, cycles, settled>>

CommitsDone ==
  /\ batch.phase = "committing" /\ batch.rows = <<>>
  /\ batch' = IF batch.markets = <<>> THEN NoBatch
              ELSE [batch EXCEPT !.phase = "marking", !.todo = batch.markets]
  /\ UNCHANGED <<ledger, orders, risk, exposure, kill, marks, cycles, settled>>

-----------------------------------------------------------------------------
(* Marking: _remember_marks for the first market left.  The ledger moves;   *)
(* the risk engine is not told.                                             *)

Marked ==
  IF Len(batch.todo) = 1 THEN NoBatch ELSE [batch EXCEPT !.todo = Tail(@)]

RememberMark(price) ==
  LET t == Head(batch.todo)
  IN  /\ batch.phase = "marking"
      /\ marks' = [marks EXCEPT ![t] = price]
      /\ ledger' = ApplyMark(ledger, t, price)
      /\ batch' = Marked
      /\ UNCHANGED <<orders, risk, exposure, kill, cycles, settled>>

-----------------------------------------------------------------------------
(* Between cycles *)

\* what ends with a sync of the risk engine and its session limits
Tells(l) ==
  /\ ledger' = l
  /\ risk' = SyncFromLedger(risk, l)
  /\ kill' = EnforceSessionLimits(kill, risk')

\* ledger.flatten(marks): refused when an open token has no mark
Flattened ==
  IF \E t \in OpenTokens(ledger) : marks[t] = NoMark THEN {}
  ELSE {FlattenRun(ledger, order, marks)[Len(order)] : order \in SetToSeqs(OpenTokens(ledger))}

Flatten ==
  /\ batch.phase = "idle"
  /\ \E flat \in Flattened : Tells(flat)
  /\ UNCHANGED <<orders, exposure, marks, batch, cycles, settled>>

\* run_mixed_paper_soak between two recipes: flatten(), then _reset_flat_risk()
EndRecipe ==
  /\ batch.phase = "idle"
  /\ \E flat \in Flattened :
       /\ ledger' = flat
       /\ risk' = ResetFlatRisk(SyncFromLedger(risk, flat), flat)
       /\ kill' = EnforceSessionLimits(kill, SyncFromLedger(risk, flat))
  /\ exposure' = [m \in Markets |-> NotOpen]
  /\ orders' = Swept
  /\ settled' = {c \in Cids : Known(c)}
  /\ UNCHANGED <<marks, batch, cycles>>

\* A purchase, marks, and the sale of all of it, booked beside the pipeline under a
\* token of its own.
RoundTrip(size, open, path, close) ==
  LET bought == ApplyFill(ledger, PracticeToken, "BUY", size, open, 0)
      moved[i \in 0..Len(path)] ==
        IF i = 0 THEN bought ELSE ApplyMark(moved[i - 1], PracticeToken, path[i])
  IN  [ApplyFill(moved[Len(path)], PracticeToken, "SELL", size, close, 0)
         EXCEPT !.pos[PracticeToken] = EmptyPosition]

\* one lot of run_labeled_long_soak, which stops when the switch has tripped
SoakLot(size, open, adverse, favorable, close) ==
  /\ kill = "NONE"
  /\ Calls
  /\ Tells(RoundTrip(size, open, <<adverse, favorable>>, close))
  /\ UNCHANGED <<marks, batch>>

\* run_kill_recovery_drill: a round trip that should lose, then a market that should be
\* refused is evaluated; the operator's reset, if any, is Reset
KillDrill(size, open, close, probe) ==
  /\ Calls
  /\ Tells(RoundTrip(size, open, <<>>, close))
  /\ batch' = Call(<<probe>>, <<>>)
  /\ UNCHANGED marks

\* check_external_positions() with a view that differs from the ledger
PositionMismatch ==
  /\ batch.phase = "idle"
  /\ kill' = "POSITION_MISMATCH"
  /\ UNCHANGED <<ledger, orders, risk, exposure, marks, batch, cycles, settled>>

\* KillSwitchBoard.reset(acknowledge=...) by an operator; a blank one raises
Reset ==
  /\ batch.phase = "idle"
  /\ kill # "NONE"
  /\ kill' = "NONE"
  /\ UNCHANGED <<ledger, orders, risk, exposure, marks, batch, cycles, settled>>

Next ==
  \/ \E n \in 1..MaxBatch : \E S \in kSubset(n, Markets) :
       \E markets \in SetToSeqs(S) : StartCycle(markets)
  \/ \E m \in Markets : StartSingle(m)
  \/ ScoreStale
  \/ ScoreFiltered
  \/ \E price \in Prices, wanted \in SharesWanted : ScoreCandidate(price, wanted)
  \/ Allocate
  \/ CommitSkip
  \/ \E dataOk \in BOOLEAN : CommitVeto(dataOk) \/ CommitTrade(dataOk)
  \/ CommitsDone
  \/ \E price \in MarkPrices : RememberMark(price)
  \/ Flatten
  \/ EndRecipe
  \/ \E size \in LotSizes, open \in Prices, close \in MarkPrices :
       \/ \E adverse, favorable \in MarkPrices :
            adverse < open /\ open < favorable /\ SoakLot(size, open, adverse, favorable, close)
       \/ \E probe \in Markets : KillDrill(size, open, close, probe)
  \/ PositionMismatch
  \/ Reset

Spec == Init /\ [][Next]_vars

-----------------------------------------------------------------------------
(* Properties *)

Row == [market : Markets, price : Nat, shares : Nat, taken : BOOLEAN]

SessionOrder ==
  [status : {"NONE", "ACKNOWLEDGED", "PARTIAL", "FILLED", "CANCELLED"}, token : Tokens,
   side : {"BUY"}, price : Nat, size : Nat, filled : Nat, reason : {"NONE"}]

\* Every variable holds what its part of the session keeps; the pipeline never
\* leaves an order CREATED, SUBMITTED or CANCEL_REQUESTED, and never sells.
TypeOK ==
  /\ ledger \in LedgerType
  /\ orders \in [Cids -> SessionOrder]
  /\ risk \in RiskType
  /\ exposure \in [Markets -> [notional : Nat, labels : {{}}]]
  /\ kill \in KillReasons \cup {"NONE"}
  /\ marks \in [Tokens -> Nat \cup {NoMark}]
  /\ batch.phase \in {"idle", "scoring", "committing", "marking"}
  /\ batch.todo \in Seq(Markets) /\ batch.markets \in Seq(Markets) /\ batch.rows \in Seq(Row)
  /\ cycles \in 0..MaxCycles
  /\ settled \subseteq Cids

\* A tripped switch blocks new orders: nothing is created or filled by a step that
\* starts tripped, also when the trip came from a later market of the same batch,
\* after this candidate had been scored and allocated.
NoOrderWhileTripped ==
  [][kill # "NONE" => \A c \in Cids : /\ orders[c].status = "NONE" => orders'[c].status = "NONE"
                                      /\ orders'[c].filled = orders[c].filled]_vars

\* max_open_orders holds of the orders themselves, though the engine only compares
\* a count refreshed by the last trade: cancels make the count too high, never too low.
OpenOrdersCapped ==
  Cardinality(Working(orders)) <= risk.openOrders /\ risk.openOrders <= MaxOpenOrders

\* Category exposure is every purchase made in the category since the session began or
\* a soak reset it: it equals what the order table says was bought and what the exposure
\* book has, covers the cost of what is still held, and never exceeds its cap, however
\* batches, downsizing, the lift to the minimum size, marks, flattens and resets interleave.
Bought(g) ==
  SumUpTo([c \in Cids |-> IF c \notin settled /\ Category[orders[c].token] = g
                          THEN orders[c].filled * orders[c].price ELSE 0], MaxOrders)

Held(g) ==
  SumUpTo([t \in Tokens |-> IF t \in Markets /\ Category[t] = g THEN ledger.pos[t].cost ELSE 0], NumTokens)

CategoryCountsEveryPurchase ==
  \A g \in Categories : /\ risk.category[g] = Bought(g)
                        /\ risk.category[g] = NotionalOf(exposure, {m \in Markets : Category[m] = g})
                        /\ Held(g) <= risk.category[g]
                        /\ risk.category[g] <= MaxCategoryExposure

\* Every market with an open position or a working order is counted as concurrent
\* and the count never exceeds max_concurrent_markets.
ConcurrentMarketsCapped ==
  /\ OpenTokens(ledger) \cup {orders[c].token : c \in Working(orders)} \subseteq risk.concurrent
  /\ Cardinality(risk.concurrent) <= MaxConcurrentMarkets

\* an order was created and filled
Traded == \E c \in Cids : ~Known(c) /\ orders'[c].filled > 0

\* The engine's daily P&L is the realized P&L of the ledger after every step, marks
\* and flattens included, so no order is accepted once the realized loss reaches
\* max_daily_loss, even after an operator reset the switch that tripped on it.
LossStopsTrading ==
  [][/\ risk'.daily = ledger'.realized
     /\ Traded => ledger.realized > -MaxDailyLoss]_vars

\* When a step that told the risk engine about the ledger ends, a breach the engine
\* can see has tripped the switch.
BreachTrips ==
  [][(risk'.equity # risk.equity \/ risk'.daily # risk.daily)
       /\ (LossBreached(risk') \/ DrawdownBreached(risk')) => kill' # "NONE"]_vars

-----------------------------------------------------------------------------
(* What the documents say of the session *)

\* docs/risk.md: "On trip: block new orders -> cancel when safe".  Paper orders are
\* always safe to cancel.
TripCancelsWorkingOrders ==
  (batch.phase = "idle" /\ kill # "NONE") => Working(orders) = {}

\* docs/risk.md, limits: "max order / market / category / correlated / total exposure":
\* no market's position costs more than max_market_exposure.
MarketExposureCapped ==
  \A t \in Tokens : ledger.pos[t].cost <= MaxMarketExposure

\* docs/risk.md, portfolio: "max_correlated_exposure (backstop on the summed correlated
\* bucket)": what the exposure book sums up in a group is within the group's cap.
GroupExposureCapped ==
  \A g \in Groups, m \in Markets :
    NotionalOf(exposure, {n \in OpenMarkets(exposure) : SameBucket(m, n, g)}) <= g.cap
=============================================================================
