----------------------------- MODULE RiskRules -----------------------------
(***************************************************************************)
(* RiskState and RiskEngine of risk/engine.py as operators on a risk       *)
(* record.  Every market trades one token (token_ids[0]) with its own id,  *)
(* so a market and its token share a number; market_exposure is one dict   *)
(* in the code but is written under market ids by note_fill and under      *)
(* token ids by sync_from_ledger, so the record keeps the two parts of it. *)
(***************************************************************************)
EXTENDS LedgerRules, RiskLimits

\* a token may also be traded beside the markets, by a drill or a soak
ASSUME MarketAssumption == Markets \subseteq Tokens

KillReasons == {"STALE_CRITICAL_DATA", "POSITION_MISMATCH", "RUNAWAY_REJECTS",
                "DAILY_LOSS_EXCEEDED", "DRAWDOWN_EXCEEDED"}

EmptyRisk ==
  [byMarket |-> [m \in Markets |-> 0], byToken |-> [t \in Tokens |-> 0],
   category |-> [g \in Categories |-> 0], total |-> 0,
   daily |-> 0, session |-> 0, peak |-> 0, equity |-> 0,
   openOrders |-> 0, concurrent |-> {}, rejects |-> 0,
   lastNotional |-> 0, lastWasLoss |-> FALSE]

RiskType ==
  [byMarket : [Markets -> Nat], byToken : [Tokens -> Nat], category : [Categories -> Nat],
   total : Nat, daily : Int, session : Int, peak : Nat, equity : Int,
   openOrders : Nat, concurrent : SUBSET Markets, rejects : Nat,
   lastNotional : Nat, lastWasLoss : BOOLEAN]

-----------------------------------------------------------------------------
(* note_fill and sync_from_ledger *)

\* mutant: a fill forgets to count the market as concurrently held
NoteFillWithoutMarket(r, m, notional, pnl) ==
  [r EXCEPT !.rejects = 0, !.byMarket[m] = @ + notional, !.category[Category[m]] = @ + notional,
            !.total = @ + notional, !.session = @ + pnl, !.daily = @ + pnl, !.equity = @ + pnl,
            !.peak = Greater(@, r.equity + pnl),
            !.lastNotional = notional, !.lastWasLoss = pnl < 0]

\* mutant: category exposure is overwritten by the last fill
NoteFillReplacingCategory(r, m, notional, pnl) ==
  [NoteFillWithoutMarket(r, m, notional, pnl)
     EXCEPT !.concurrent = @ \cup {m}, !.category[Category[m]] = notional]

NoteFill(r, m, notional, pnl) ==
  [r EXCEPT !.rejects = 0, !.byMarket[m] = @ + notional, !.category[Category[m]] = @ + notional,
            !.total = @ + notional, !.session = @ + pnl, !.daily = @ + pnl, !.equity = @ + pnl,
            !.peak = Greater(@, r.equity + pnl), !.concurrent = @ \cup {m},
            !.lastNotional = notional, !.lastWasLoss = pnl < 0]

\* |qty| * (mark or avg_cost): a mark of zero reads as no mark
Exposure(p) == IF p.mark > 0 THEN Abs(p.qty) * p.mark ELSE p.cost

\* mutant: the daily P&L is taken from equity, not from what was realized
SyncFromLedgerUnrealized(r, l) ==
  [r EXCEPT !.equity = Equity(l), !.peak = l.peak,
            !.session = Equity(l) - StartingCash, !.daily = Equity(l) - StartingCash]

\* Exposures are replaced only while something is held.
SyncFromLedger(r, l) ==
  LET copied  == [r EXCEPT !.equity = Equity(l), !.peak = l.peak,
                           !.session = Equity(l) - StartingCash, !.daily = l.realized]
      byToken == [t \in Tokens |-> IF l.pos[t].qty = 0 THEN 0 ELSE Exposure(l.pos[t])]
  IN  IF OpenTokens(l) = {} THEN copied
      ELSE [copied EXCEPT !.byToken = byToken,
                          !.byMarket = [m \in Markets |-> 0],
                          !.total = SumUpTo(byToken, NumTokens)]

\* _reset_flat_risk of the mixed soak: the books of a flat session, not its P&L
ResetFlatRisk(r, l) ==
  IF OpenTokens(l) # {} THEN r
  ELSE [r EXCEPT !.byMarket = [m \in Markets |-> 0], !.byToken = [t \in Tokens |-> 0],
                 !.category = [g \in Categories |-> 0], !.total = 0,
                 !.concurrent = {}, !.openOrders = 0, !.rejects = 0]

-----------------------------------------------------------------------------
(* Loss limits *)

LossBreached(r) == r.daily <= -MaxDailyLoss \/ r.session <= -MaxSessionLoss

DrawdownBreached(r) == r.peak > 0 /\ (r.peak - r.equity) * 100 >= MaxDrawdownPct * r.peak

\* mutant: the drawdown is only looked at when the next order is decided
EnforceLossOnly(kill, r) == IF LossBreached(r) THEN "DAILY_LOSS_EXCEEDED" ELSE kill

\* enforce_session_limits: the kill reason after it
EnforceSessionLimits(kill, r) ==
  IF LossBreached(r) THEN "DAILY_LOSS_EXCEEDED"
  ELSE IF DrawdownBreached(r) THEN "DRAWDOWN_EXCEEDED"
  ELSE kill

-----------------------------------------------------------------------------
(* decide: the checks in the order of the code.  A drawdown found on the   *)
(* way trips the switch; every other refusal only vetoes.                  *)

Martingale(r, notional) == r.lastWasLoss /\ notional > r.lastNotional

WithinLimitsBeforeDrawdown(r, m, notional) ==
  /\ ~Martingale(r, notional)
  /\ notional <= MaxOrderNotional
  /\ r.byMarket[m] + notional <= MaxMarketExposure
  /\ r.category[Category[m]] + notional <= MaxCategoryExposure
  /\ r.total + notional <= MaxTotalExposure
  /\ ~LossBreached(r)

WithinLimitsAfterDrawdown(r, m, notional) ==
  /\ r.openOrders < MaxOpenOrders
  /\ m \in r.concurrent \/ Cardinality(r.concurrent) < MaxConcurrentMarkets
  /\ m \in r.concurrent \/ r.category[Category[m]] + notional <= MaxCorrelatedExposure

\* mutant: the decision does not look at the kill switch
AllowsWhileTripped(r, kill, m, notional, dataOk) ==
  /\ WithinLimitsBeforeDrawdown(r, m, notional)
  /\ ~DrawdownBreached(r)
  /\ WithinLimitsAfterDrawdown(r, m, notional)
  /\ dataOk

\* dataOk stands for confidence, spread, depth, impact, slippage, data age and
\* latency, which the model does not keep.
Allows(r, kill, m, notional, dataOk) ==
  /\ kill = "NONE"
  /\ WithinLimitsBeforeDrawdown(r, m, notional)
  /\ ~DrawdownBreached(r)
  /\ WithinLimitsAfterDrawdown(r, m, notional)
  /\ dataOk

\* The kill reason after decide and, when it refused, note_reject.
KillAfterVeto(r, kill, m, notional) ==
  IF r.rejects + 1 >= RunawayRejectCount THEN "RUNAWAY_REJECTS"
  ELSE IF kill = "NONE" /\ WithinLimitsBeforeDrawdown(r, m, notional) /\ DrawdownBreached(r)
       THEN "DRAWDOWN_EXCEEDED"
  ELSE kill

=============================================================================
