----------------------------- MODULE RiskLimits -----------------------------
(***************************************************************************)
(* The limits of RiskConfig (config.py) that the allocator and the risk    *)
(* engine both read, and the category each market is in.                   *)
(***************************************************************************)
EXTENDS Integers, FiniteSets

CONSTANTS Category,                \* category of each market
          MaxOrderNotional, MaxMarketExposure, MaxCategoryExposure, MaxTotalExposure,
          MaxCorrelatedExposure, MaxDailyLoss, MaxSessionLoss,
          MaxDrawdownPct,          \* max_drawdown in percent
          MaxOpenOrders, MaxConcurrentMarkets, RunawayRejectCount

Markets == DOMAIN Category

Categories == {Category[m] : m \in Markets}

ASSUME LimitsAssumption ==
  /\ IsFiniteSet(Markets)
  /\ {MaxOrderNotional, MaxMarketExposure, MaxCategoryExposure, MaxTotalExposure,
      MaxCorrelatedExposure, MaxDailyLoss, MaxSessionLoss, MaxDrawdownPct,
      MaxOpenOrders, MaxConcurrentMarkets, RunawayRejectCount} \subseteq Nat

=============================================================================
