---------------------------- MODULE LedgerRules ----------------------------
(***************************************************************************)
(* The arithmetic of portfolio/ledger.py as operators on a ledger record.  *)
(* PaperLedger makes a state machine of them; the broker and the session   *)
(* apply them to the ledger they share.                                    *)
(*                                                                         *)
(* Money and shares are integers (ticks and lots).  The code keeps an      *)
(* average cost per share; the record keeps cost = |qty| * avg_cost, which *)
(* is exact under adding and flipping.  A partial close releases the share *)
(* of the cost that belongs to the closed lots, rounded down to a tick     *)
(* where the code divides floats.                                          *)
(***************************************************************************)
EXTENDS PrefixSums, Sequences

CONSTANTS NumTokens,     \* outcome tokens the ledger may hold
          StartingCash   \* trading.paper_starting_cash

ASSUME LedgerAssumption ==
  /\ NumTokens \in Nat \ {0}
  /\ StartingCash \in Nat

Tokens == 1..NumTokens

NoMark == -1

Sides == {"BUY", "SELL"}

EmptyPosition == [qty |-> 0, cost |-> 0, mark |-> NoMark]

FreshLedger ==
  [cash |-> StartingCash, realized |-> 0, fees |-> 0, peak |-> StartingCash,
   pos |-> [t \in Tokens |-> EmptyPosition]]

Positions == [qty : Int, cost : Nat, mark : Nat \cup {NoMark}]

LedgerType ==
  [cash : Int, realized : Int, fees : Nat, peak : Nat, pos : [Tokens -> Positions]]

-----------------------------------------------------------------------------
(* Valuation *)

\* qty * avg_cost
Book(p) == IF p.qty < 0 THEN -p.cost ELSE p.cost

\* qty * mark, or at cost while the token was never marked
Worth(p) == IF p.mark = NoMark THEN Book(p) ELSE p.qty * p.mark

BookValue(l) == SumUpTo([t \in Tokens |-> Book(l.pos[t])], NumTokens)

Equity(l) == l.cash + SumUpTo([t \in Tokens |-> Worth(l.pos[t])], NumTokens)

\* mutant: only long positions count as open
OpenTokensLongOnly(l) == {t \in Tokens : l.pos[t].qty > 0}

OpenTokens(l) == {t \in Tokens : l.pos[t].qty # 0}

-----------------------------------------------------------------------------
(* A fill of s signed lots against position p *)

Signed(side, size) == IF side = "BUY" THEN size ELSE -size

\* The fill opens or adds; otherwise it closes, and what is left over flips.
Adds(p, s) == p.qty * s >= 0

Closing(p, s) == Lesser(Abs(s), Abs(p.qty))

Released(p, s) == (p.cost * Closing(p, s)) \div Abs(p.qty)

\* mutant: the fee of a closing fill is taken out of the realized P&L twice
RealizedFeeTwice(p, s, price, fee) ==
  IF Adds(p, s) THEN -fee
  ELSE (IF p.qty > 0 THEN price * Closing(p, s) - Released(p, s)
                     ELSE Released(p, s) - price * Closing(p, s)) - 2 * fee

Realized(p, s, price, fee) ==
  IF Adds(p, s) THEN 0
  ELSE (IF p.qty > 0 THEN price * Closing(p, s) - Released(p, s)
                     ELSE Released(p, s) - price * Closing(p, s)) - fee

\* mutant: the close is taken out of the cost at the fill price
FilledPositionAtPrice(p, s, price) ==
  [qty  |-> p.qty + s,
   cost |-> IF Adds(p, s) THEN p.cost + Abs(s) * price
            ELSE p.cost - price * Closing(p, s),
   mark |-> price]

FilledPosition(p, s, price) ==
  [qty  |-> p.qty + s,
   cost |-> IF Adds(p, s) THEN p.cost + Abs(s) * price
            ELSE IF Abs(s) > Abs(p.qty) THEN (Abs(s) - Abs(p.qty)) * price
            ELSE p.cost - Released(p, s),
   mark |-> price]

\* mutant: only sales are charged the fee
CashDeltaFeeOnSaleOnly(s, price, fee) ==
  IF s > 0 THEN -(s * price) ELSE -(s * price) - fee

CashDelta(s, price, fee) == -(s * price) - fee

-----------------------------------------------------------------------------
(* The two ledger operations; both end in _commit, which raises the peak *)

\* mutant: the peak follows equity down
WithLastEquityAsPeak(l) == [l EXCEPT !.peak = Equity(l)]

WithPeak(l) == [l EXCEPT !.peak = Greater(@, Equity(l))]

ApplyFill(l, t, side, size, price, fee) ==
  LET s == Signed(side, size)
      p == l.pos[t]
  IN  WithPeak([cash     |-> l.cash + CashDelta(s, price, fee),
                realized |-> l.realized + Realized(p, s, price, fee),
                fees     |-> l.fees + fee,
                peak     |-> l.peak,
                pos      |-> [l.pos EXCEPT ![t] = FilledPosition(p, s, price)]])

ApplyMark(l, t, price) ==
  WithPeak([l EXCEPT !.pos[t] = [qty |-> @.qty, cost |-> @.cost, mark |-> price]])

\* One closing fill of flatten(): the whole position, at the caller's mark, no fee.
CloseSide(p) == IF p.qty > 0 THEN "SELL" ELSE "BUY"

CloseOne(l, t, marks) ==
  ApplyFill(l, t, CloseSide(l.pos[t]), Abs(l.pos[t].qty), marks[t], 0)

\* The ledgers flatten() passes through, closing the tokens of `order` in turn.
FlattenRun(l, order, marks) ==
  LET after[i \in 0..Len(order)] ==
        IF i = 0 THEN l ELSE CloseOne(after[i - 1], order[i], marks)
  IN  after

=============================================================================
