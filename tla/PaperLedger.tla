---------------------------- MODULE PaperLedger ----------------------------
(***************************************************************************)
(* PaperLedger of portfolio/ledger.py: one ledger, its event list and the  *)
(* three operations that append to it (apply_fill, mark, flatten).  The    *)
(* module's promise is its first line: "Equity is replayable from explicit *)
(* events only."                                                           *)
(***************************************************************************)
EXTENDS LedgerRules, SequencesExt

CONSTANTS Prices,      \* prices callers pass (>= 0; a negative one raises)
          Sizes,       \* fill sizes (> 0; anything else raises)
          Fees,        \* fees (>= 0; a negative one raises)
          MaxEvents    \* bound on the event list

ASSUME InputAssumption ==
  /\ Prices \subseteq Nat
  /\ Sizes \subseteq Nat \ {0}
  /\ Fees \subseteq Nat
  /\ MaxEvents \in Nat

VARIABLES ledger,   \* cash, realized_pnl, fees, peak_equity, positions
          events    \* PaperLedger.events

vars == <<ledger, events>>

Kinds == {"FILL", "MARK", "FLATTEN"}

-----------------------------------------------------------------------------
(* Events *)

FillEvent(kind, t, side, size, price, fee, before, after) ==
  [kind |-> kind, token |-> t, side |-> side, size |-> size, price |-> price,
   fee |-> fee, closed |-> ~Adds(before.pos[t], Signed(side, size)),
   realized |-> after.realized - before.realized,
   cash |-> after.cash, equity |-> Equity(after)]

MarkEvent(t, price, after) ==
  [kind |-> "MARK", token |-> t, side |-> "NONE", size |-> 0, price |-> price,
   fee |-> 0, closed |-> FALSE, realized |-> 0,
   cash |-> after.cash, equity |-> Equity(after)]

FlattenEvents(run, order, marks) ==
  [i \in 1..Len(order) |->
     LET t == order[i]
         p == run[i - 1].pos[t]
     IN  FillEvent("FLATTEN", t, CloseSide(p), Abs(p.qty), marks[t], 0,
                   run[i - 1], run[i])]

-----------------------------------------------------------------------------
(* Operations *)

Init ==
  /\ ledger = FreshLedger
  /\ events = <<>>

\* apply_fill()
Fill(t, side, size, price, fee) ==
  LET after == ApplyFill(ledger, t, side, size, price, fee)
  IN  /\ Len(events) < MaxEvents
      /\ ledger' = after
      /\ events' = Append(events, FillEvent("FILL", t, side, size, price, fee, ledger, after))

\* mark()
Mark(t, price) ==
  LET after == ApplyMark(ledger, t, price)
  IN  /\ Len(events) < MaxEvents
      /\ ledger' = after
      /\ events' = Append(events, MarkEvent(t, price, after))

\* flatten(): refused, before anything changes, when an open token has no mark.
\* Positions are visited in the order the dict met them, which no caller fixes.
Flatten(marks) ==
  \E order \in SetToSeqs(OpenTokens(ledger)) :
    LET run == FlattenRun(ledger, order, marks)
    IN  /\ Len(order) \in 1..(MaxEvents - Len(events))
        /\ \A t \in OpenTokens(ledger) : marks[t] # NoMark
        /\ ledger' = run[Len(order)]
        /\ events' = events \o FlattenEvents(run, order, marks)

Next ==
  \/ \E t \in Tokens, side \in Sides, size \in Sizes, price \in Prices, fee \in Fees :
       Fill(t, side, size, price, fee)
  \/ \E t \in Tokens, price \in Prices : Mark(t, price)
  \/ \E marks \in [Tokens -> Prices \cup {NoMark}] : Flatten(marks)

Spec == Init /\ [][Next]_vars

-----------------------------------------------------------------------------
(* Replay: replay_events() *)

\* mutant: the replay drops the recorded fee
ApplyEventWithoutFee(l, e) ==
  IF e.kind = "MARK" THEN ApplyMark(l, e.token, e.price)
  ELSE ApplyFill(l, e.token, e.side, e.size, e.price, 0)

ApplyEvent(l, e) ==
  IF e.kind = "MARK" THEN ApplyMark(l, e.token, e.price)
  ELSE ApplyFill(l, e.token, e.side, e.size, e.price, e.fee)

Replay(evts) ==
  LET at[i \in 0..Len(evts)] ==
        IF i = 0 THEN FreshLedger ELSE ApplyEvent(at[i - 1], evts[i])
  IN  at[Len(evts)]

-----------------------------------------------------------------------------
(* Properties *)

EventType ==
  [kind : Kinds, token : Tokens, side : Sides \cup {"NONE"}, size : Nat, price : Nat,
   fee : Nat, closed : BOOLEAN, realized : Int, cash : Int, equity : Int]

\* The ledger is a ledger record with non-negative costs, fees and peak, a
\* position without lots carries no cost and one with lots has a mark (the
\* pos.qty/avg_cost resets of apply_fill); every event is an event record.
TypeOK ==
  /\ ledger \in LedgerType
  /\ events \in Seq(EventType)
  /\ \A t \in Tokens : ledger.pos[t].qty = 0 => ledger.pos[t].cost = 0
  /\ \A t \in Tokens : ledger.pos[t].qty # 0 => ledger.pos[t].mark # NoMark

\* Fees paid by fills that opened or added: apply_fill charges them to cash
\* and to `fees` but never to realized_pnl.
OpeningFees ==
  SumUpTo([i \in 1..Len(events) |-> IF events[i].closed THEN 0 ELSE events[i].fee], Len(events))

\* Double entry: whatever was bought, added to, partly closed, flipped through
\* zero or flattened, cash plus the cost of what is held is the starting cash
\* plus realized P&L less the fees of opening fills.  No lot is paid for twice
\* or sold without leaving the book.
CashIdentity ==
  ledger.cash + BookValue(ledger) = StartingCash + ledger.realized - OpeningFees

\* "Equity is replayable from explicit events only": replay_events on the
\* recorded list rebuilds cash, realized P&L, fees, peak and every position.
ReplayExact == Replay(events) = ledger

\* peak_equity is the high-water mark of the starting cash and of equity_after
\* of every event, the intermediate closes of a flatten included: the drawdown
\* the risk engine reads is measured from it.
PeakIsHighWater ==
  ledger.peak = Max({StartingCash} \cup {events[i].equity : i \in DOMAIN events})

\* No operation creates value: after any fill, mark or flatten, equity is the
\* old cash plus the lots held before the operation at the new marks, less the
\* fees charged by it.
EquityMovesByMarksAndFees ==
  [][Equity(ledger') = ledger.cash - (ledger'.fees - ledger.fees)
       + SumUpTo([t \in Tokens |-> IF ledger.pos[t].qty = 0 THEN 0
                                   ELSE ledger.pos[t].qty * ledger'.pos[t].mark], NumTokens)]_vars

\* A flatten is all or nothing: when its closing events are the last thing
\* recorded, no lot is left in either direction and equity is all cash.
FlattenLeavesNothingOpen ==
  (events # <<>> /\ Last(events).kind = "FLATTEN")
    => \A t \in Tokens : ledger.pos[t].qty = 0 /\ Equity(ledger) = ledger.cash

=============================================================================
