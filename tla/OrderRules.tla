----------------------------- MODULE OrderRules -----------------------------
(***************************************************************************)
(* Orders and the order state machine of execution/orders.py as operators  *)
(* on an order record.  The broker and the session apply them to the order *)
(* tables they keep.                                                       *)
(*                                                                         *)
(* Every fill of an order is at the order's own price, so avg_fill_price   *)
(* is that price and is not kept.                                          *)
(***************************************************************************)
EXTENDS PrefixSums

Finished == {"FILLED", "CANCELLED", "REJECTED", "EXPIRED"}

\* the statuses cancel_open looks for
Sweepable == {"CREATED", "SUBMITTED", "ACKNOWLEDGED", "PARTIAL"}

Absent == [status |-> "NONE", token |-> 1, side |-> "BUY", price |-> 0, size |-> 0,
           filled |-> 0, reason |-> "NONE"]

NewOrder(t, side, price, size) ==
  [status |-> "CREATED", token |-> t, side |-> side, price |-> price, size |-> size,
   filled |-> 0, reason |-> "NONE"]

Remaining(o) == o.size - o.filled

\* CREATED and SUBMITTED orders are acknowledged on the way to a fill.
Acknowledged(o) ==
  IF o.status \in {"CREATED", "SUBMITTED"} THEN [o EXCEPT !.status = "ACKNOWLEDGED"] ELSE o

\* mutant: one lot short of the size already counts as filled
FilledByOneLotLess(o, k) ==
  [o EXCEPT !.filled = Lesser(o.size, @ + k),
            !.status = IF o.filled + k + 1 >= o.size THEN "FILLED" ELSE "PARTIAL"]

\* apply_fill() with k > 0 lots on an acknowledged order
Filled(o, k) ==
  [o EXCEPT !.filled = Lesser(o.size, @ + k),
            !.status = IF o.filled + k >= o.size THEN "FILLED" ELSE "PARTIAL"]

\* mutant: a settled cancel is left waiting for an acknowledgement
CancelledUnsettled(o, settle) ==
  [o EXCEPT !.status = IF o.status = "CREATED" THEN "CANCELLED" ELSE "CANCEL_REQUESTED"]

\* request_cancel() on an order that is not finished
Cancelled(o, settle) ==
  [o EXCEPT !.status = IF o.status = "CREATED" \/ settle THEN "CANCELLED" ELSE "CANCEL_REQUESTED"]

=============================================================================
