--------------------------- MODULE OrderLifecycle ---------------------------
(***************************************************************************)
(* What an order promises its caller, whatever broker moves it.  An order  *)
(* is created once, with a size that never changes; a call may take it     *)
(* along the LEGAL_TRANSITIONS of execution/orders.py (a call takes up to  *)
(* three of them at once), or fill some of what is left of it; the status  *)
(* tells how much is filled; a terminal status is final.                   *)
(***************************************************************************)
EXTENDS Integers

CONSTANT Cids           \* client order ids

VARIABLE book           \* one [status, size, filled] per client order id

Statuses == {"CREATED", "SUBMITTED", "ACKNOWLEDGED", "PARTIAL", "FILLED",
             "CANCEL_REQUESTED", "CANCELLED", "REJECTED", "EXPIRED"}

Terminal == {"FILLED", "CANCELLED", "REJECTED", "EXPIRED"}

NoOrder == [status |-> "NONE", size |-> 0, filled |-> 0]

\* LEGAL_TRANSITIONS
Legal(status) ==
  CASE status = "CREATED"          -> {"SUBMITTED", "REJECTED", "CANCELLED", "EXPIRED"}
    [] status = "SUBMITTED"        -> {"ACKNOWLEDGED", "REJECTED", "CANCEL_REQUESTED", "EXPIRED"}
    [] status = "ACKNOWLEDGED"     -> {"PARTIAL", "FILLED", "CANCEL_REQUESTED", "CANCELLED", "EXPIRED"}
    [] status = "PARTIAL"          -> {"PARTIAL", "FILLED", "CANCEL_REQUESTED", "CANCELLED", "EXPIRED"}
    [] status = "CANCEL_REQUESTED" -> {"CANCELLED", "FILLED", "PARTIAL"}
    [] OTHER                       -> {}

\* The statuses one to three legal transitions away.
After(S) == S \cup UNION {Legal(s) : s \in S}

Reachable(status) == After(After(Legal(status)))

Orders == [status : Statuses, size : Nat \ {0}, filled : Nat]

-----------------------------------------------------------------------------

Create(old, new) ==
  /\ old = NoOrder
  /\ new.status = "CREATED"
  /\ new.filled = 0

\* Submit, reject, cancel or expire: nothing is filled.
Advance(old, new) ==
  /\ old # NoOrder
  /\ new.status \in Reachable(old.status) \ {"PARTIAL", "FILLED"}
  /\ new.size = old.size
  /\ new.filled = old.filled

\* Fill: more than before, at most the size, and FILLED exactly when complete.
Fill(old, new) ==
  /\ old # NoOrder
  /\ new.status \in Reachable(old.status)
  /\ new.size = old.size
  /\ old.filled < new.filled
  /\ new.filled <= new.size
  /\ new.status = IF new.filled = new.size THEN "FILLED" ELSE "PARTIAL"

Init == book = [c \in Cids |-> NoOrder]

\* One call may advance many orders (cancel_open) but fills at most one.
Next ==
  /\ book' \in [Cids -> Orders \cup {NoOrder}]
  /\ \A c \in Cids : \/ book'[c] = book[c]
                     \/ Create(book[c], book'[c])
                     \/ Advance(book[c], book'[c])
                     \/ Fill(book[c], book'[c])
  /\ \A c, d \in Cids :
       (book'[c].filled # book[c].filled /\ book'[d].filled # book[d].filled) => c = d

Spec == Init /\ [][Next]_book

=============================================================================
