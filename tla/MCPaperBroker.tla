--------------------------- MODULE MCPaperBroker ---------------------------
(* Orders of three lots, so that a fill can be partial twice; one token, so *)
(* that a sale closes or flips what a purchase opened; a negative fee that  *)
(* the broker reads as none.                                                *)
EXTENDS PaperBroker

MCPrices == {1, 2}
MCSizes == {3}
MCFeesPerShare == {-1, 1}

=============================================================================
