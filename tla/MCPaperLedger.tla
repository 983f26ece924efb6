--------------------------- MODULE MCPaperLedger ---------------------------
(* Two tokens, prices and sizes that reach partial closes with a cost that  *)
(* does not divide, flips through zero and shorts.                          *)
EXTENDS PaperLedger

MCPrices == {1, 3}
MCSizes == {1, 2}
MCFees == {0, 1}

=============================================================================
