----------------------------- MODULE MCOutputs ------------------------------
\* Two markets, two orders over two runs of the process, one trip and one
\* dashboard.
EXTENDS Outputs

MCLots == {0, 1}
MCPrices == {1}
MCResults == {-1}
=============================================================================
