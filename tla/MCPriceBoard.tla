---------------------------- MODULE MCPriceBoard ----------------------------
EXTENDS PriceBoard
CONSTANTS e1, e2
=============================================================================
