--------------------------- MODULE MCQuoteLogger ---------------------------
EXTENDS QuoteLogger
CONSTANTS x1, x2
=============================================================================
