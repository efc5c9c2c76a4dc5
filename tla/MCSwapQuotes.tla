---------------------------- MODULE MCSwapQuotes ----------------------------
EXTENDS SwapQuotes
CONSTANTS r1, r2, r3, q1, q2, a1, a2
=============================================================================
