--------------------------- MODULE MCCommandRouter ---------------------------
EXTENDS CommandRouter, TLC

CONSTANTS t1, t2

TwoThreads == {t1, t2}

\* A session whose second access response carries a token without exp claim.
SecondIsOpaque == {2}
=============================================================================
