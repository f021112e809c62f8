--------------------------- MODULE MCMarketRetry ---------------------------
EXTENDS MarketRetry

\* Pools are numbers: 1 and 2 were created at 0, 3 a unit later.
Launches == [p \in Pools |-> IF p = 3 THEN 1 ELSE 0]
ByNumber(p, q) == p < q
=============================================================================
