--------------------------- MODULE MCFutureWatch ---------------------------
EXTENDS FutureWatch

\* Pool n is to launch at time n; 1 and 2 together.
Launches == [p \in Pools |-> IF p = 2 THEN 1 ELSE p]
=============================================================================
