-------------------------- MODULE MCDailyResults --------------------------
EXTENDS DailyResults

\* Two positions of one strategy and one of another; odd notionals, so that
\* rounding shows.
Versions == [p \in Ids |-> IF p = 3 THEN "v2" ELSE "v1"]
Sizes == [p \in Ids |-> 10 + p]
SomeReturns == {-2500}
TotalLoss == -10000
=============================================================================
