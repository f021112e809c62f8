------------------------- MODULE MCPositionMonitor -------------------------
EXTENDS PositionMonitor

CONSTANTS p1, p2, p3

\* Entry cost 100, fees 2: a stop-loss, two that hold, a take-profit.
SoundQuotes == [p \in Ids |-> {82, 102, 152}]

\* p1's market has collapsed: a quote, but worth less than the exit fees.
CollapsedQuotes == [p \in Ids |-> IF p = p1 THEN {2} ELSE {82, 102, 152}]
=============================================================================
