------------------------------ MODULE DailyBook ------------------------------
(***************************************************************************)
(* What the daily results promise: a position that ends is booked once, on     *)
(* one UTC day with one P&L; reconciling a day makes its result the sum of     *)
(* what is booked there, strategy by strategy; a report shows a result.       *)
(* DailyResults implements this module with timestamped rows.                 *)
(***************************************************************************)
EXTENDS Integers, Functions

CONSTANTS
    Ids,            \* the paper positions
    StrategyOf,     \* the strategy version of each
    Days,           \* the UTC days
    PNLs,           \* what a position can have made or lost
    NoReport        \* the report of a day that has none

VARIABLES
    booking,    \* per position: its day and P&L
    result,     \* daily_results: realized_pnl_micros per day and strategy
    report      \* per day: what its report file shows

bookVars == <<booking, result, report>>

Strategies == {StrategyOf[p] : p \in Ids}

\* A position that has not ended is booked on no day.
Running == [day |-> -1, pnl |-> 0]

Init ==
    /\ booking = [p \in Ids |-> Running]
    /\ result = [d \in Days |-> [s \in Strategies |-> 0]]
    /\ report = [d \in Days |-> NoReport]

Booked(d, s) == {p \in Ids : StrategyOf[p] = s /\ booking[p].day = d}

Total(d, s) == SumFunction([p \in Booked(d, s) |-> booking[p].pnl])

Close(p) ==
    /\ booking[p] = Running
    /\ \E b \in [day : Days, pnl : PNLs] : booking' = [booking EXCEPT ![p] = b]
    /\ UNCHANGED <<result, report>>

Reconcile(d) ==
    /\ result' = [result EXCEPT ![d] = [s \in Strategies |-> Total(d, s)]]
    /\ UNCHANGED <<booking, report>>

Publish(d) ==
    /\ report' = [report EXCEPT ![d] = result[d]]
    /\ UNCHANGED <<booking, result>>

Next ==
    \/ \E p \in Ids : Close(p)
    \/ \E d \in Days : Reconcile(d) \/ Publish(d)

Spec == Init /\ [][Next]_bookVars
=============================================================================
