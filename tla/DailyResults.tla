---------------------------- MODULE DailyResults ----------------------------
(***************************************************************************)
(* How paper P&L reaches the daily report.  Monitor passes mark positions and   *)
(* end them (positions.go), stamping the rows with the clock; a production     *)
(* scan that does not fail ends with Reconcile and a report of its UTC day     *)
(* (automation.go, daily_reporter.go, daily_result_repository.go,             *)
(* daily_json_writer.go).  The jobs run one after another, so nothing is       *)
(* marked while a scan runs.  Reconcile reads a position's terminal return off *)
(* its mark with the latest created_at.                                      *)
(***************************************************************************)
EXTENDS FixedPoint, FiniteSets, Sequences, Functions

CONSTANTS
    Ids,                \* the paper positions
    StrategyOf,         \* strategy_version of each
    Notional,           \* notional_micros of each
    Returns,            \* return_bps an executable quote can yield
    UnsellableReturn,   \* domain.UnsellableReturnBPS
    NoReturn,           \* the null return_bps of a NO_ROUTE mark
    Open,               \* the null closed_at of a position that has not ended
    NoReport,           \* the totals of a day that has no report
    DayLength,
    MaxTime,            \* bound: the clock stops here
    MaxMarks,           \* bound: marks of a position before it is left alone
    MaxSetBacks         \* bound: how often the clock is set back

ASSUME BookAssumption ==
    /\ IsFiniteSet(Ids)
    /\ StrategyOf \in [Ids -> STRING]
    /\ Notional \in [Ids -> Nat \ {0}]
    /\ Returns \subseteq Int /\ UnsellableReturn \in Int
    /\ NoReturn \notin Int /\ Open \notin Nat
    /\ DayLength \in Nat \ {0}
    /\ {MaxTime, MaxMarks, MaxSetBacks} \subseteq Nat

VARIABLES
    marks,      \* position_marks of each position, in commit order
    closedAt,   \* paper_positions.closed_at
    result,     \* daily_results: realized_pnl_micros; no row reads 0
    report,     \* per day: its report file, with the time it was written
    now,        \* the clock
    setBacks,   \* how often it was set back
    job,        \* what the scan is doing
    jobNow      \* the scan's Now

vars == <<marks, closedAt, result, report, now, setBacks, job, jobNow>>
rows == <<marks, closedAt, result, report>>
clock == <<now, setBacks>>
scan == <<job, jobNow>>

Times == 0 .. MaxTime
Day(t) == t \div DayLength
Days == 0 .. Day(MaxTime)
Strategies == {StrategyOf[p] : p \in Ids}
Mark == [at : Times, ret : Returns \union {UnsellableReturn, NoReturn}]
PerStrategy == [Strategies -> Int]
NoFile == [at |-> -1, total |-> NoReport]

TypeOK ==
    /\ marks \in [Ids -> Seq(Mark)]
    /\ closedAt \in [Ids -> Times \union {Open}]
    /\ result \in [Days -> PerStrategy]
    /\ report \in [Days -> [at : Times, total : PerStrategy] \union {NoFile}]
    /\ now \in Times
    /\ setBacks \in 0 .. MaxSetBacks
    /\ job \in {"idle", "scan", "reconcile", "write"}
    /\ jobNow \in Times

Init ==
    /\ marks = [p \in Ids |-> <<>>]
    /\ closedAt = [p \in Ids |-> Open]
    /\ result = [d \in Days |-> [s \in Strategies |-> 0]]
    /\ report = [d \in Days |-> NoFile]
    /\ now = 0
    /\ setBacks = 0
    /\ job = "idle"
    /\ jobNow = 0

-----------------------------------------------------------------------------
(* The clock.                                                               *)

Tick ==
    /\ now < MaxTime
    /\ now' = now + 1
    /\ UNCHANGED <<setBacks, rows, scan>>

SetBack ==
    /\ now > 0
    /\ setBacks < MaxSetBacks
    /\ now' = now - 1
    /\ setBacks' = setBacks + 1
    /\ UNCHANGED <<rows, scan>>

-----------------------------------------------------------------------------
(* A monitor pass: RecordMark and RecordNoRoute; PositionTx has their detail,  *)
(* the streak that makes a missing route terminal among it.  No two passes in  *)
(* a row see the same reading of the clock.                                  *)

FinalMark(p) == marks[p][Len(marks[p])]

\* Mutant: the clock is read ahead.
NextReading == now + 1

\* What repository.now() returns.
Stamp == now

Observe(p, r) ==
    /\ job = "idle"
    /\ closedAt[p] = Open
    /\ marks[p] # <<>> => FinalMark(p).at # now
    /\ marks' = [marks EXCEPT ![p] = Append(@, [at |-> Stamp, ret |-> r])]
    /\ UNCHANGED <<result, report, clock, scan>>

\* The position stays OPEN, with or without a route.
Hold(p) ==
    /\ Len(marks[p]) < MaxMarks
    /\ \E r \in Returns \union {NoReturn} : Observe(p, r)
    /\ UNCHANGED closedAt

\* It is CLOSED, or UNSELLABLE with the return of a total loss.
End(p) ==
    /\ Len(marks[p]) <= MaxMarks
    /\ \E r \in Returns \union {UnsellableReturn} : Observe(p, r)
    /\ closedAt' = [closedAt EXCEPT ![p] = Stamp]

-----------------------------------------------------------------------------
(* The end of a production scan.                                            *)

Idle == job' = "idle" /\ jobNow' = 0

StartScan ==
    /\ job = "idle"
    /\ job' = "scan"
    /\ jobNow' = now
    /\ UNCHANGED <<rows, clock>>

\* The candidates are handled without an error.
ScanDone ==
    /\ job = "scan"
    /\ job' = "reconcile"
    /\ UNCHANGED <<jobNow, rows, clock>>

\* Terminal positions with closed_at in the UTC day.
EndedOn(d) == {p \in Ids : closedAt[p] # Open /\ Day(closedAt[p]) = d}

\* Mutant: the first mark instead of the last.
FirstReturns(p) ==
    {marks[p][i].ret : i \in {j \in DOMAIN marks[p] : \A k \in DOMAIN marks[p] : marks[p][j].at <= marks[p][k].at}}

\* ByCreatedAt descending, First: what equal times leave open is left open here.
LatestReturns(p) ==
    {marks[p][i].ret : i \in {j \in DOMAIN marks[p] : \A k \in DOMAIN marks[p] : marks[p][k].at <= marks[p][j].at}}

\* Mutant: the sum is added to what the day had.
AddedTo(d, s, sum) == result[d][s] + sum

\* A day's row is reset before its sum is taken.
ResetTo(d, s, sum) == sum

PNL(p, r) == RealizedPNL(Notional[p], r)

\* The transaction of Reconcile, for given returns of the positions.
Store(d, ret) ==
    result' = [result EXCEPT ![d] = [s \in Strategies |->
        ResetTo(d, s, SumFunction([p \in {q \in EndedOn(d) : StrategyOf[q] = s} |-> PNL(p, ret[p])]))]]

\* A null return is an error and none of the day is stored.
Reconcile ==
    /\ job = "reconcile"
    /\ LET d == Day(jobNow) IN
       \E ret \in [EndedOn(d) -> Returns \union {UnsellableReturn}] :
         /\ \A p \in EndedOn(d) : ret[p] \in LatestReturns(p)
         /\ Store(d, ret)
    /\ \/ job' = "write" /\ UNCHANGED jobNow
       \/ Idle                  \* the commit is not acknowledged
    /\ UNCHANGED <<marks, closedAt, report, clock>>

\* Mutant: the file is named after the time it is written at.
DayOfWriting == Day(now)

DayOfReport == Day(jobNow)

\* List and Write: the file is replaced whole, by a rename.
WriteReport ==
    /\ job = "write"
    /\ Idle
    /\ report' = [report EXCEPT ![DayOfReport] = [at |-> now, total |-> result[Day(jobNow)]]]
    /\ UNCHANGED <<marks, closedAt, result, clock>>

\* The scan fails, its time is up, or the process restarts.
Abort ==
    /\ job # "idle"
    /\ Idle
    /\ UNCHANGED <<rows, clock>>

Next ==
    \/ Tick \/ SetBack
    \/ \E p \in Ids : Hold(p) \/ End(p)
    \/ StartScan \/ ScanDone \/ Reconcile \/ WriteReport \/ Abort

Spec == Init /\ [][Next]_vars

-----------------------------------------------------------------------------
(* Properties.                                                              *)

\* The marks of every position bear strictly later times, one after another:
\* so it is unless the clock is set back while a position is open.
Ordered ==
    \A p \in Ids : \A i, j \in DOMAIN marks[p] : i < j => marks[p][i].at < marks[p][j].at

\* What a position was booked with when it ended, and what the reports show.
Booking ==
    [p \in Ids |-> IF closedAt[p] = Open THEN [day |-> -1, pnl |-> 0]
                   ELSE [day |-> Day(closedAt[p]), pnl |-> PNL(p, FinalMark(p).ret)]]
Outcomes == {PNL(p, r) : p \in Ids, r \in Returns \union {UnsellableReturn}}
Shown == [d \in Days |-> report[d].total]

Book == INSTANCE DailyBook WITH
    PNLs <- Outcomes,
    booking <- Booking,
    report <- Shown

\* While times are in order the rows behave as module DailyBook says: taking
\* the mark with the latest created_at is taking the one that ended the
\* position, whatever fails, restarts or is done twice.
\* (daily_result_repository.go:61-107)
ImplementsBook == Book!Init /\ [][Ordered' => Book!Next]_(Book!bookVars)

\* The P&L of strategy s from the positions P.
Sum(P, s) == SumFunction([p \in {q \in P : StrategyOf[q] = s} |-> PNL(p, FinalMark(p).ret)])

\* As long as the clock was never set back, a report shows every position that
\* ended on its day before it was written, with the return it ended with, and
\* none that ended later: what a day's last report lacks ended after it.
\* (automation.go:529-540, daily_reporter.go:30-48)
OnlyTheTailIsMissing ==
    setBacks = 0 => \A d \in Days : report[d] # NoFile =>
      \E late \in SUBSET {p \in EndedOn(d) : closedAt[p] = report[d].at} :
        LET shown == {p \in EndedOn(d) : closedAt[p] <= report[d].at} \ late
        IN  \A s \in Strategies : report[d].total[s] = Sum(shown, s)

\* Nobody's terminal return is missing as long as times are in order: then a
\* day can be reconciled at any time.  (daily_result_repository.go:80-85)
TerminalReturnsAreTyped ==
    Ordered => \A p \in Ids : closedAt[p] # Open =>
                 LatestReturns(p) \subseteq Returns \union {UnsellableReturn}
=============================================================================
