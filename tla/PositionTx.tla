----------------------------- MODULE PositionTx -----------------------------
(***************************************************************************)
(* PositionRepository (internal/adapters/postgres/positions.go): Open,        *)
(* RecordMark and RecordNoRoute as transactions at PostgreSQL's default       *)
(* isolation, READ COMMITTED.  Each statement sees what is committed when it  *)
(* starts, so a row may change between the statement that loads it and the    *)
(* conditional UPDATE that relies on it; the UPDATE's WHERE clause keeps the   *)
(* rows consistent.  From the UPDATE to the commit the row is locked and       *)
(* nothing else is read, so the two are one step here.                       *)
(***************************************************************************)
EXTENDS PositionRows

CONSTANTS
    Writers,      \* goroutines or processes that use the repository
    MaxAttempts,  \* the 3 attempts of RecordNoRoute's loop
    MaxMarks      \* bound: no call to mark a position that has so many marks

ASSUME LimitsAssumption == MaxAttempts \in Nat \ {0} /\ MaxMarks \in Nat

VARIABLES
    position,   \* paper_positions: state and no_route_count
    marks,      \* position_marks of each position, in commit order
    events,     \* position_events of each position, counted by type
    measures,   \* mfe_bps and mae_bps of each mark, beside marks
    pc,         \* the statement a writer is about to run
    local,      \* the writer's arguments and what it has read: see Locals
    answer,     \* what its last call returned
    fills       \* per position, how many calls returned Opened: true

vars == <<position, marks, events, measures, pc, local, answer, fills>>

Statements == {"idle", "load", "marks", "update"}
Answers == {"none", "opened", "recorded", "unchanged", "error"}
Operations == {"Open", "RecordMark", "RecordNoRoute"}

\* A nullable column is the set of its values: none or one.
Measure == [mfe : SUBSET Int, mae : SUBSET Int]

\* op, id, ret, close: the call's arguments (close: a CloseReason is given);
\* attempt: RecordNoRoute's loop variable; row: the position as loaded;
\* prior: the returns of its marks as loaded.
Locals == [op : Operations, id : Ids, ret : Returns \union {NoReturn}, close : BOOLEAN,
           attempt : Nat, row : PositionRow, prior : SUBSET Int]
NoCall == <<>>

TypeOK ==
    /\ position \in [Ids -> PositionRow]
    /\ marks \in [Ids -> Seq(Mark)]
    /\ events \in [Ids -> [PositionStates -> Nat]]
    /\ measures \in [Ids -> Seq(Measure)]
    /\ pc \in [Writers -> Statements]
    /\ local \in [Writers -> Locals \union {NoCall}]
    /\ answer \in [Writers -> Answers]
    /\ fills \in [Ids -> Nat]
    /\ \A w \in Writers : pc[w] # "idle" =>
         /\ local[w] \in Locals
         /\ local[w].attempt < MaxAttempts
         /\ local[w].op = "RecordMark" => local[w].ret \in Returns

Init ==
    /\ position = [p \in Ids |-> Admitted]
    /\ marks = [p \in Ids |-> <<>>]
    /\ events = [p \in Ids |-> AdmittedEvents]
    /\ measures = [p \in Ids |-> <<>>]
    /\ pc = [w \in Writers |-> "idle"]
    /\ local = [w \in Writers |-> NoCall]
    /\ answer = [w \in Writers |-> "none"]
    /\ fills = [p \in Ids |-> 0]

-----------------------------------------------------------------------------
(* A call and how it ends.                                                  *)

Call(w, op, p, r, c) ==
    /\ pc[w] = "idle"
    /\ pc' = [pc EXCEPT ![w] = "load"]
    /\ local' = [local EXCEPT ![w] = [op |-> op, id |-> p, ret |-> r, close |-> c,
                                      attempt |-> 0, row |-> Admitted, prior |-> {}]]
    /\ answer' = [answer EXCEPT ![w] = "none"]
    /\ UNCHANGED <<position, marks, events, measures, fills>>

CallOpen(w, p) == Call(w, "Open", p, NoReturn, FALSE)

\* An exit mark with a return and the exit policy's decision on it.
CallRecordMark(w, p) ==
    /\ Len(marks[p]) < MaxMarks
    /\ \E r \in Returns, c \in BOOLEAN : Call(w, "RecordMark", p, r, c)

CallRecordNoRoute(w, p) ==
    /\ Len(marks[p]) < MaxMarks
    /\ Call(w, "RecordNoRoute", p, NoReturn, FALSE)

\* The call returns a; its locals are gone.
Return(w, a) ==
    /\ pc' = [pc EXCEPT ![w] = "idle"]
    /\ local' = [local EXCEPT ![w] = NoCall]
    /\ answer' = [answer EXCEPT ![w] = a]

-----------------------------------------------------------------------------
(* The statements of a transaction.                                         *)

\* The state in which an operation has something to do.
Wanted(op) == IF op = "Open" THEN "PENDING" ELSE "OPEN"

\* The states in which it was done before: the call commits and returns nil.
DoneStates(op) ==
    CASE op = "Open" -> {"OPEN"}
      [] op = "RecordMark" -> {"CLOSED"}
      [] op = "RecordNoRoute" -> TerminalStates

\* The row cannot be worked on: wrong state, or a streak already at its end.
Refused(op, row) ==
    \/ row.state # Wanted(op)
    \/ op = "RecordNoRoute" /\ row.count >= MaxNoRoutes

\* PaperPosition.Get and the early returns it leads to.
Load(w) ==
    /\ pc[w] = "load"
    /\ LET op == local[w].op
           row == position[local[w].id]
       IN  IF row.state \in DoneStates(op) THEN Return(w, "unchanged")
           ELSE IF Refused(op, row) THEN Return(w, "error")
           ELSE /\ pc' = [pc EXCEPT ![w] = IF op = "Open" THEN "update" ELSE "marks"]
                /\ local' = [local EXCEPT ![w].row = row]
                /\ UNCHANGED answer
    /\ UNCHANGED <<position, marks, events, measures, fills>>

\* The returns of a position's first n marks, nulls skipped.
Recorded(p, n) == {marks[p][i].ret : i \in 1 .. n} \ {NoReturn}

\* PositionMark.Query, a statement with a snapshot of its own.
LoadMarks(w) ==
    /\ pc[w] = "marks"
    /\ pc' = [pc EXCEPT ![w] = "update"]
    /\ local' = [local EXCEPT ![w].prior = Recorded(local[w].id, Len(marks[local[w].id]))]
    /\ UNCHANGED <<position, marks, events, measures, answer, fills>>

\* Mutant: the update filters on the count alone.
CountStillMatches(w) ==
    local[w].op = "Open" \/ position[local[w].id].count = local[w].row.count

\* Mutant: the update filters on the state alone.
StateStillMatches(w) == position[local[w].id].state = Wanted(local[w].op)

\* The WHERE clause of the update: the row is as it was loaded.
RowStillMatches(w) ==
    /\ position[local[w].id].state = Wanted(local[w].op)
    /\ local[w].op # "Open" => position[local[w].id].count = local[w].row.count

\* The extremes of a set of returns; null when there are none.
Highest(R) == {r \in R : \A s \in R : s <= r}
Lowest(R) == {r \in R : \A s \in R : r <= s}

\* Mutant: RecordMark takes the excursions of the marks before its own.
PriorReturns(w) == local[w].prior

\* RecordMark starts from its own return, RecordNoRoute from nothing.
ReturnsSeen(w) ==
    local[w].prior \union (IF local[w].op = "RecordMark" THEN {local[w].ret} ELSE {})

\* Mutant: an executable quote leaves the streak as it is.
NextCountKept(w) ==
    local[w].row.count + (IF local[w].op = "RecordNoRoute" THEN 1 ELSE 0)

\* no_route_count after the update: nextCount, the reset, or left alone.
NextCount(w) ==
    CASE local[w].op = "Open" -> position[local[w].id].count
      [] local[w].op = "RecordMark" -> 0
      [] local[w].op = "RecordNoRoute" -> local[w].row.count + 1

NextState(w) ==
    CASE local[w].op = "Open" -> "OPEN"
      [] local[w].op = "RecordMark" -> IF local[w].close THEN "CLOSED" ELSE "OPEN"
      [] local[w].op = "RecordNoRoute" ->
           IF NextCount(w) = MaxNoRoutes THEN "UNSELLABLE" ELSE "OPEN"

NewMark(w) == IF local[w].op = "RecordNoRoute" THEN NoRoute(NextCount(w)) ELSE Executable(local[w].ret)

\* Mutant: every mark is an event.
EventOfEveryMark(w) == TRUE

\* Entering a state is an event; staying OPEN is none.
IsEvent(w) == NextState(w) # Wanted(local[w].op)

\* The mark is inserted, the row updated, the event inserted, and all of it
\* committed.  Open inserts no mark.
Persist(w) ==
    LET p == local[w].id IN
    /\ position' = [position EXCEPT ![p] = [state |-> NextState(w), count |-> NextCount(w)]]
    /\ events' = [events EXCEPT ![p][NextState(w)] = IF IsEvent(w) THEN @ + 1 ELSE @]
    /\ IF local[w].op = "Open"
         THEN UNCHANGED <<marks, measures>>
         ELSE /\ marks' = [marks EXCEPT ![p] = Append(@, NewMark(w))]
              /\ measures' = [measures EXCEPT ![p] =
                     Append(@, [mfe |-> Highest(ReturnsSeen(w)), mae |-> Lowest(ReturnsSeen(w))])]

\* One row updated, and the commit is acknowledged.
Update(w) ==
    /\ pc[w] = "update"
    /\ RowStillMatches(w)
    /\ Persist(w)
    /\ IF local[w].op = "Open"
         THEN /\ Return(w, "opened")
              /\ fills' = [fills EXCEPT ![local[w].id] = @ + 1]
         ELSE /\ Return(w, "recorded")
              /\ UNCHANGED fills

MoreAttempts(w) == local[w].attempt + 1 < MaxAttempts

\* No row updated: rolled back.  RecordNoRoute starts over, three times at most.
Conflict(w) ==
    /\ pc[w] = "update"
    /\ ~ RowStillMatches(w)
    /\ IF local[w].op = "RecordNoRoute" /\ MoreAttempts(w)
         THEN /\ pc' = [pc EXCEPT ![w] = "load"]
              /\ local' = [local EXCEPT ![w].attempt = @ + 1, ![w].prior = {}]
              /\ UNCHANGED answer
         ELSE Return(w, "error")
    /\ UNCHANGED <<position, marks, events, measures, fills>>

\* The commit takes effect and its acknowledgement is lost.
UpdateUnacknowledged(w) ==
    /\ pc[w] = "update"
    /\ RowStillMatches(w)
    /\ Persist(w)
    /\ Return(w, "error")
    /\ UNCHANGED fills

\* A statement fails or the context ends: rolled back.
Fail(w) ==
    /\ pc[w] # "idle"
    /\ Return(w, "error")
    /\ UNCHANGED <<position, marks, events, measures, fills>>

Next ==
    \E w \in Writers :
      \/ \E p \in Ids : CallOpen(w, p) \/ CallRecordMark(w, p) \/ CallRecordNoRoute(w, p)
      \/ Load(w)
      \/ LoadMarks(w)
      \/ Update(w)
      \/ Conflict(w)
      \/ UpdateUnacknowledged(w)
      \/ Fail(w)

Spec == Init /\ [][Next]_vars

-----------------------------------------------------------------------------
(* Properties.                                                              *)

\* The last n marks of l are NO_ROUTE and the one before them is not.
EndsInStreak(l, n) ==
    /\ n <= Len(l)
    /\ \A i \in Len(l) - n + 1 .. Len(l) : l[i].route = "NO_ROUTE"
    /\ n < Len(l) => l[Len(l) - n].route = "EXECUTABLE"

\* However observations interleave, no_route_count is the number of NO_ROUTE
\* marks since the last executable one, in commit order, and a position is
\* UNSELLABLE exactly when that streak reached its limit: a route that was
\* there in between always starts it over.  (positions.go:284-285, 301)
StreakCounted ==
    \A p \in Ids :
      /\ EndsInStreak(marks[p], position[p].count)
      /\ position[p].count <= MaxNoRoutes
      /\ position[p].state = "UNSELLABLE" <=> position[p].count = MaxNoRoutes

\* The states a position in state s has been in, each by one event.
Story(s) == {"PENDING", s} \union (IF s = "PENDING" THEN {} ELSE {"OPEN"})

\* The event log tells the row's story, and at most one caller is told that it
\* opened the position: concurrent or repeated calls, retries and lost answers
\* never record a fill or an end twice.
LifeRecordedOnce ==
    \A p \in Ids :
      /\ \A s \in PositionStates :
           events[p][s] = IF s \in Story(position[p].state) THEN 1 ELSE 0
      /\ fills[p] <= IF position[p].state = "PENDING" THEN 0 ELSE 1

\* A CLOSED or UNSELLABLE position gets no further mark and never changes, so
\* the return it is reported with stays the one it ended with.
FrozenAtTheEnd ==
    [][\A p \in Ids : position[p].state \in TerminalStates =>
         UNCHANGED <<position[p], marks[p], measures[p], events[p]>>]_vars

\* The rows behave as module Positions says.
Abstract == INSTANCE Positions WITH position <- position, marks <- marks, events <- events
ImplementsPositions == Abstract!Spec

\* In whatever order marks are committed, the mfe_bps and mae_bps of an
\* executable mark enclose its own return and are returns that the position
\* really had by then.  A mark that another writer commits after LoadMarks may
\* be missing from them.  (positions.go:172-187)
ExcursionsAreReal ==
    \A p \in Ids : \A i \in 1 .. Len(marks[p]) :
      marks[p][i].route = "EXECUTABLE" =>
        \E high, low \in Recorded(p, i) :
          /\ measures[p][i] = [mfe |-> {high}, mae |-> {low}]
          /\ low <= marks[p][i].ret /\ marks[p][i].ret <= high
=============================================================================
