-------------------------- MODULE PositionTxProofs --------------------------
(***************************************************************************)
(* Proofs about PositionTx for any number of writers and positions, any set   *)
(* of returns and any limits.                                                *)
(***************************************************************************)
EXTENDS PositionTx, SequenceTheorems, FiniteSetTheorems, TLAPS

-----------------------------------------------------------------------------
(* Finite orders, as sets of pairs.                                         *)

TotalOrder(R, S) ==
    /\ \A x \in S : <<x, x>> \notin R
    /\ \A x, y, z \in S : <<x, y>> \in R /\ <<y, z>> \in R => <<x, z>> \in R
    /\ \A x, y \in S : x = y \/ <<x, y>> \in R \/ <<y, x>> \in R

\* A finite set that is not empty has a first element, before every other: one
\* whose set of predecessors is smallest.
LEMMA FirstExists ==
  ASSUME NEW S, IsFiniteSet(S), S # {}, NEW R, TotalOrder(R, S)
  PROVE  \E x \in S : \A y \in S \ {x} : <<x, y>> \in R
<1> DEFINE Preds(x) == {y \in S : <<y, x>> \in R}
           T == {Preds(x) : x \in S}
           Smaller == StrictSubsetOrdering(S)
<1>1. IsWellFoundedOn(Smaller, SUBSET S)
  BY FS_StrictSubsetOrderingWellFounded, FS_FiniteSubsetsOfFinite
<1>2. T \subseteq SUBSET S /\ T # {}
  OBVIOUS
<1>3. PICK m \in T : \A u \in T : <<u, m>> \notin Smaller
  <2> HIDE DEF T, Smaller
  <2> QED BY <1>1, <1>2, WFMin
<1>4. PICK x \in S : m = Preds(x)
  BY <1>3
<1>5. ASSUME NEW y \in S, <<y, x>> \in R
      PROVE  FALSE
  <2>1. Preds(y) \subseteq Preds(x) /\ Preds(y) # Preds(x)
    BY <1>5 DEF TotalOrder
  <2>2. <<Preds(y), m>> \in Smaller
    BY <1>4, <2>1 DEF StrictSubsetOrdering
  <2> QED BY <1>3, <2>2
<1> QED BY <1>5 DEF TotalOrder

-----------------------------------------------------------------------------
\* What a writer may still rely on after Load: only its own copy of the row.
WriterInv(w) ==
    pc[w] \in {"marks", "update"} =>
      /\ local[w].row.state = Wanted(local[w].op)
      /\ local[w].op = "RecordNoRoute" => local[w].row.count < MaxNoRoutes

IInv ==
    /\ TypeOK
    /\ StreakCounted
    /\ LifeRecordedOnce
    /\ \A w \in Writers : WriterInv(w)

-----------------------------------------------------------------------------
(* Sequences.                                                               *)

\* m is l with r appended.
Appends(l, m, r) == m = Append(l, r)

\* Appending keeps what was there and puts the new element last.
LEMMA AppendTo ==
    ASSUME NEW S, NEW l \in Seq(S), NEW r \in S, NEW m, Appends(l, m, r)
    PROVE  /\ m \in Seq(S)
           /\ Len(l) \in Nat
           /\ Len(m) = Len(l) + 1
           /\ \A i \in 1 .. Len(l) : m[i] = l[i]
           /\ m[Len(l) + 1] = r
<1>1. Len(l) \in Nat
  BY LenProperties
<1> QED
  BY <1>1, AppendProperties DEF Appends

\* A NO_ROUTE mark lengthens the streak, an executable one ends it.
LEMMA StreakGoesOn ==
    ASSUME NEW l \in Seq(Mark), NEW n \in Nat, EndsInStreak(l, n),
           NEW r \in Mark, NEW m, Appends(l, m, r)
    PROVE  /\ r.route = "NO_ROUTE" => EndsInStreak(m, n + 1)
           /\ r.route = "EXECUTABLE" => EndsInStreak(m, 0)
<1>1. /\ Len(l) \in Nat /\ Len(m) = Len(l) + 1
      /\ \A i \in 1 .. Len(l) : m[i] = l[i]
      /\ m[Len(l) + 1] = r
  BY AppendTo
<1>2. ASSUME r.route = "NO_ROUTE"
      PROVE  EndsInStreak(m, n + 1)
  <2>1. n + 1 <= Len(m) /\ Len(m) - (n + 1) = Len(l) - n
    BY <1>1 DEF EndsInStreak
  <2>2. \A i \in Len(l) - n + 1 .. Len(l) : m[i].route = "NO_ROUTE"
    BY <1>1 DEF EndsInStreak
  <2>3. \A i \in Len(m) - (n + 1) + 1 .. Len(m) : m[i].route = "NO_ROUTE"
    BY <1>1, <1>2, <2>1, <2>2
  <2>4. n + 1 < Len(m) => m[Len(m) - (n + 1)].route = "EXECUTABLE"
    <3> SUFFICES ASSUME n + 1 < Len(m)
                 PROVE  m[Len(m) - (n + 1)].route = "EXECUTABLE"
      OBVIOUS
    <3>1. Len(l) - n \in 1 .. Len(l) /\ n < Len(l)
      BY <1>1
    <3>2. l[Len(l) - n].route = "EXECUTABLE"
      BY <3>1 DEF EndsInStreak
    <3> QED
      BY <1>1, <2>1, <3>1, <3>2
  <2> QED
    BY <2>1, <2>3, <2>4 DEF EndsInStreak
<1>3. ASSUME r.route = "EXECUTABLE"
      PROVE  EndsInStreak(m, 0)
  BY <1>1, <1>3 DEF EndsInStreak
<1> QED
  BY <1>2, <1>3

-----------------------------------------------------------------------------
(* Type correctness.                                                        *)

\* The part of the state that only a writer's own control moves.
ControlOK ==
    /\ pc \in [Writers -> Statements]
    /\ local \in [Writers -> Locals \union {NoCall}]
    /\ answer \in [Writers -> Answers]
    /\ \A w \in Writers : pc[w] # "idle" =>
         /\ local[w] \in Locals
         /\ local[w].attempt < MaxAttempts
         /\ local[w].op = "RecordMark" => local[w].ret \in Returns

LEMMA ReturnKeepsControl ==
    ASSUME TypeOK, NEW w \in Writers, NEW a \in Answers, Return(w, a)
    PROVE  ControlOK'
BY DEF TypeOK, ControlOK, Return, Statements

LEMMA CallKeepsControl ==
    ASSUME TypeOK, NEW w \in Writers, NEW op \in Operations, NEW p \in Ids,
           NEW r \in Returns \union {NoReturn}, NEW c \in BOOLEAN,
           op = "RecordMark" => r \in Returns, Call(w, op, p, r, c)
    PROVE  ControlOK'
<1> DEFINE l == [op |-> op, id |-> p, ret |-> r, close |-> c,
                 attempt |-> 0, row |-> Admitted, prior |-> {}]
<1>1. Admitted \in PositionRow
  BY DEF Admitted, PositionRow, PositionStates, ActiveStates
<1>2. l \in Locals /\ l.attempt = 0 /\ l.op = op /\ l.ret = r
  BY <1>1 DEF Locals
<1>3. 0 < MaxAttempts
  BY LimitsAssumption
<1>4. /\ pc' = [pc EXCEPT ![w] = "load"]
      /\ local' = [local EXCEPT ![w] = l]
      /\ answer' = [answer EXCEPT ![w] = "none"]
  BY DEF Call
<1> HIDE DEF l
<1> QED
  BY <1>2, <1>3, <1>4 DEF TypeOK, ControlOK, Statements, Answers

\* What the update writes has its columns' types.
LEMMA PersistTypes ==
    ASSUME TypeOK, NEW w \in Writers, pc[w] = "update", Persist(w)
    PROVE  /\ position' \in [Ids -> PositionRow]
           /\ marks' \in [Ids -> Seq(Mark)]
           /\ events' \in [Ids -> [PositionStates -> Nat]]
           /\ measures' \in [Ids -> Seq(Measure)]
<1> DEFINE p == local[w].id
<1>1. /\ local[w] \in Locals /\ p \in Ids /\ local[w].op \in Operations
      /\ local[w].op = "RecordMark" => local[w].ret \in Returns
  BY DEF TypeOK, Locals
<1>2. NextCount(w) \in Nat
  BY <1>1 DEF NextCount, TypeOK, Locals, PositionRow, Operations
<1>3. NextState(w) \in PositionStates
  BY <1>1 DEF NextState, PositionStates, ActiveStates, TerminalStates, Operations
<1>4. position' \in [Ids -> PositionRow]
  BY <1>1, <1>2, <1>3 DEF TypeOK, Persist, PositionRow
<1>5. events' \in [Ids -> [PositionStates -> Nat]]
  BY <1>1, <1>3 DEF TypeOK, Persist
<1>6. CASE local[w].op = "Open"
  BY <1>4, <1>5, <1>6 DEF TypeOK, Persist
<1>7. CASE local[w].op # "Open"
  <2>1. NewMark(w) \in Mark
    BY <1>1, <1>7 DEF NewMark, NoRoute, Executable, Mark, Operations
  <2>2. ReturnsSeen(w) \subseteq Int
    BY <1>1, RowsAssumption DEF ReturnsSeen, Locals
  <2>3. [mfe |-> Highest(ReturnsSeen(w)), mae |-> Lowest(ReturnsSeen(w))] \in Measure
    BY <2>2 DEF Highest, Lowest, Measure
  <2>4. marks' = [marks EXCEPT ![p] = Append(@, NewMark(w))]
    BY <1>7 DEF Persist
  <2>5. measures' = [measures EXCEPT ![p] = Append(@,
          [mfe |-> Highest(ReturnsSeen(w)), mae |-> Lowest(ReturnsSeen(w))])]
    BY <1>7 DEF Persist
  <2>6. marks' \in [Ids -> Seq(Mark)]
    BY <1>1, <2>1, <2>4 DEF TypeOK
  <2>7. measures' \in [Ids -> Seq(Measure)]
    BY <1>1, <2>3, <2>5 DEF TypeOK
  <2> QED
    BY <1>4, <1>5, <2>6, <2>7
<1> QED
  BY <1>6, <1>7

LEMMA TypeInit == Init => TypeOK
<1>1. Admitted \in PositionRow /\ "PENDING" \in PositionStates
  BY DEF Admitted, PositionRow, PositionStates, ActiveStates
<1>2. AdmittedEvents \in [PositionStates -> Nat]
  BY DEF AdmittedEvents
<1>3. <<>> \in Seq(Mark) /\ <<>> \in Seq(Measure)
  BY EmptySeq
<1> QED
  BY <1>1, <1>2, <1>3 DEF Init, TypeOK, Statements, Answers, NoCall

LEMMA TypeStep == TypeOK /\ [Next]_vars => TypeOK'
<1> SUFFICES ASSUME TypeOK, [Next]_vars PROVE TypeOK'
  OBVIOUS
<1>1. ASSUME NEW w \in Writers, NEW p \in Ids, CallOpen(w, p)
      PROVE  TypeOK'
  BY <1>1, CallKeepsControl DEF CallOpen, Call, Operations, ControlOK, TypeOK
<1>2. ASSUME NEW w \in Writers, NEW p \in Ids, CallRecordMark(w, p)
      PROVE  TypeOK'
  <2>1. PICK r \in Returns, c \in BOOLEAN : Call(w, "RecordMark", p, r, c)
    BY <1>2 DEF CallRecordMark
  <2>2. ControlOK'
    BY <2>1, CallKeepsControl DEF Operations
  <2> QED
    BY <2>1, <2>2 DEF Call, ControlOK, TypeOK
<1>3. ASSUME NEW w \in Writers, NEW p \in Ids, CallRecordNoRoute(w, p)
      PROVE  TypeOK'
  BY <1>3, CallKeepsControl DEF CallRecordNoRoute, Call, Operations, ControlOK, TypeOK
<1>4. ASSUME NEW w \in Writers, Load(w)
      PROVE  TypeOK'
  <2>1. CASE Return(w, "unchanged") \/ Return(w, "error")
    BY <1>4, <2>1, ReturnKeepsControl DEF Load, Answers, ControlOK, TypeOK
  <2>2. CASE /\ pc' = [pc EXCEPT ![w] = IF local[w].op = "Open" THEN "update" ELSE "marks"]
             /\ local' = [local EXCEPT ![w].row = position[local[w].id]]
             /\ UNCHANGED answer
    <3>1. local[w] \in Locals /\ local[w].id \in Ids /\ position[local[w].id] \in PositionRow
      BY <1>4 DEF Load, TypeOK, Locals
    <3>2. [local[w] EXCEPT !.row = position[local[w].id]] \in Locals
      BY <3>1 DEF Locals
    <3> QED
      BY <1>4, <2>2, <3>1, <3>2 DEF Load, TypeOK, Statements, Locals
  <2> QED
    BY <1>4, <2>1, <2>2 DEF Load
<1>5. ASSUME NEW w \in Writers, LoadMarks(w)
      PROVE  TypeOK'
  <2>1. local[w] \in Locals /\ local[w].id \in Ids
    BY <1>5 DEF LoadMarks, TypeOK, Locals
  <2>2. Recorded(local[w].id, Len(marks[local[w].id])) \subseteq Int
    <3>1. \A i \in 1 .. Len(marks[local[w].id]) : marks[local[w].id][i] \in Mark
      BY <2>1, ElementOfSeq DEF TypeOK
    <3> QED
      BY <3>1, RowsAssumption DEF Recorded, Mark
  <2>3. [local[w] EXCEPT !.prior = Recorded(local[w].id, Len(marks[local[w].id]))] \in Locals
    BY <2>1, <2>2 DEF Locals
  <2> QED
    BY <1>5, <2>1, <2>3 DEF LoadMarks, TypeOK, Statements, Locals
<1>6. ASSUME NEW w \in Writers, Update(w)
      PROVE  TypeOK'
  <2>1. PICK a \in {"opened", "recorded"} : Return(w, a)
    BY <1>6 DEF Update
  <2>2. ControlOK'
    BY <2>1, ReturnKeepsControl DEF Answers
  <2>3. fills' \in [Ids -> Nat]
    <3>1. local[w].id \in Ids /\ fills \in [Ids -> Nat]
      BY <1>6 DEF Update, TypeOK, Locals
    <3>2. fills' = fills \/ fills' = [fills EXCEPT ![local[w].id] = @ + 1]
      BY <1>6 DEF Update
    <3> QED
      BY <3>1, <3>2
  <2> QED
    BY <1>6, <2>2, <2>3, PersistTypes DEF Update, ControlOK, TypeOK
<1>7. ASSUME NEW w \in Writers, Conflict(w)
      PROVE  TypeOK'
  <2>1. CASE Return(w, "error")
    BY <1>7, <2>1, ReturnKeepsControl DEF Conflict, Answers, ControlOK, TypeOK
  <2>2. CASE /\ MoreAttempts(w)
             /\ pc' = [pc EXCEPT ![w] = "load"]
             /\ local' = [local EXCEPT ![w].attempt = @ + 1, ![w].prior = {}]
             /\ UNCHANGED answer
    <3>1. local[w] \in Locals
      BY <1>7 DEF Conflict, TypeOK
    <3>2. local[w].attempt + 1 \in Nat /\ {} \in SUBSET Int
      BY <3>1 DEF Locals
    <3>3. [local[w] EXCEPT !.attempt = local[w].attempt + 1] \in Locals
      BY <3>1, <3>2 DEF Locals
    <3>4. [local[w] EXCEPT !.attempt = @ + 1, !.prior = {}] \in Locals
      BY <3>2, <3>3 DEF Locals
    <3> QED
      BY <1>7, <2>2, <3>1, <3>4 DEF Conflict, MoreAttempts, TypeOK, Statements, Locals
  <2> QED
    BY <1>7, <2>1, <2>2 DEF Conflict
<1>8. ASSUME NEW w \in Writers, UpdateUnacknowledged(w)
      PROVE  TypeOK'
  BY <1>8, ReturnKeepsControl, PersistTypes DEF UpdateUnacknowledged, Answers, ControlOK, TypeOK
<1>9. ASSUME NEW w \in Writers, Fail(w)
      PROVE  TypeOK'
  BY <1>9, ReturnKeepsControl DEF Fail, Answers, ControlOK, TypeOK
<1>10. CASE UNCHANGED vars
  BY <1>10 DEF vars, TypeOK
<1> QED
  BY <1>1, <1>2, <1>3, <1>4, <1>5, <1>6, <1>7, <1>8, <1>9, <1>10 DEF Next

\* Every variable keeps its type, and RecordNoRoute's loop ends at its limit,
\* for any number of writers and positions.
THEOREM TypeCorrect == Spec => []TypeOK
BY TypeInit, TypeStep, PTL DEF Spec

-----------------------------------------------------------------------------
(* The inductive invariant.                                                 *)

\* An answered call has nothing left to rely on; others keep what they have.
LEMMA ReturnKeepsWriters ==
    ASSUME IInv, NEW w \in Writers, NEW a, Return(w, a)
    PROVE  \A v \in Writers : WriterInv(v)'
BY DEF IInv, TypeOK, WriterInv, Return

\* The update of a row that is still as it was loaded: what the streak, the
\* events and the state are afterwards.
LEMMA PersistStep ==
    ASSUME IInv, TypeOK', NEW w \in Writers, pc[w] = "update",
           RowStillMatches(w), Persist(w),
           \/ UNCHANGED fills
           \/ local[w].op = "Open" /\ fills' = [fills EXCEPT ![local[w].id] = @ + 1]
    PROVE  StreakCounted' /\ LifeRecordedOnce'
<1> DEFINE p == local[w].id
           q == position[p]
<1>1. /\ p \in Ids /\ local[w].op \in Operations /\ local[w].row.count \in Nat
      /\ q.count \in Nat /\ marks[p] \in Seq(Mark)
      /\ local[w].op = "RecordMark" => local[w].ret \in Returns
  BY DEF IInv, TypeOK, Locals, PositionRow
<1>2. /\ q.state = Wanted(local[w].op)
      /\ local[w].op # "Open" => q.count = local[w].row.count
      /\ local[w].op = "RecordNoRoute" => local[w].row.count < MaxNoRoutes
  BY DEF RowStillMatches, IInv, WriterInv
<1>3. /\ EndsInStreak(marks[p], q.count)
      /\ q.state # "UNSELLABLE" /\ q.count # MaxNoRoutes /\ q.count <= MaxNoRoutes
  BY <1>1, <1>2 DEF IInv, StreakCounted, Wanted
<1>4. /\ position'[p] = [state |-> NextState(w), count |-> NextCount(w)]
      /\ events'[p] = [events[p] EXCEPT ![NextState(w)] = IF IsEvent(w) THEN @ + 1 ELSE @]
      /\ \A o \in Ids \ {p} : position'[o] = position[o] /\ events'[o] = events[o]
  BY <1>1 DEF Persist, IInv, TypeOK
<1>5. /\ local[w].op = "Open" => marks' = marks
      /\ local[w].op # "Open" => Appends(marks[p], marks'[p], NewMark(w))
      /\ \A o \in Ids \ {p} : marks'[o] = marks[o]
  BY <1>1 DEF Persist, Appends, IInv, TypeOK
<1>6. /\ EndsInStreak(marks'[p], NextCount(w)) /\ NextCount(w) <= MaxNoRoutes
      /\ NextState(w) = "UNSELLABLE" <=> NextCount(w) = MaxNoRoutes
  <2>1. CASE local[w].op = "Open"
    BY <1>1, <1>3, <1>5, <2>1 DEF NextCount, NextState
  <2>2. CASE local[w].op = "RecordMark"
    <3>1. NewMark(w) \in Mark /\ NewMark(w).route = "EXECUTABLE"
      BY <1>1, <2>2 DEF NewMark, Executable, Mark
    <3>2. NextCount(w) = 0 /\ NextState(w) # "UNSELLABLE"
      BY <2>2 DEF NextCount, NextState
    <3>3. EndsInStreak(marks'[p], 0)
      BY <1>1, <1>3, <1>5, <2>2, <3>1, StreakGoesOn
    <3> QED
      BY <3>2, <3>3, RowsAssumption
  <2>3. CASE local[w].op = "RecordNoRoute"
    <3>1. NewMark(w) \in Mark /\ NewMark(w).route = "NO_ROUTE"
      BY <2>3 DEF NewMark, NoRoute, Mark
    <3>2. NextCount(w) = q.count + 1
      BY <1>2, <2>3 DEF NextCount
    <3>3. EndsInStreak(marks'[p], q.count + 1)
      BY <1>1, <1>3, <1>5, <2>3, <3>1, StreakGoesOn
    <3>4. NextCount(w) <= MaxNoRoutes
      BY <1>1, <1>2, <2>3, <3>2, RowsAssumption
    <3>5. NextState(w) = "UNSELLABLE" <=> NextCount(w) = MaxNoRoutes
      BY <2>3 DEF NextState
    <3> QED
      BY <3>2, <3>3, <3>4, <3>5
  <2> QED
    BY <1>1, <2>1, <2>2, <2>3 DEF Operations
<1>7. StreakCounted'
  BY <1>1, <1>4, <1>5, <1>6 DEF IInv, StreakCounted
<1>8. /\ NextState(w) \in {"OPEN", "CLOSED", "UNSELLABLE"}
      /\ q.state = "PENDING" => NextState(w) = "OPEN"
  BY <1>1, <1>2 DEF NextState, Operations, Wanted
<1>9. /\ IsEvent(w) <=> NextState(w) # q.state
      /\ q.state = "PENDING" \/ q.state = "OPEN"
  BY <1>2 DEF IsEvent, Wanted
<1>10. /\ events[p] \in [PositionStates -> Nat]
       /\ \A s \in PositionStates : events[p][s] = IF s \in Story(q.state) THEN 1 ELSE 0
       /\ q.state = "PENDING" => fills[p] <= 0
       /\ q.state = "OPEN" => fills[p] <= 1
  BY <1>1 DEF IInv, LifeRecordedOnce, TypeOK
<1>11. \A s \in PositionStates : events'[p][s] = IF s \in Story(NextState(w)) THEN 1 ELSE 0
  <2>1. NextState(w) \in PositionStates
    BY <1>8 DEF PositionStates, ActiveStates, TerminalStates
  <2>2. CASE q.state = "PENDING"
    BY <1>4, <1>8, <1>9, <1>10, <2>1, <2>2 DEF Story
  <2>3. CASE q.state = "OPEN"
    BY <1>4, <1>8, <1>9, <1>10, <2>1, <2>3 DEF Story
  <2> QED
    BY <1>9, <2>2, <2>3
<1>12. fills'[p] <= 1 /\ \A o \in Ids \ {p} : fills'[o] = fills[o]
  <2>1. fills \in [Ids -> Nat]
    BY DEF IInv, TypeOK
  <2>2. local[w].op = "Open" => fills[p] <= 0
    BY <1>2, <1>10 DEF Wanted
  <2>3. fills[p] <= 1
    BY <1>1, <1>9, <1>10, <2>1
  <2> QED
    BY <1>1, <2>1, <2>2, <2>3
<1>13. position'[p].state = NextState(w)
  BY <1>4
<1>14. LifeRecordedOnce'
  <2> SUFFICES ASSUME NEW o \in Ids
               PROVE  /\ \A s \in PositionStates : events'[o][s] =
                           IF s \in Story(position'[o].state) THEN 1 ELSE 0
                      /\ fills'[o] <= IF position'[o].state = "PENDING" THEN 0 ELSE 1
    BY DEF LifeRecordedOnce
  <2>1. CASE o = p
    BY <1>8, <1>11, <1>12, <1>13, <2>1
  <2>2. CASE o # p
    BY <1>4, <1>12, <2>2 DEF IInv, LifeRecordedOnce
  <2> QED
    BY <2>1, <2>2
<1> QED
  BY <1>7, <1>14

LEMMA InvInit == Init => IInv
<1> SUFFICES ASSUME Init PROVE IInv
  OBVIOUS
<1>1. \A p \in Ids : marks[p] = <<>> /\ position[p].state = "PENDING" /\ position[p].count = 0
  BY DEF Init, Admitted
<1>2. EndsInStreak(<<>>, 0)
  BY DEF EndsInStreak
<1>3. StreakCounted
  BY <1>1, <1>2, RowsAssumption DEF StreakCounted
<1>4. LifeRecordedOnce
  BY <1>1 DEF Init, LifeRecordedOnce, AdmittedEvents, Story
<1>5. \A w \in Writers : WriterInv(w)
  BY DEF Init, WriterInv
<1> QED
  BY <1>3, <1>4, <1>5, TypeInit DEF IInv

LEMMA InvStep == IInv /\ [Next]_vars => IInv'
<1> SUFFICES ASSUME IInv, [Next]_vars PROVE IInv'
  OBVIOUS
<1>1. TypeOK'
  BY TypeStep DEF IInv
<1>2. ASSUME UNCHANGED <<position, marks, events, fills>>
      PROVE  StreakCounted' /\ LifeRecordedOnce'
  BY <1>2 DEF IInv, StreakCounted, LifeRecordedOnce
<1>3. ASSUME NEW w \in Writers, NEW p \in Ids,
             CallOpen(w, p) \/ CallRecordMark(w, p) \/ CallRecordNoRoute(w, p)
      PROVE  IInv'
  <2>1. /\ UNCHANGED <<position, marks, events, fills>>
        /\ \A v \in Writers \ {w} : pc'[v] = pc[v] /\ local'[v] = local[v]
        /\ pc'[w] = "load"
    BY <1>3 DEF CallOpen, CallRecordMark, CallRecordNoRoute, Call, IInv, TypeOK
  <2>2. \A v \in Writers : WriterInv(v)'
    BY <2>1 DEF IInv, WriterInv
  <2> QED
    BY <1>1, <1>2, <2>1, <2>2 DEF IInv
<1>4. ASSUME NEW w \in Writers, Load(w)
      PROVE  IInv'
  <2>1. UNCHANGED <<position, marks, events, fills>>
    BY <1>4 DEF Load
  <2>2. \A v \in Writers : WriterInv(v)'
    <3>1. CASE Return(w, "unchanged") \/ Return(w, "error")
      BY <3>1, ReturnKeepsWriters
    <3>2. CASE /\ ~ Refused(local[w].op, position[local[w].id])
               /\ pc' = [pc EXCEPT ![w] = IF local[w].op = "Open" THEN "update" ELSE "marks"]
               /\ local' = [local EXCEPT ![w].row = position[local[w].id]]
      <4>1. local[w] \in Locals /\ position[local[w].id] \in PositionRow
        BY <1>4 DEF Load, IInv, TypeOK, Locals
      <4>2. /\ local'[w].op = local[w].op /\ local'[w].row = position[local[w].id]
            /\ \A v \in Writers \ {w} : pc'[v] = pc[v] /\ local'[v] = local[v]
        BY <3>2, <4>1 DEF IInv, TypeOK, Locals
      <4>3. WriterInv(w)'
        BY <3>2, <4>1, <4>2, RowsAssumption DEF WriterInv, Refused, PositionRow
      <4> QED
        BY <4>2, <4>3 DEF IInv, WriterInv
    <3> QED
      BY <1>4, <3>1, <3>2 DEF Load
  <2> QED
    BY <1>1, <1>2, <2>1, <2>2 DEF IInv
<1>5. ASSUME NEW w \in Writers, LoadMarks(w)
      PROVE  IInv'
  <2>1. UNCHANGED <<position, marks, events, fills>>
    BY <1>5 DEF LoadMarks
  <2>2. /\ local'[w].op = local[w].op /\ local'[w].row = local[w].row /\ pc[w] = "marks"
        /\ \A v \in Writers \ {w} : pc'[v] = pc[v] /\ local'[v] = local[v]
    BY <1>5 DEF LoadMarks, IInv, TypeOK, Locals
  <2>3. \A v \in Writers : WriterInv(v)'
    BY <2>2 DEF IInv, WriterInv
  <2> QED
    BY <1>1, <1>2, <2>1, <2>3 DEF IInv
<1>6. ASSUME NEW w \in Writers, Update(w)
      PROVE  IInv'
  <2>1. PICK a \in {"opened", "recorded"} : Return(w, a)
    BY <1>6 DEF Update
  <2> QED
    BY <1>1, <1>6, <2>1, PersistStep, ReturnKeepsWriters DEF Update, IInv
<1>7. ASSUME NEW w \in Writers, Conflict(w)
      PROVE  IInv'
  <2>1. UNCHANGED <<position, marks, events, fills>>
    BY <1>7 DEF Conflict
  <2>2. \A v \in Writers : WriterInv(v)'
    <3>1. CASE Return(w, "error")
      BY <3>1, ReturnKeepsWriters
    <3>2. CASE /\ pc' = [pc EXCEPT ![w] = "load"]
               /\ local' = [local EXCEPT ![w].attempt = @ + 1, ![w].prior = {}]
      BY <3>2 DEF IInv, TypeOK, WriterInv
    <3> QED
      BY <1>7, <3>1, <3>2 DEF Conflict
  <2> QED
    BY <1>1, <1>2, <2>1, <2>2 DEF IInv
<1>8. ASSUME NEW w \in Writers, UpdateUnacknowledged(w)
      PROVE  IInv'
  BY <1>1, <1>8, PersistStep, ReturnKeepsWriters DEF UpdateUnacknowledged, IInv
<1>9. ASSUME NEW w \in Writers, Fail(w)
      PROVE  IInv'
  BY <1>1, <1>2, <1>9, ReturnKeepsWriters DEF Fail, IInv
<1>10. CASE UNCHANGED vars
  BY <1>1, <1>2, <1>10 DEF vars, IInv, WriterInv
<1> QED
  BY <1>3, <1>4, <1>5, <1>6, <1>7, <1>8, <1>9, <1>10 DEF Next

LEMMA InvHolds == Spec => []IInv
BY InvInit, InvStep, PTL DEF Spec

-----------------------------------------------------------------------------
(* The theorems.                                                            *)

\* no_route_count is the streak of NO_ROUTE marks since the last executable
\* one, and the position is UNSELLABLE exactly at the limit.
THEOREM StreakAlwaysCounted == Spec => []StreakCounted
<1>1. IInv => StreakCounted
  BY DEF IInv
<1> QED
  BY <1>1, InvHolds, PTL

\* One event per state the position has been in, and one Opened answer at most.
THEOREM LifeAlwaysRecordedOnce == Spec => []LifeRecordedOnce
<1>1. IInv => LifeRecordedOnce
  BY DEF IInv
<1> QED
  BY <1>1, InvHolds, PTL

\* An update finds its row in the state it loaded, which is not a terminal one,
\* and writes nothing of another position.
LEMMA PersistSpares ==
    ASSUME IInv, NEW w \in Writers, pc[w] = "update", RowStillMatches(w), Persist(w),
           NEW p \in Ids, position[p].state \in TerminalStates
    PROVE  UNCHANGED <<position[p], marks[p], measures[p], events[p]>>
<1>1. local[w].id \in Ids /\ local[w].id # p
  BY DEF IInv, TypeOK, Locals, RowStillMatches, Wanted, TerminalStates
<1> QED
  BY <1>1 DEF Persist, IInv, TypeOK

\* Nothing of a CLOSED or UNSELLABLE position ever changes.
THEOREM FrozenForever == Spec => FrozenAtTheEnd
<1>1. IInv /\ [Next]_vars =>
        [\A p \in Ids : position[p].state \in TerminalStates =>
           UNCHANGED <<position[p], marks[p], measures[p], events[p]>>]_vars
  <2> SUFFICES ASSUME IInv, [Next]_vars, NEW p \in Ids, position[p].state \in TerminalStates
               PROVE  UNCHANGED <<position[p], marks[p], measures[p], events[p]>>
    OBVIOUS
  <2>1. ASSUME NEW w \in Writers, Update(w) \/ UpdateUnacknowledged(w)
        PROVE  UNCHANGED <<position[p], marks[p], measures[p], events[p]>>
    BY <2>1, PersistSpares DEF Update, UpdateUnacknowledged
  <2>2. ASSUME UNCHANGED <<position, marks, measures, events>>
        PROVE  UNCHANGED <<position[p], marks[p], measures[p], events[p]>>
    BY <2>2
  <2> QED
    BY <2>1, <2>2 DEF Next, vars, CallOpen, CallRecordMark, CallRecordNoRoute, Call, Load,
                      LoadMarks, Conflict, Fail
<1> QED
  BY <1>1, InvHolds, PTL DEF Spec, FrozenAtTheEnd

\* An update that finds its row as it was loaded is a step of module Positions.
LEMMA PersistIsStep ==
    ASSUME IInv, NEW w \in Writers, pc[w] = "update", RowStillMatches(w), Persist(w)
    PROVE  Abstract!Next
<1> DEFINE p == local[w].id
           n == position[p].count + 1
<1>1. /\ p \in Ids /\ local[w].op \in Operations
      /\ local[w].op = "RecordMark" => local[w].ret \in Returns
      /\ position \in [Ids -> PositionRow]
      /\ position[p].count \in Nat
      /\ local[w].row.count \in Nat
      /\ events \in [Ids -> [PositionStates -> Nat]]
  BY DEF IInv, TypeOK, Locals, PositionRow
<1>2. /\ position[p].state = Wanted(local[w].op)
      /\ local[w].op # "Open" => position[p].count = local[w].row.count
      /\ local[w].op = "RecordNoRoute" => local[w].row.count < MaxNoRoutes
  BY DEF RowStillMatches, IInv, WriterInv
<1>3. /\ position' = [position EXCEPT ![p] = [state |-> NextState(w), count |-> NextCount(w)]]
      /\ events' = [events EXCEPT ![p][NextState(w)] = IF IsEvent(w) THEN @ + 1 ELSE @]
      /\ local[w].op = "Open" => UNCHANGED marks
      /\ local[w].op # "Open" => marks' = [marks EXCEPT ![p] = Append(@, NewMark(w))]
  BY DEF Persist
<1>4. position[p] = [state |-> position[p].state, count |-> position[p].count]
  BY <1>1 DEF PositionRow
<1>5. CASE local[w].op = "Open"
  <2>1. NextState(w) = "OPEN" /\ NextCount(w) = position[p].count /\ IsEvent(w)
    BY <1>5 DEF NextState, NextCount, IsEvent, Wanted
  <2>2. position[p].state = "PENDING"
    BY <1>2, <1>5 DEF Wanted
  <2>3. Abstract!Fill(p)
    BY <1>1, <1>3, <1>4, <1>5, <2>1, <2>2 DEF Abstract!Fill, PositionRow
  <2> QED
    BY <1>1, <2>3 DEF Abstract!Next
<1>6. CASE local[w].op = "RecordMark"
  <2>1. NextCount(w) = 0 /\ position[p].state = "OPEN" /\ NewMark(w) = Executable(local[w].ret)
    BY <1>2, <1>6 DEF NextCount, Wanted, NewMark
  <2>2. marks' = [marks EXCEPT ![p] = Append(@, Executable(local[w].ret))]
    BY <1>3, <1>6, <2>1
  <2>3. CASE local[w].close
    <3>1. NextState(w) = "CLOSED" /\ IsEvent(w)
      BY <1>6, <2>3 DEF NextState, IsEvent, Wanted
    <3>2. Abstract!Close(p, local[w].ret)
      BY <1>3, <2>1, <2>2, <3>1 DEF Abstract!Close, Abstract!Executable, Executable
    <3> QED
      BY <1>1, <1>6, <3>2 DEF Abstract!Next
  <2>4. CASE ~ local[w].close
    <3>1. NextState(w) = "OPEN" /\ ~ IsEvent(w)
      BY <1>6, <2>4 DEF NextState, IsEvent, Wanted
    <3>2. position' = [position EXCEPT ![p].count = 0]
      BY <1>1, <1>3, <1>4, <2>1, <3>1
    <3>3. events' = events
      BY <1>1, <1>3, <3>1
    <3>4. Abstract!Hold(p, local[w].ret)
      BY <2>1, <2>2, <3>2, <3>3 DEF Abstract!Hold, Abstract!Executable, Executable
    <3> QED
      BY <1>1, <1>6, <3>4 DEF Abstract!Next
  <2> QED
    BY <2>3, <2>4
<1>7. CASE local[w].op = "RecordNoRoute"
  <2>1. NextCount(w) = n /\ position[p].state = "OPEN" /\ NewMark(w) = NoRoute(n)
    BY <1>2, <1>7 DEF NextCount, Wanted, NewMark
  <2>2. n <= MaxNoRoutes
    BY <1>1, <1>2, <1>7, RowsAssumption
  <2>3. marks' = [marks EXCEPT ![p] = Append(@, NoRoute(n))]
    BY <1>3, <1>7, <2>1
  <2>4. CASE n = MaxNoRoutes
    <3>1. NextState(w) = "UNSELLABLE" /\ IsEvent(w)
      BY <1>7, <2>1, <2>4 DEF NextState, IsEvent, Wanted
    <3>2. Abstract!GiveUp(p)
      BY <1>3, <2>1, <2>3, <2>4, <3>1 DEF Abstract!GiveUp, Abstract!NoRoute, NoRoute
    <3> QED
      BY <1>1, <3>2 DEF Abstract!Next
  <2>5. CASE n # MaxNoRoutes
    <3>1. NextState(w) = "OPEN" /\ ~ IsEvent(w)
      BY <1>7, <2>1, <2>5 DEF NextState, IsEvent, Wanted
    <3>5. n < MaxNoRoutes
      <4>1. position[p].count \in Nat /\ MaxNoRoutes \in Nat
        BY <1>1, RowsAssumption
      <4> QED
        BY <2>2, <2>5, <4>1
    <3>2. position' = [position EXCEPT ![p].count = @ + 1]
      BY <1>1, <1>3, <1>4, <2>1, <3>1
    <3>3. events' = events
      BY <1>1, <1>3, <3>1
    <3>4. Abstract!MissRoute(p)
      BY <2>1, <2>3, <3>2, <3>3, <3>5 DEF Abstract!MissRoute, Abstract!NoRoute, NoRoute
    <3> QED
      BY <1>1, <3>4 DEF Abstract!Next
  <2> QED
    BY <2>4, <2>5
<1> QED
  BY <1>1, <1>5, <1>6, <1>7 DEF Operations

\* The transactions of PositionRepository implement module Positions.
THEOREM TransactionsImplementPositions == Spec => ImplementsPositions
<1>1. Init => Abstract!Init
  BY DEF Init, Abstract!Init, Admitted, Abstract!Admitted, AdmittedEvents,
         Abstract!AdmittedEvents, PositionStates, Abstract!PositionStates, ActiveStates,
         Abstract!ActiveStates, TerminalStates, Abstract!TerminalStates
<1>2. IInv /\ [Next]_vars => [Abstract!Next]_<<position, marks, events>>
  <2> SUFFICES ASSUME IInv, [Next]_vars
               PROVE  Abstract!Next \/ UNCHANGED <<position, marks, events>>
    OBVIOUS
  <2>1. ASSUME NEW w \in Writers, Update(w) \/ UpdateUnacknowledged(w)
        PROVE  Abstract!Next
    BY <2>1, PersistIsStep DEF Update, UpdateUnacknowledged
  <2> QED
    BY <2>1 DEF Next, vars, CallOpen, CallRecordMark, CallRecordNoRoute, Call, Load,
                LoadMarks, Conflict, Fail
<1> QED
  BY <1>1, <1>2, InvHolds, PTL
  DEF Spec, ImplementsPositions, Abstract!Spec, Abstract!positionVars

-----------------------------------------------------------------------------
(* The excursions.  A mark is measured against returns that were recorded   *)
(* before it, and marks are never taken back.                               *)

\* The returns among the first n elements of a sequence of marks.
ReturnsOf(l, n) == {l[i].ret : i \in 1 .. n} \ {NoReturn}

\* ExcursionsAreReal for the marks l and the measures k of one position.
RealIn(l, k) ==
    /\ Len(k) = Len(l)
    /\ \A i \in 1 .. Len(l) : l[i].route = "EXECUTABLE" =>
         \E high, low \in ReturnsOf(l, i) :
           /\ k[i] = [mfe |-> {high}, mae |-> {low}]
           /\ low <= l[i].ret /\ l[i].ret <= high

\* What a writer has read of the marks is still among them.
PriorInv(w) ==
    pc[w] # "idle" =>
      /\ IsFiniteSet(local[w].prior)
      /\ local[w].prior \subseteq ReturnsOf(marks[local[w].id], Len(marks[local[w].id]))

ExcursionInv ==
    /\ \A p \in Ids : RealIn(marks[p], measures[p])
    /\ \A w \in Writers : PriorInv(w)

\* A finite set of integers that is not empty has one highest element.
LEMMA OneHighest ==
    ASSUME NEW R, IsFiniteSet(R), R # {}, R \subseteq Int
    PROVE  \E h \in R : Highest(R) = {h} /\ \A r \in R : r <= h
<1> DEFINE Above == {e \in R \X R : e[1] > e[2]}
<1>1. \A x, y \in R : <<x, y>> \in Above <=> x > y
  OBVIOUS
<1>2. TotalOrder(Above, R)
  <2> HIDE DEF Above
  <2> QED BY <1>1 DEF TotalOrder
<1>3. PICK h \in R : \A r \in R \ {h} : <<h, r>> \in Above
  <2> HIDE DEF Above
  <2> QED BY <1>2, FirstExists
<1>4. \A r \in R : r <= h
  <2> SUFFICES ASSUME NEW r \in R PROVE r <= h
    OBVIOUS
  <2>1. CASE r = h
    BY <2>1
  <2>2. CASE r # h
    <3>1. <<h, r>> \in Above
      BY <1>3, <2>2
    <3> HIDE DEF Above
    <3> QED BY <1>1, <3>1
  <2> QED BY <2>1, <2>2
<1>5. \A s \in R : (\A r \in R : r <= s) => s = h
  BY <1>4
<1> QED BY <1>4, <1>5 DEF Highest

\* And one lowest.
LEMMA OneLowest ==
    ASSUME NEW R, IsFiniteSet(R), R # {}, R \subseteq Int
    PROVE  \E l \in R : Lowest(R) = {l} /\ \A r \in R : l <= r
<1> DEFINE Below == {e \in R \X R : e[1] < e[2]}
<1>1. \A x, y \in R : <<x, y>> \in Below <=> x < y
  OBVIOUS
<1>2. TotalOrder(Below, R)
  <2> HIDE DEF Below
  <2> QED BY <1>1 DEF TotalOrder
<1>3. PICK l \in R : \A r \in R \ {l} : <<l, r>> \in Below
  <2> HIDE DEF Below
  <2> QED BY <1>2, FirstExists
<1>4. \A r \in R : l <= r
  <2> SUFFICES ASSUME NEW r \in R PROVE l <= r
    OBVIOUS
  <2>1. CASE r = l
    BY <2>1
  <2>2. CASE r # l
    <3>1. <<l, r>> \in Below
      BY <1>3, <2>2
    <3> HIDE DEF Below
    <3> QED BY <1>1, <3>1
  <2> QED BY <2>1, <2>2
<1>5. \A s \in R : (\A r \in R : s <= r) => s = l
  BY <1>4
<1> QED BY <1>4, <1>5 DEF Lowest

\* The returns of marks are finitely many integers.
LEMMA ReturnsOfMarks ==
    ASSUME NEW l \in Seq(Mark), NEW n \in Nat, n <= Len(l)
    PROVE  IsFiniteSet(ReturnsOf(l, n)) /\ ReturnsOf(l, n) \subseteq Int
<1>1. Len(l) \in Nat /\ \A i \in 1 .. n : l[i] \in Mark
  BY LenProperties, ElementOfSeq
<1>2. IsFiniteSet({l[i].ret : i \in 1 .. n})
  <2> DEFINE ret(i) == l[i].ret
             f == [i \in 1 .. n |-> ret(i)]
  <2>1. IsFiniteSet(1 .. n)
    BY FS_Interval
  <2>2. f \in Surjection(1 .. n, {ret(i) : i \in 1 .. n})
    <3> HIDE DEF ret
    <3> QED BY DEF Surjection
  <2> HIDE DEF f
  <2> QED BY <2>1, <2>2, FS_Surjection
<1>3. ReturnsOf(l, n) \subseteq {l[i].ret : i \in 1 .. n}
  BY DEF ReturnsOf
<1>4. IsFiniteSet(ReturnsOf(l, n))
  BY <1>2, <1>3, FS_Subset
<1> QED
  BY <1>1, <1>4, RowsAssumption DEF ReturnsOf, Mark

\* Marks that were there stay, so what was recorded stays recorded.
LEMMA ReturnsGrow ==
    ASSUME NEW l \in Seq(Mark), NEW r \in Mark, NEW m, Appends(l, m, r)
    PROVE  /\ \A i \in 1 .. Len(l) : ReturnsOf(m, i) = ReturnsOf(l, i)
           /\ ReturnsOf(m, Len(m)) = ReturnsOf(l, Len(l)) \union ({r.ret} \ {NoReturn})
<1>1. /\ Len(l) \in Nat /\ Len(m) = Len(l) + 1
      /\ \A i \in 1 .. Len(l) : m[i] = l[i]
      /\ m[Len(l) + 1] = r
  BY AppendTo
<1>2. \A i \in 1 .. Len(l) : ReturnsOf(m, i) = ReturnsOf(l, i)
  <2> SUFFICES ASSUME NEW i \in 1 .. Len(l)
               PROVE  {m[j].ret : j \in 1 .. i} = {l[j].ret : j \in 1 .. i}
    BY DEF ReturnsOf
  <2>1. \A j \in 1 .. i : m[j] = l[j]
    BY <1>1
  <2> QED BY <2>1
<1>3. {m[j].ret : j \in 1 .. Len(m)} = {l[j].ret : j \in 1 .. Len(l)} \union {r.ret}
  <2>1. 1 .. Len(m) = (1 .. Len(l)) \union {Len(l) + 1}
    BY <1>1
  <2> QED BY <1>1, <2>1
<1> QED
  BY <1>2, <1>3 DEF ReturnsOf

\* One more mark, with measures that enclose it, keeps the measures real.
LEMMA RealGoesOn ==
    ASSUME NEW l \in Seq(Mark), NEW k \in Seq(Measure), RealIn(l, k),
           NEW r \in Mark, NEW q \in Measure,
           NEW m, Appends(l, m, r), NEW n, Appends(k, n, q),
           r.route = "EXECUTABLE" =>
             \E high, low \in ReturnsOf(m, Len(m)) :
               q = [mfe |-> {high}, mae |-> {low}] /\ low <= r.ret /\ r.ret <= high
    PROVE  RealIn(m, n)
<1>1. /\ Len(l) \in Nat /\ Len(m) = Len(l) + 1 /\ m[Len(m)] = r
      /\ \A i \in 1 .. Len(l) : m[i] = l[i]
  BY AppendTo
<1>2. /\ Len(k) = Len(l) /\ Len(n) = Len(k) + 1 /\ n[Len(m)] = q
      /\ \A i \in 1 .. Len(k) : n[i] = k[i]
  <2>1. Len(k) = Len(l)
    BY DEF RealIn
  <2> QED BY <1>1, <2>1, AppendTo
<1>3. ASSUME NEW i \in 1 .. Len(m), m[i].route = "EXECUTABLE"
      PROVE  \E high, low \in ReturnsOf(m, i) :
               /\ n[i] = [mfe |-> {high}, mae |-> {low}]
               /\ low <= m[i].ret /\ m[i].ret <= high
  <2>1. CASE i \in 1 .. Len(l)
    <3>1. m[i] = l[i] /\ n[i] = k[i] /\ ReturnsOf(m, i) = ReturnsOf(l, i)
      BY <1>1, <1>2, <2>1, ReturnsGrow
    <3> QED BY <1>3, <2>1, <3>1 DEF RealIn
  <2>2. CASE i = Len(m)
    <3>1. m[i] = r /\ n[i] = q
      BY <1>1, <1>2, <2>2
    <3>2. r.route = "EXECUTABLE"
      BY <1>3, <3>1
    <3>3. PICK high \in ReturnsOf(m, i), low \in ReturnsOf(m, i) :
            q = [mfe |-> {high}, mae |-> {low}] /\ low <= r.ret /\ r.ret <= high
      BY <2>2, <3>2
    <3> QED BY <3>1, <3>3
  <2>3. i \in 1 .. Len(l) \/ i = Len(m)
    BY <1>1
  <2> QED BY <2>1, <2>2, <2>3
<1> QED BY <1>1, <1>2, <1>3 DEF RealIn

\* The update: the new mark's measures are the extremes of its own return and
\* of returns that were recorded before.
LEMMA PersistExcursions ==
    ASSUME TypeOK, ExcursionInv, NEW w \in Writers, pc[w] = "update", Persist(w),
           NEW p \in Ids
    PROVE  /\ RealIn(marks'[p], measures'[p])
           /\ ReturnsOf(marks[p], Len(marks[p])) \subseteq ReturnsOf(marks'[p], Len(marks'[p]))
<1> DEFINE l == marks[p]
           r == NewMark(w)
           R == ReturnsSeen(w)
           q == [mfe |-> Highest(R), mae |-> Lowest(R)]
<1>1. /\ local[w].id \in Ids /\ local[w].op \in Operations
      /\ local[w].op = "RecordMark" => local[w].ret \in Returns
      /\ l \in Seq(Mark) /\ measures[p] \in Seq(Measure) /\ RealIn(l, measures[p])
      /\ PriorInv(w) /\ local[w].prior \subseteq Int
      /\ marks \in [Ids -> Seq(Mark)] /\ measures \in [Ids -> Seq(Measure)]
      /\ local[w].row.count \in Nat
  BY DEF TypeOK, Locals, ExcursionInv, PositionRow
<1>2. CASE p # local[w].id \/ local[w].op = "Open"
  BY <1>1, <1>2 DEF Persist
<1>3. CASE p = local[w].id /\ local[w].op # "Open"
  <2>1. /\ Appends(l, marks'[p], r)
        /\ Appends(measures[p], measures'[p], q)
    BY <1>1, <1>3 DEF Persist, Appends
  <2>2. r \in Mark
    BY <1>1, <1>3 DEF NewMark, NextCount, NoRoute, Executable, Mark, Operations
  <2>3. R \subseteq Int
    BY <1>1, RowsAssumption DEF ReturnsSeen
  <2>4. q \in Measure
    BY <2>3 DEF Highest, Lowest, Measure
  <2>5. ReturnsOf(marks'[p], Len(marks'[p])) = ReturnsOf(l, Len(l)) \union ({r.ret} \ {NoReturn})
    BY <1>1, <2>1, <2>2, ReturnsGrow
  <2>6. ASSUME r.route = "EXECUTABLE"
        PROVE  \E high, low \in ReturnsOf(marks'[p], Len(marks'[p])) :
                 q = [mfe |-> {high}, mae |-> {low}] /\ low <= r.ret /\ r.ret <= high
    <3>1. local[w].op = "RecordMark" /\ r = Executable(local[w].ret)
      BY <1>1, <1>3, <2>6 DEF NewMark, NoRoute, Operations
    <3>2. r.ret = local[w].ret /\ r.ret \in Int /\ r.ret # NoReturn
      <4>1. local[w].ret \in Int /\ local[w].ret # NoReturn
        BY <1>1, <3>1, RowsAssumption
      <4>2. Executable(local[w].ret).ret = local[w].ret
        BY DEF Executable
      <4> HIDE DEF r
      <4> QED BY <3>1, <4>1, <4>2
    <3>3. R = local[w].prior \union {r.ret}
      BY <3>1, <3>2 DEF ReturnsSeen
    <3>4. IsFiniteSet(R) /\ R # {}
      <4>1. IsFiniteSet(local[w].prior)
        BY <1>1 DEF PriorInv
      <4> QED BY <3>3, <4>1, FS_AddElement
    <3>5. R \subseteq ReturnsOf(marks'[p], Len(marks'[p]))
      <4>1. local[w].prior \subseteq ReturnsOf(l, Len(l))
        BY <1>1, <1>3 DEF PriorInv
      <4> QED BY <2>5, <3>2, <3>3, <4>1
    <3> HIDE DEF R, r
    <3>6. PICK high \in R : Highest(R) = {high} /\ \A s \in R : s <= high
      BY <2>3, <3>4, OneHighest
    <3>7. PICK low \in R : Lowest(R) = {low} /\ \A s \in R : low <= s
      BY <2>3, <3>4, OneLowest
    <3>8. low <= r.ret /\ r.ret <= high
      BY <3>3, <3>6, <3>7
    <3> QED BY <3>5, <3>6, <3>7, <3>8
  <2>7. RealIn(marks'[p], measures'[p])
    <3> HIDE DEF q, r
    <3> QED BY <1>1, <2>1, <2>2, <2>4, <2>6, RealGoesOn
  <2> QED BY <2>5, <2>7
<1> QED BY <1>2, <1>3

LEMMA ExcursionInit == Init => ExcursionInv
<1> SUFFICES ASSUME Init PROVE ExcursionInv
  OBVIOUS
<1>1. \A p \in Ids : RealIn(marks[p], measures[p])
  BY DEF Init, RealIn
<1>2. \A w \in Writers : PriorInv(w)
  BY DEF Init, PriorInv
<1> QED BY <1>1, <1>2 DEF ExcursionInv

LEMMA ExcursionStep == TypeOK /\ ExcursionInv /\ [Next]_vars => ExcursionInv'
<1> SUFFICES ASSUME TypeOK, ExcursionInv, [Next]_vars PROVE ExcursionInv'
  OBVIOUS
<1>1. /\ \A p \in Ids : RealIn(marks[p], measures[p])
      /\ \A v \in Writers : PriorInv(v)
  BY DEF ExcursionInv
<1>2. ASSUME NEW w \in Writers, NEW a, Return(w, a), UNCHANGED <<marks, measures>>
      PROVE  ExcursionInv'
  <2>1. /\ pc'[w] = "idle"
        /\ \A v \in Writers \ {w} : pc'[v] = pc[v] /\ local'[v] = local[v]
    BY <1>2 DEF Return, TypeOK
  <2>2. \A v \in Writers : PriorInv(v)'
    BY <1>1, <1>2, <2>1 DEF PriorInv
  <2> QED BY <1>1, <1>2, <2>2 DEF ExcursionInv
<1>3. ASSUME NEW w \in Writers, NEW S, IsFiniteSet(S),
             S \subseteq ReturnsOf(marks[local'[w].id], Len(marks[local'[w].id])),
             local'[w].prior = S,
             \A v \in Writers \ {w} : pc'[v] = pc[v] /\ local'[v] = local[v],
             UNCHANGED <<marks, measures>>
      PROVE  ExcursionInv'
  <2>1. \A v \in Writers : PriorInv(v)'
    BY <1>1, <1>3 DEF PriorInv
  <2> QED BY <1>1, <1>3, <2>1 DEF ExcursionInv
<1>4. ASSUME NEW w \in Writers, NEW op, NEW p \in Ids, NEW r, NEW c, Call(w, op, p, r, c)
      PROVE  ExcursionInv'
  <2>1. /\ local'[w].prior = {} /\ UNCHANGED <<marks, measures>>
        /\ \A v \in Writers \ {w} : pc'[v] = pc[v] /\ local'[v] = local[v]
    BY <1>4 DEF Call, TypeOK
  <2> QED BY <1>3, <2>1, FS_EmptySet
<1>5. ASSUME NEW w \in Writers, Load(w)
      PROVE  ExcursionInv'
  <2>1. UNCHANGED <<marks, measures>>
    BY <1>5 DEF Load
  <2>2. CASE Return(w, "unchanged") \/ Return(w, "error")
    BY <1>2, <2>1, <2>2
  <2>3. CASE /\ pc' = [pc EXCEPT ![w] = IF local[w].op = "Open" THEN "update" ELSE "marks"]
             /\ local' = [local EXCEPT ![w].row = position[local[w].id]]
    <3>1. local[w] \in Locals /\ pc[w] # "idle"
      BY <1>5 DEF Load, TypeOK
    <3>2. /\ local'[w].prior = local[w].prior /\ local'[w].id = local[w].id
          /\ \A v \in Writers \ {w} : pc'[v] = pc[v] /\ local'[v] = local[v]
      BY <2>3, <3>1 DEF TypeOK, Locals
    <3>3. PriorInv(w)
      BY <1>1
    <3> QED BY <1>3, <2>1, <3>1, <3>2, <3>3 DEF PriorInv
  <2> QED BY <1>5, <2>2, <2>3 DEF Load
<1>6. ASSUME NEW w \in Writers, LoadMarks(w)
      PROVE  ExcursionInv'
  <2> DEFINE l == marks[local[w].id]
  <2>1. local[w] \in Locals /\ l \in Seq(Mark) /\ Len(l) \in Nat
    BY <1>6, LenProperties DEF LoadMarks, TypeOK, Locals
  <2>2. IsFiniteSet(ReturnsOf(l, Len(l)))
    BY <2>1, ReturnsOfMarks
  <2>3. /\ local'[w].prior = ReturnsOf(l, Len(l)) /\ local'[w].id = local[w].id
        /\ \A v \in Writers \ {w} : pc'[v] = pc[v] /\ local'[v] = local[v]
        /\ UNCHANGED <<marks, measures>>
    BY <1>6, <2>1 DEF LoadMarks, Recorded, ReturnsOf, TypeOK, Locals
  <2> QED BY <1>3, <2>2, <2>3
<1>7. ASSUME NEW w \in Writers, Update(w) \/ UpdateUnacknowledged(w)
      PROVE  ExcursionInv'
  <2>1. /\ pc[w] = "update" /\ Persist(w) /\ pc'[w] = "idle"
        /\ \A v \in Writers \ {w} : pc'[v] = pc[v] /\ local'[v] = local[v]
    BY <1>7 DEF Update, UpdateUnacknowledged, Return, TypeOK
  <2>2. \A p \in Ids :
          /\ RealIn(marks'[p], measures'[p])
          /\ ReturnsOf(marks[p], Len(marks[p])) \subseteq ReturnsOf(marks'[p], Len(marks'[p]))
    BY <2>1, PersistExcursions
  <2>3. ASSUME NEW v \in Writers \ {w}
        PROVE  PriorInv(v)'
    <3>1. pc[v] # "idle" => local[v].id \in Ids
      BY DEF TypeOK, Locals
    <3> QED BY <1>1, <2>1, <2>2, <3>1 DEF PriorInv
  <2>4. PriorInv(w)'
    BY <2>1 DEF PriorInv
  <2> QED BY <2>2, <2>3, <2>4 DEF ExcursionInv
<1>8. ASSUME NEW w \in Writers, Conflict(w)
      PROVE  ExcursionInv'
  <2>1. UNCHANGED <<marks, measures>>
    BY <1>8 DEF Conflict
  <2>2. CASE Return(w, "error")
    BY <1>2, <2>1, <2>2
  <2>3. CASE /\ pc' = [pc EXCEPT ![w] = "load"]
             /\ local' = [local EXCEPT ![w].attempt = @ + 1, ![w].prior = {}]
    <3>1. local[w] \in Locals
      BY <1>8 DEF Conflict, TypeOK
    <3>2. /\ local'[w].prior = {}
          /\ \A v \in Writers \ {w} : pc'[v] = pc[v] /\ local'[v] = local[v]
      BY <2>3, <3>1 DEF TypeOK, Locals
    <3> QED BY <1>3, <2>1, <3>2, FS_EmptySet
  <2> QED BY <1>8, <2>2, <2>3 DEF Conflict
<1>9. ASSUME NEW w \in Writers, Fail(w)
      PROVE  ExcursionInv'
  BY <1>2, <1>9 DEF Fail
<1>10. CASE UNCHANGED vars
  BY <1>1, <1>10 DEF vars, ExcursionInv, PriorInv
<1> QED
  BY <1>4, <1>5, <1>6, <1>7, <1>8, <1>9, <1>10
  DEF Next, CallOpen, CallRecordMark, CallRecordNoRoute

\* For any number of writers and marks: the excursions of an executable mark
\* enclose its own return and are returns the position really had by then.
THEOREM ExcursionsAlwaysReal == Spec => []ExcursionsAreReal
<1>1. ExcursionInv => ExcursionsAreReal
  BY DEF ExcursionInv, RealIn, ReturnsOf, ExcursionsAreReal, Recorded
<1> QED
  BY <1>1, TypeInit, TypeStep, ExcursionInit, ExcursionStep, PTL DEF Spec
=============================================================================
