--------------------------- MODULE TradingProofs ---------------------------
(***************************************************************************)
(* The trading goroutine: monitor passes leave out no position and ask by      *)
(* age, for any number of positions, any quotes, fees, limits and restarts; and  *)
(* under any brisk workload a pass is run between two scans and in time.       *)
(***************************************************************************)
EXTENDS PositionMonitor, Cadence, FiniteSetTheorems, SequenceTheorems, TLAPS

-----------------------------------------------------------------------------
(* The inductive invariant of PositionMonitor.                              *)

\* A position joins the order of opened_at once, when it is filled.
OpenedOnce ==
    /\ \A i, j \in DOMAIN opened : i # j => opened[i] # opened[j]
    /\ \A p \in Ids : row[p].state \in {"NONE", "PENDING"} => \A i \in DOMAIN opened : opened[i] # p
    /\ \A p \in Ids : row[p].state = "OPEN" => \E i \in DOMAIN opened : opened[i] = p

\* The broker fills a pending position.
CandPending ==
    /\ job # "broker" => cand = NoCand
    /\ \A p \in cand : p \in Ids /\ row[p].state = "PENDING"

\* Who still has a chance has missed fewer routes than the limit.
MissesBelowLimit ==
    \A p \in Ids : row[p].state \notin TerminalStates => row[p].count < MaxNoRoutes

\* A pass asks about each position it listed, once.
PassInv ==
    /\ job # "monitor" => todo = <<>> /\ heldAt = NoPass /\ marked = {}
    /\ \A i, j \in DOMAIN todo : i # j => todo[i] # todo[j]
    /\ \A p \in DOMAIN heldAt : p \in marked \/ \E i \in DOMAIN todo : todo[i] = p
    /\ \A i \in DOMAIN todo : todo[i] \in DOMAIN heldAt /\ todo[i] \notin marked

\* Whoever's time was up when the pass began is no longer held, but for want of
\* a route.
TimeIsUp ==
    \A p \in marked : heldAt[p] = MaxHoldDuration =>
      row[p].state \in TerminalStates \/ row[p].count > 0

MonitorInv ==
    /\ TypeOK
    /\ OpenedOnce /\ CandPending /\ MissesBelowLimit
    /\ PassInv /\ TimeIsUp /\ OldestFirst

LEMMA ConstantFacts ==
  /\ MaxNoRoutes \in Nat \ {0} /\ MaxHoldDuration \in Nat \ {0} /\ MaxCrashes \in Nat
  /\ IsFiniteSet(Ids)
  BY MonitorAssumption, PolicyAssumption

LEMMA NothingIsEmpty == DOMAIN NoPass = {} /\ <<>> \in Seq(Ids) /\ DOMAIN <<>> = {} /\ Len(<<>>) = 0
  BY DEF NoPass

LEMMA MonitorInit == Init => MonitorInv
<1> SUFFICES ASSUME Init PROVE MonitorInv
  OBVIOUS
<1> USE ConstantFacts, NothingIsEmpty DEF Init
<1>1. TypeOK
  BY DEF TypeOK, States
<1>2. OpenedOnce /\ CandPending /\ MissesBelowLimit
  BY DEF OpenedOnce, CandPending, MissesBelowLimit, NoCand
<1>3. PassInv /\ TimeIsUp /\ OldestFirst
  BY DEF PassInv, TimeIsUp, OldestFirst
<1> QED BY <1>1, <1>2, <1>3 DEF MonitorInv

\* While no pass runs there is nothing to say about one.
LEMMA NoPassHolds ==
  ASSUME job # "monitor", todo = <<>>, heldAt = NoPass, marked = {}
  PROVE  /\ PassInv /\ TimeIsUp /\ OldestFirst
         /\ todo \in Seq(Ids) /\ DOMAIN heldAt \subseteq Ids /\ marked \subseteq DOMAIN heldAt
  BY NothingIsEmpty DEF PassInv, TimeIsUp, OldestFirst

\* The end of a pass, and of the process.
LEMMA OverStep ==
  ASSUME MonitorInv, Over, UNCHANGED <<row, opened, held>>, cand' = NoCand,
         crashes' \in 0 .. MaxCrashes
  PROVE  MonitorInv'
<1>1. PassInv' /\ TimeIsUp' /\ OldestFirst'
      /\ todo' \in Seq(Ids) /\ DOMAIN heldAt' \subseteq Ids /\ marked' \subseteq DOMAIN heldAt'
  BY NoPassHolds, NothingIsEmpty DEF Over, PassInv, TimeIsUp, OldestFirst
<1>2. TypeOK'
  BY <1>1 DEF MonitorInv, TypeOK, Over
<1>3. OpenedOnce' /\ CandPending' /\ MissesBelowLimit'
  BY DEF MonitorInv, OpenedOnce, CandPending, MissesBelowLimit, NoCand
<1> QED BY <1>1, <1>2, <1>3 DEF MonitorInv

LEMMA AdmitStep ==
  ASSUME MonitorInv, NEW p \in Ids, Admit(p)
  PROVE  MonitorInv'
<1>1. /\ job = "select" /\ job' = "broker" /\ cand' = {p}
      /\ UNCHANGED <<opened, held, todo, heldAt, marked, crashes>>
      /\ row[p].state = "NONE"
  BY DEF Admit, pass
<1>2. /\ row' \in [Ids -> [state : States, count : 0 .. MaxNoRoutes]]
      /\ row'[p].state = "PENDING" /\ row'[p].count = row[p].count
      /\ \A q \in Ids \ {p} : row'[q] = row[q]
  BY DEF Admit, MonitorInv, TypeOK, States
<1>3. TypeOK'
  BY <1>1, <1>2 DEF MonitorInv, TypeOK
<1>4. OpenedOnce'
  BY <1>1, <1>2 DEF MonitorInv, OpenedOnce
<1>5. CandPending' /\ MissesBelowLimit'
  BY <1>1, <1>2 DEF MonitorInv, CandPending, MissesBelowLimit, NoCand, TerminalStates
<1>6. PassInv' /\ TimeIsUp' /\ OldestFirst'
  BY <1>1, NothingIsEmpty DEF MonitorInv, PassInv, TimeIsUp, OldestFirst
<1> QED BY <1>3, <1>4, <1>5, <1>6 DEF MonitorInv

LEMMA FillStep ==
  ASSUME MonitorInv, NEW p \in Ids, Fill(p)
  PROVE  MonitorInv'
<1>1. /\ job = "broker" /\ job' = "select" /\ cand = {p} /\ cand' = NoCand
      /\ UNCHANGED <<held, todo, heldAt, marked, crashes>>
  BY DEF Fill, pass
<1>2. /\ row' \in [Ids -> [state : States, count : 0 .. MaxNoRoutes]]
      /\ row'[p].state = "OPEN" /\ row'[p].count = row[p].count
      /\ \A q \in Ids \ {p} : row'[q] = row[q]
  BY DEF Fill, MonitorInv, TypeOK, States
<1>3. row[p].state = "PENDING"
  BY <1>1 DEF MonitorInv, CandPending
<1> DEFINE n == Len(opened)
<1>4. /\ opened' \in Seq(Ids) /\ n \in Nat /\ DOMAIN opened = 1 .. n /\ DOMAIN opened' = 1 .. n + 1
      /\ \A i \in 1 .. n : opened'[i] = opened[i]
      /\ opened'[n + 1] = p
  BY DEF Fill, MonitorInv, TypeOK
<1>5. TypeOK'
  BY <1>1, <1>2, <1>4 DEF MonitorInv, TypeOK, NoCand
<1>6. OpenedOnce'
  <2>1. \A i \in 1 .. n : opened[i] # p
    BY <1>3, <1>4 DEF MonitorInv, OpenedOnce
  <2>2. \A i, j \in 1 .. n + 1 : i # j => opened'[i] # opened'[j]
    BY <1>4, <2>1 DEF MonitorInv, OpenedOnce
  <2>3. \A q \in Ids : row'[q].state \in {"NONE", "PENDING"} => \A i \in 1 .. n + 1 : opened'[i] # q
    BY <1>2, <1>4 DEF MonitorInv, OpenedOnce
  <2>4. \A q \in Ids : row'[q].state = "OPEN" => \E i \in 1 .. n + 1 : opened'[i] = q
    <3> SUFFICES ASSUME NEW q \in Ids, row'[q].state = "OPEN" PROVE \E i \in 1 .. n + 1 : opened'[i] = q
      OBVIOUS
    <3>1. CASE q = p
      BY <1>4, <3>1
    <3>2. CASE q # p
      <4>1. PICK i \in 1 .. n : opened[i] = q
        BY <1>2, <1>4, <3>2 DEF MonitorInv, OpenedOnce
      <4> QED BY <1>4, <4>1
    <3> QED BY <3>1, <3>2
  <2> QED BY <1>4, <2>2, <2>3, <2>4 DEF OpenedOnce
<1>7. CandPending' /\ MissesBelowLimit'
  BY <1>1, <1>2, <1>3 DEF MonitorInv, CandPending, MissesBelowLimit, NoCand, TerminalStates
<1>8. PassInv' /\ TimeIsUp' /\ OldestFirst'
  BY <1>1, NothingIsEmpty DEF MonitorInv, PassInv, TimeIsUp, OldestFirst
<1> QED BY <1>5, <1>6, <1>7, <1>8 DEF MonitorInv

LEMMA FillFailsStep ==
  ASSUME MonitorInv, FillFails
  PROVE  MonitorInv'
<1>1. Over
  BY DEF MonitorInv, PassInv, FillFails, Over, pass
<1> QED BY <1>1, OverStep DEF MonitorInv, TypeOK, FillFails, rows

-----------------------------------------------------------------------------
(* The list a pass begins with.                                             *)

\* Nobody is opened twice, so opened_at orders the positions.
LEMMA OpenedBeforeIsStrict ==
  ASSUME MonitorInv, NEW p
  PROVE  ~ OpenedBefore(p, p)
<1>1. DOMAIN opened = 1 .. Len(opened) /\ Len(opened) \in Nat
  BY DEF MonitorInv, TypeOK
<1>2. \A k, l \in DOMAIN opened : k < l => k # l
  BY <1>1
<1> QED BY <1>2 DEF MonitorInv, OpenedOnce, OpenedBefore

\* Sorted lists have no repetitions, and a list without repetitions that is as
\* long as the set it lists leaves nobody out.
LEMMA ListIsComplete ==
  ASSUME MonitorInv, NEW t \in ListOpen
  PROVE  /\ t \in Seq(Ids) /\ Len(t) \in Nat /\ DOMAIN t = 1 .. Len(t)
         /\ \A i, j \in DOMAIN t : i < j => OpenedBefore(t[i], t[j])
         /\ \A i, j \in DOMAIN t : i # j => t[i] # t[j]
         /\ \A i \in DOMAIN t : t[i] \in In({"OPEN"})
         /\ \A p \in In({"OPEN"}) : \E i \in DOMAIN t : t[i] = p
<1> DEFINE P == In({"OPEN"})
           n == Cardinality(P)
<1>1. P \in SUBSET Ids /\ IsFiniteSet(P)
  BY ConstantFacts, FS_Subset DEF In
<1>2. n \in Nat
  BY <1>1, FS_CardinalityType
<1>3. t \in [1 .. n -> P] /\ \A i, j \in 1 .. n : i < j => OpenedBefore(t[i], t[j])
  BY DEF ListOpen, Lists
<1> HIDE DEF n, P
<1>4. \A i, j \in 1 .. n : i # j => t[i] # t[j]
  <2> SUFFICES ASSUME NEW i \in 1 .. n, NEW j \in 1 .. n, i # j, t[i] = t[j]
               PROVE  FALSE
    OBVIOUS
  <2>1. i < j \/ j < i
    BY <1>2
  <2>2. OpenedBefore(t[i], t[i])
    BY <1>3, <2>1
  <2> QED BY <2>2, OpenedBeforeIsStrict
<1>5. t \in Injection(1 .. n, P)
  BY <1>3, <1>4 DEF Injection, IsInjective
<1>6. IsFiniteSet(1 .. n) /\ Cardinality(1 .. n) = n
  BY <1>2, FS_Interval
<1>7. t \in Surjection(1 .. n, P)
  BY <1>1, <1>5, <1>6, FS_Injection DEF n
<1>8. \A p \in P : \E i \in 1 .. n : t[i] = p
  BY <1>7 DEF Surjection
<1>9. t \in Seq(Ids) /\ Len(t) = n /\ DOMAIN t = 1 .. n
  BY <1>1, <1>2, <1>3
<1> QED BY <1>2, <1>3, <1>4, <1>8, <1>9 DEF P

LEMMA StartPassStep ==
  ASSUME MonitorInv, StartPass
  PROVE  MonitorInv'
<1>1. /\ job' = "monitor" /\ UNCHANGED <<row, opened, held, cand, crashes>>
      /\ job = "select"
      /\ heldAt' = [p \in In({"OPEN"}) |-> held[p]] /\ marked' = {}
  BY DEF StartPass, rows, HeldNow
<1>2. /\ todo' \in Seq(Ids) /\ DOMAIN todo' = 1 .. Len(todo')
      /\ \A i, j \in DOMAIN todo' : i < j => OpenedBefore(todo'[i], todo'[j])
      /\ \A i, j \in DOMAIN todo' : i # j => todo'[i] # todo'[j]
      /\ \A i \in DOMAIN todo' : todo'[i] \in In({"OPEN"})
      /\ \A p \in In({"OPEN"}) : \E i \in DOMAIN todo' : todo'[i] = p
  <2>1. todo' \in ListOpen
    BY DEF StartPass
  <2> QED BY <2>1, ListIsComplete
<1>3. DOMAIN heldAt' = In({"OPEN"}) /\ In({"OPEN"}) \subseteq Ids
  BY <1>1 DEF In
<1>4. TypeOK'
  BY <1>1, <1>2, <1>3 DEF MonitorInv, TypeOK
<1>5. OpenedOnce' /\ CandPending' /\ MissesBelowLimit'
  BY <1>1 DEF MonitorInv, OpenedOnce, CandPending, MissesBelowLimit
<1>6. PassInv'
  BY <1>1, <1>2, <1>3 DEF PassInv
<1>7. TimeIsUp'
  BY <1>1 DEF TimeIsUp
<1>8. OldestFirst'
  BY <1>1, <1>2 DEF OldestFirst, OpenedBefore, In
<1> QED BY <1>4, <1>5, <1>6, <1>7, <1>8 DEF MonitorInv

-----------------------------------------------------------------------------
(* Asking about a position.                                                 *)

\* What RecordMark and RecordNoRoute make of position p's row.
Answers(p, s, n) ==
    /\ row' = [row EXCEPT ![p] = [state |-> s, count |-> n]]
    /\ s \in {"OPEN"} \union TerminalStates
    /\ n \in 0 .. MaxNoRoutes
    /\ s = "OPEN" => n < MaxNoRoutes
    /\ heldAt[p] = MaxHoldDuration => s \in TerminalStates \/ n > 0

LEMMA AskedIsOpen ==
  ASSUME MonitorInv, NEW p, Asking(p)
  PROVE  /\ p \in Ids /\ job = "monitor" /\ row[p].state = "OPEN" /\ row[p].count < MaxNoRoutes
         /\ p \in DOMAIN heldAt /\ p \notin marked
         /\ Len(todo) \in Nat /\ Len(todo) > 0 /\ todo[1] = p
         /\ DOMAIN todo = 1 .. Len(todo) /\ DOMAIN Tail(todo) = 1 .. Len(todo) - 1
         /\ Tail(todo) \in Seq(Ids) /\ Len(Tail(todo)) = Len(todo) - 1
         /\ \A i \in 1 .. Len(todo) - 1 : Tail(todo)[i] = todo[i + 1]
<1>1. todo \in Seq(Ids) /\ todo # <<>> /\ job = "monitor" /\ Head(todo) = p
  BY DEF MonitorInv, TypeOK, Asking
<1>2. /\ Len(todo) \in Nat /\ Len(todo) > 0 /\ todo[1] = p /\ p \in Ids
      /\ DOMAIN todo = 1 .. Len(todo) /\ DOMAIN Tail(todo) = 1 .. Len(todo) - 1
      /\ Tail(todo) \in Seq(Ids) /\ Len(Tail(todo)) = Len(todo) - 1
      /\ \A i \in 1 .. Len(todo) - 1 : Tail(todo)[i] = todo[i + 1]
  BY <1>1
<1>3. row[p].state = "OPEN" /\ p \in DOMAIN heldAt /\ p \notin marked
  BY <1>2 DEF MonitorInv, OldestFirst, PassInv
<1>4. row[p].count < MaxNoRoutes
  BY <1>2, <1>3 DEF MonitorInv, MissesBelowLimit, TerminalStates
<1> QED BY <1>1, <1>2, <1>3, <1>4

LEMMA AnswerStep ==
  ASSUME MonitorInv, NEW p, Asking(p), NEW s, NEW n, Answers(p, s, n), Marked(p),
         UNCHANGED <<opened, held, cand, crashes>>
  PROVE  MonitorInv'
<1>1. /\ p \in Ids /\ job = "monitor" /\ row[p].state = "OPEN"
      /\ p \in DOMAIN heldAt /\ p \notin marked
  BY AskedIsOpen
<1>2. /\ row' \in [Ids -> [state : States, count : 0 .. MaxNoRoutes]]
      /\ row'[p].state = s /\ row'[p].count = n
      /\ \A q \in Ids \ {p} : row'[q] = row[q]
  <2> DEFINE new == [state |-> s, count |-> n]
  <2>1. new \in [state : States, count : 0 .. MaxNoRoutes] /\ new.state = s /\ new.count = n
    BY DEF Answers, States, TerminalStates
  <2>2. row' = [row EXCEPT ![p] = new]
    BY DEF Answers
  <2> HIDE DEF new
  <2> QED BY <1>1, <2>1, <2>2 DEF MonitorInv, TypeOK
<1>3. OpenedOnce'
  BY <1>1, <1>2 DEF MonitorInv, OpenedOnce, Answers, TerminalStates
<1>4. cand = NoCand /\ cand' = NoCand /\ job' # "broker"
  BY <1>1 DEF MonitorInv, CandPending, Marked, Abort, Over
<1>5. CandPending'
  BY <1>4 DEF CandPending, NoCand
<1>6. MissesBelowLimit'
  BY <1>2 DEF MonitorInv, MissesBelowLimit, Answers
<1>7. CASE Abort
  <2>1. PassInv' /\ TimeIsUp' /\ OldestFirst'
        /\ todo' \in Seq(Ids) /\ DOMAIN heldAt' \subseteq Ids /\ marked' \subseteq DOMAIN heldAt'
    BY <1>7, NothingIsEmpty DEF Abort, Over, PassInv, TimeIsUp, OldestFirst
  <2>2. TypeOK'
    BY <1>2, <1>4, <1>7, <2>1 DEF MonitorInv, TypeOK, Abort, Over
  <2> QED BY <1>3, <1>5, <1>6, <2>1, <2>2 DEF MonitorInv
<1>8. CASE /\ todo' = Tail(todo)
           /\ marked' = marked \union {p}
           /\ UNCHANGED <<job, heldAt>>
  <2> DEFINE m == Len(todo)
  <2>1. /\ m \in Nat /\ m > 0 /\ todo[1] = p /\ DOMAIN todo = 1 .. m
        /\ todo' \in Seq(Ids) /\ Len(todo') = m - 1 /\ DOMAIN todo' = 1 .. m - 1
        /\ \A i \in 1 .. m - 1 : todo'[i] = todo[i + 1]
    BY <1>8, AskedIsOpen
  <2> HIDE DEF m
  <2>2. \A i \in 1 .. m - 1 : i + 1 \in 1 .. m /\ i + 1 # 1
    BY <2>1
  <2>3. \A i \in 1 .. m - 1 : todo'[i] # p /\ todo'[i] \in DOMAIN heldAt /\ todo'[i] \notin marked
    <3> SUFFICES ASSUME NEW i \in 1 .. m - 1
                 PROVE  todo'[i] # p /\ todo'[i] \in DOMAIN heldAt /\ todo'[i] \notin marked
      OBVIOUS
    <3>1. todo'[i] = todo[i + 1] /\ i + 1 \in DOMAIN todo /\ i + 1 # 1 /\ 1 \in DOMAIN todo
      BY <2>1, <2>2
    <3> QED BY <2>1, <3>1 DEF MonitorInv, PassInv
  <2>4. TypeOK'
    BY <1>1, <1>2, <1>4, <1>8, <2>1 DEF MonitorInv, TypeOK
  <2>5. PassInv'
    <3>1. \A i, j \in DOMAIN todo' : i # j => todo'[i] # todo'[j]
      <4> SUFFICES ASSUME NEW i \in 1 .. m - 1, NEW j \in 1 .. m - 1, i # j
                   PROVE  todo'[i] # todo'[j]
        BY <2>1
      <4>1. i + 1 \in DOMAIN todo /\ j + 1 \in DOMAIN todo /\ i + 1 # j + 1
        BY <2>1, <2>2
      <4>2. todo[i + 1] # todo[j + 1]
        BY <4>1 DEF MonitorInv, PassInv
      <4> QED BY <2>1, <4>2
    <3>2. ASSUME NEW q \in DOMAIN heldAt, q \notin marked'
          PROVE  \E i \in DOMAIN todo' : todo'[i] = q
      <4>1. PICK i \in 1 .. m : todo[i] = q
        BY <1>8, <2>1, <3>2 DEF MonitorInv, PassInv
      <4>2. i # 1
        BY <1>8, <2>1, <3>2, <4>1
      <4>3. i - 1 \in 1 .. m - 1 /\ todo'[i - 1] = todo[(i - 1) + 1] /\ (i - 1) + 1 = i
        BY <2>1, <4>1, <4>2
      <4> QED BY <2>1, <4>1, <4>3
    <3> QED BY <1>1, <1>8, <2>1, <2>3, <3>1, <3>2 DEF MonitorInv, PassInv
  <2>6. TimeIsUp'
    <3>1. heldAt[p] = MaxHoldDuration => s \in TerminalStates \/ n > 0
      BY DEF Answers
    <3>2. marked \subseteq Ids
      BY DEF MonitorInv, TypeOK
    <3> QED BY <1>1, <1>2, <1>8, <3>1, <3>2 DEF MonitorInv, TimeIsUp
  <2>7. OldestFirst'
    <3>1. \A i \in 1 .. m - 1 : row'[todo'[i]].state = "OPEN"
      <4> SUFFICES ASSUME NEW i \in 1 .. m - 1 PROVE row'[todo'[i]].state = "OPEN"
        OBVIOUS
      <4>1. todo'[i] \in Ids \ {p}
        BY <2>3 DEF MonitorInv, TypeOK
      <4>2. row[todo[i + 1]].state = "OPEN"
        BY <2>1, <2>2 DEF MonitorInv, OldestFirst, m
      <4> QED BY <1>2, <2>1, <4>1, <4>2
    <3>2. \A i, j \in 1 .. m - 1 : i < j => OpenedBefore(todo'[i], todo'[j])
      <4> SUFFICES ASSUME NEW i \in 1 .. m - 1, NEW j \in 1 .. m - 1, i < j
                   PROVE  OpenedBefore(todo'[i], todo'[j])
        OBVIOUS
      <4>1. i + 1 \in 1 .. m /\ j + 1 \in 1 .. m /\ i + 1 < j + 1
        BY <2>1
      <4>2. OpenedBefore(todo[i + 1], todo[j + 1])
        BY <4>1 DEF MonitorInv, OldestFirst, m
      <4> QED BY <2>1, <4>2
    <3> QED BY <2>1, <3>1, <3>2 DEF OldestFirst, OpenedBefore
  <2> QED BY <1>3, <1>5, <1>6, <2>4, <2>5, <2>6, <2>7 DEF MonitorInv
<1> QED BY <1>7, <1>8 DEF Marked

\* Nobody whose time is up is held on.
LEMMA HoldIsInTime ==
  ASSUME NEW ret, NEW h, h = MaxHoldDuration
  PROVE  Decide(ret, h) # "HOLD"
<1>1. h >= MaxHoldDuration
  BY ConstantFacts
<1> QED BY <1>1 DEF Decide

LEMMA ObserveStep ==
  ASSUME MonitorInv, NEW p \in Ids, NEW out, Observe(p, out)
  PROVE  MonitorInv'
<1>1. Asking(p) /\ UNCHANGED <<opened, held, cand, crashes>>
  BY DEF Observe
<1>2. CASE Abort /\ UNCHANGED row
  <2>1. cand = NoCand
    BY <1>1, AskedIsOpen DEF MonitorInv, CandPending
  <2> QED BY <1>1, <1>2, <2>1, OverStep DEF Abort, MonitorInv, TypeOK
<1>3. CASE NetOutput(out, ExitFees) # 0
  <2> DEFINE s == IF ExitReason(p, out) = "HOLD" THEN "OPEN" ELSE "CLOSED"
  <2>1. row' = [row EXCEPT ![p] = [state |-> s, count |-> 0]] /\ Marked(p)
    BY <1>3 DEF Observe
  <2>2. heldAt[p] = MaxHoldDuration => ExitReason(p, out) # "HOLD"
    BY HoldIsInTime DEF ExitReason
  <2>3. s \in {"OPEN", "CLOSED"} /\ (heldAt[p] = MaxHoldDuration => s = "CLOSED")
    BY <2>2
  <2> HIDE DEF s
  <2>4. Answers(p, s, 0)
    BY <2>1, <2>3, ConstantFacts DEF Answers, TerminalStates
  <2> QED BY <1>1, <2>1, <2>4, AnswerStep
<1> QED BY <1>2, <1>3 DEF Observe

LEMMA MissStep ==
  ASSUME MonitorInv, NEW p \in Ids, Miss(p)
  PROVE  MonitorInv'
<1> DEFINE n == row[p].count + 1
           s == IF GivesUp(n) THEN "UNSELLABLE" ELSE "OPEN"
<1>1. /\ Asking(p) /\ Marked(p) /\ UNCHANGED <<opened, held, cand, crashes>>
      /\ row' = [row EXCEPT ![p] = [state |-> s, count |-> n]]
  BY DEF Miss
<1>2. row[p].count \in 0 .. MaxNoRoutes
  BY DEF MonitorInv, TypeOK
<1>3. n \in 0 .. MaxNoRoutes /\ n > 0
  BY <1>1, <1>2, AskedIsOpen, ConstantFacts
<1>4. s \in {"OPEN", "UNSELLABLE"} /\ (s = "OPEN" => n < MaxNoRoutes)
  BY <1>3, ConstantFacts DEF GivesUp
<1> HIDE DEF n, s
<1>5. Answers(p, s, n)
  BY <1>1, <1>3, <1>4 DEF Answers, TerminalStates
<1> QED BY <1>1, <1>5, AnswerStep

LEMMA TickStep ==
  ASSUME MonitorInv, Tick
  PROVE  MonitorInv'
<1>1. UNCHANGED <<row, opened, job, cand, todo, heldAt, marked, crashes>>
  BY DEF Tick, pass
<1>2. held' \in [Ids -> 0 .. MaxHoldDuration]
  BY ConstantFacts DEF Tick, MonitorInv, TypeOK
<1>3. TypeOK'
  BY <1>1, <1>2 DEF MonitorInv, TypeOK
<1> QED BY <1>1, <1>3 DEF MonitorInv, OpenedOnce, CandPending, MissesBelowLimit, PassInv, TimeIsUp,
                          OldestFirst, OpenedBefore

LEMMA EndOfJobStep ==
  ASSUME MonitorInv, QuoteFails \/ EndPass \/ Crash
  PROVE  MonitorInv'
<1>1. Over /\ UNCHANGED <<row, opened, held>>
  BY DEF QuoteFails, EndPass, Crash, Abort, rows
<1>2. cand' = NoCand
  BY DEF MonitorInv, CandPending, QuoteFails, EndPass, Crash
<1>3. crashes' \in 0 .. MaxCrashes
  BY ConstantFacts DEF MonitorInv, TypeOK, QuoteFails, EndPass, Crash
<1> QED BY <1>1, <1>2, <1>3, OverStep

LEMMA MonitorStep == MonitorInv /\ [Next]_vars => MonitorInv'
<1> SUFFICES ASSUME MonitorInv, [Next]_vars PROVE MonitorInv'
  OBVIOUS
<1>1. CASE UNCHANGED vars
  BY <1>1 DEF vars, MonitorInv, TypeOK, OpenedOnce, CandPending, MissesBelowLimit, PassInv, TimeIsUp,
              OldestFirst, OpenedBefore
<1> QED BY <1>1, AdmitStep, FillStep, FillFailsStep, StartPassStep, ObserveStep, MissStep, TickStep,
           EndOfJobStep DEF Next

LEMMA MonitorInvHolds == Spec => []MonitorInv
  BY MonitorInit, MonitorStep, PTL DEF Spec

-----------------------------------------------------------------------------
(* Theorems about PositionMonitor.                                          *)

\* Rows, passes and the broker's candidate stay what they are meant to be: no
\* streak of missing routes goes past its limit.
THEOREM TypeCorrect == Spec => []TypeOK
  BY MonitorInvHolds, PTL DEF MonitorInv

\* A pass only ever has open positions before it, the one opened first in front,
\* however many failed or restarted passes came before.
THEOREM AskedByAge == Spec => []OldestFirst
  BY MonitorInvHolds, PTL DEF MonitorInv

\* A pass that ends without an error has marked every position it listed, and
\* let go of each whose time was up, unless that one had no route.
THEOREM PassesAlwaysThorough == Spec => PassesAreThorough
<1>1. ASSUME MonitorInv, EndPass, NEW p \in DOMAIN heldAt
      PROVE  /\ p \in marked
             /\ heldAt[p] = MaxHoldDuration => row[p].state \in TerminalStates \/ row[p].count > 0
  <2>1. DOMAIN todo = {}
    BY <1>1, NothingIsEmpty DEF EndPass
  <2>2. p \in marked
    BY <1>1, <2>1 DEF MonitorInv, PassInv
  <2> QED BY <1>1, <2>2 DEF MonitorInv, TimeIsUp
<1>2. MonitorInv /\ [Next]_vars =>
        [EndPass => \A p \in DOMAIN heldAt :
           /\ p \in marked
           /\ heldAt[p] = MaxHoldDuration => row[p].state \in TerminalStates \/ row[p].count > 0]_vars
  BY <1>1
<1> QED BY <1>2, MonitorInvHolds, PTL DEF Spec, PassesAreThorough

-----------------------------------------------------------------------------
(* The cadence.  Rounds of monitor and retry that take at most half their      *)
(* interval hold up at most one tick each, so a scan that is due waits for two  *)
(* of them at most and the one after it is far off when it ends.              *)

\* What is left of the round of monitor and retry that runs, and the longest one.
Round == longest["monitor"] + longest["retry"]
RoundLeft == IF current = "monitor" THEN left + longest["retry"] ELSE left

\* A cancelled job leaves in time.
DyingJob ==
    /\ dying <= PersistTimeout
    /\ Cancelled /\ current \in Jobs => left + dying <= PersistTimeout

\* The tickers are at rest until the initial round is over.
FirstRound ==
    /\ current = "select" => ticking
    /\ ~ ticking =>
         /\ scanIn = ScanInterval /\ monitorIn = MonitorInterval
         /\ ~ scanTick /\ ~ monitorTick
    /\ ~ between => ticking /\ current \notin {"monitor", "retry"}

InRound == current \in {"monitor", "retry"}

\* A round holds up a tick of the monitor, if any; the one that follows holds up none.
OneTickARound == InRound /\ monitorTick => monitorIn > RoundLeft + Round

\* A scan that is due waits for two rounds, of which only the first
\* can leave another to be run.
ScanIsHeldUp ==
    /\ InRound /\ scanTick =>
         /\ ScanInterval - scanIn + RoundLeft <= 2 * Round
         /\ monitorTick \/ monitorIn <= RoundLeft => ScanInterval - scanIn + RoundLeft <= Round
    /\ current = "select" /\ scanTick =>
         /\ ScanInterval - scanIn <= 2 * Round
         /\ monitorTick => ScanInterval - scanIn <= Round /\ monitorIn > Round

\* So the next scan is not due before the monitor.
NextScanIsFar ==
    /\ current = "scan" /\ ticking => ~ scanTick /\ scanIn > left + MonitorInterval
    /\ current = "select" /\ ~ between => ~ scanTick /\ (monitorTick \/ scanIn > monitorIn)

\* How long ago the last pass began.
Ages ==
    /\ InRound => waited + RoundLeft <= Round
    /\ current = "scan" /\ ~ ticking => waited + left <= longest["scan"]
    /\ ticking /\ ~ monitorTick =>
         \/ waited + monitorIn <= MonitorInterval
         \/ /\ current \in {"select", "stopped"}
            /\ waited + monitorIn <= MonitorInterval + Round
            /\ ~ scanTick /\ scanIn > monitorIn
    /\ current = "scan" /\ monitorTick => waited + left <= MonitorInterval + longest["scan"]
    /\ current = "select" /\ monitorTick /\ scanTick => waited <= MonitorInterval

BriskInv == OneTickARound /\ ScanIsHeldUp /\ NextScanIsFar /\ Ages /\ MonitorIsPrompt

CadenceInv ==
    /\ CadenceTypeOK
    /\ DyingJob
    /\ FirstRound
    /\ Brisk => BriskInv

LEMMA CadenceConstants ==
  /\ ScanInterval \in Nat \ {0} /\ MonitorInterval \in Nat \ {0}
  /\ PersistTimeout \in Nat /\ MaxWait \in Nat
  /\ CadenceTypeOK => longest \in [Jobs -> Nat \ {0}]
  /\ CadenceTypeOK => /\ longest["scan"] \in Nat \ {0}
                      /\ longest["monitor"] \in Nat \ {0}
                      /\ longest["retry"] \in Nat \ {0}
<1>1. CadenceTypeOK => longest \in [Jobs -> Nat \ {0}]
  BY CadenceAssumption DEF CadenceTypeOK, Jobs
<1> QED BY <1>1, CadenceAssumption DEF Jobs

LEMMA CadenceStarts == CadenceInit => CadenceInv
<1> SUFFICES ASSUME CadenceInit PROVE CadenceInv
  OBVIOUS
<1>1. CadenceTypeOK
  <2>1. longest \in Limits /\ longest["scan"] \in Nat \ {0}
    BY CadenceAssumption DEF CadenceInit
  <2>2. current \in Jobs /\ left \in Nat /\ left <= longest[current]
    BY <2>1 DEF CadenceInit, Jobs
  <2>3. /\ scanIn \in 1 .. ScanInterval /\ monitorIn \in 1 .. MonitorInterval
        /\ waited \in 0 .. MaxWait + 1 /\ dying \in -1 .. PersistTimeout + 1
    BY CadenceConstants DEF CadenceInit
  <2>4. ticking \in BOOLEAN /\ scanTick \in BOOLEAN /\ monitorTick \in BOOLEAN /\ between \in BOOLEAN
    BY DEF CadenceInit
  <2> QED BY <2>1, <2>2, <2>3, <2>4 DEF CadenceTypeOK
<1>2. DyingJob /\ FirstRound
  BY CadenceConstants DEF CadenceInit, DyingJob, FirstRound, Cancelled
<1>3. BriskInv
  BY <1>1, CadenceConstants
  DEF CadenceInit, BriskInv, OneTickARound, ScanIsHeldUp, NextScanIsFar, Ages, InRound, MonitorIsPrompt
<1> QED BY <1>1, <1>2, <1>3 DEF CadenceInv

LEMMA BeginTypes ==
  ASSUME CadenceTypeOK, NEW j \in Jobs, Begin(j), UNCHANGED longest
  PROVE  /\ current' \in Jobs /\ left' \in Nat /\ left' <= longest'[current']
         /\ waited' \in 0 .. MaxWait + 1 /\ between' \in BOOLEAN
<1>1. longest[j] \in Nat /\ current' = j
  BY CadenceConstants DEF Begin
<1>2. left' \in Nat /\ left' <= longest'[current']
  BY <1>1 DEF Begin
<1>3. waited' \in 0 .. MaxWait + 1
  BY CadenceConstants DEF Begin, CadenceTypeOK
<1>4. between' \in BOOLEAN
  BY DEF Begin
<1> QED BY <1>1, <1>2, <1>3, <1>4

LEMMA CadenceTypes ==
  ASSUME CadenceTypeOK, [CadenceNext]_cadenceVars
  PROVE  CadenceTypeOK'
<1> USE CadenceConstants
<1>1. CASE FinishScan
  <2>1. CASE ticking
    BY <1>1, <2>1 DEF CadenceTypeOK, FinishScan, Jobs, tickers
  <2>2. CASE ~ ticking
    <3>1. Begin("monitor") /\ UNCHANGED <<ticking, tickers, dying, longest>> /\ "monitor" \in Jobs
      BY <1>1, <2>2 DEF FinishScan, Jobs
    <3> QED BY <3>1, BeginTypes DEF CadenceTypeOK, tickers
  <2> QED BY <2>1, <2>2
<1>2. CASE FinishMonitor
  <2>1. Begin("retry") /\ UNCHANGED <<ticking, tickers, dying, longest>> /\ "retry" \in Jobs
    BY <1>2 DEF FinishMonitor, Jobs
  <2> QED BY <2>1, BeginTypes DEF CadenceTypeOK, tickers
<1>3. CASE FinishRetry
  BY <1>3 DEF CadenceTypeOK, FinishRetry, Jobs, tickers
<1>4. CASE SelectScan
  <2>1. /\ Begin("scan") /\ scanTick' = FALSE /\ "scan" \in Jobs
        /\ UNCHANGED <<ticking, scanIn, monitorIn, monitorTick, dying, longest>>
    BY <1>4 DEF SelectScan, TakeScanTick, Jobs
  <2> QED BY <2>1, BeginTypes DEF CadenceTypeOK
<1>5. CASE SelectMonitor
  <2>1. /\ Begin("monitor") /\ monitorTick' = FALSE /\ "monitor" \in Jobs
        /\ UNCHANGED <<ticking, scanIn, monitorIn, scanTick, dying, longest>>
    BY <1>5 DEF SelectMonitor, Jobs
  <2> QED BY <2>1, BeginTypes DEF CadenceTypeOK
<1>6. CASE SelectDone
  BY <1>6 DEF CadenceTypeOK, SelectDone, Jobs, tickers
<1>7. CASE Elapse
  <2>1. /\ current' = current /\ ticking' = ticking /\ between' = between /\ longest' = longest
        /\ left' \in Nat /\ (current \in Jobs => left' <= longest[current])
    BY <1>7 DEF CadenceTypeOK, Elapse, Jobs
  <2>2. /\ scanTick' \in BOOLEAN /\ monitorTick' \in BOOLEAN
        /\ scanIn' \in 1 .. ScanInterval /\ monitorIn' \in 1 .. MonitorInterval
    BY <1>7 DEF CadenceTypeOK, Elapse, Advance, Buffer, tickers
  <2>3. waited' \in 0 .. MaxWait + 1 /\ dying' \in -1 .. PersistTimeout + 1
    BY <1>7 DEF CadenceTypeOK, Elapse, Cancelled
  <2> QED BY <2>1, <2>2, <2>3 DEF CadenceTypeOK
<1>8. CASE Cancel
  BY <1>8 DEF CadenceTypeOK, Cancel, CutShort, Jobs, tickers
<1>9. CASE UNCHANGED cadenceVars
  BY <1>9 DEF CadenceTypeOK, cadenceVars, tickers
<1> QED BY <1>1, <1>2, <1>3, <1>4, <1>5, <1>6, <1>7, <1>8, <1>9 DEF CadenceNext, Stopped

\* Nothing that begins after the cancellation takes time.
LEMMA DyingStep ==
  ASSUME CadenceTypeOK, DyingJob, [CadenceNext]_cadenceVars
  PROVE  DyingJob'
<1> USE CadenceConstants DEF DyingJob, Cancelled, CadenceTypeOK
<1>1. CASE FinishScan
  BY <1>1 DEF FinishScan, Begin, Jobs
<1>2. CASE FinishMonitor
  BY <1>2 DEF FinishMonitor, Begin
<1>3. CASE FinishRetry
  BY <1>3 DEF FinishRetry, Jobs
<1>4. CASE SelectScan
  BY <1>4 DEF SelectScan, Begin
<1>5. CASE SelectMonitor
  BY <1>5 DEF SelectMonitor, Begin
<1>6. CASE SelectDone
  BY <1>6 DEF SelectDone, Jobs
<1>7. CASE Elapse
  BY <1>7 DEF Elapse, Done, Jobs
<1>8. CASE Cancel
  BY <1>8 DEF Cancel, CutShort, Jobs
<1>9. CASE UNCHANGED cadenceVars
  BY <1>9 DEF cadenceVars
<1> QED BY <1>1, <1>2, <1>3, <1>4, <1>5, <1>6, <1>7, <1>8, <1>9 DEF CadenceNext, Stopped

LEMMA FirstRoundStep ==
  ASSUME CadenceTypeOK, FirstRound, [CadenceNext]_cadenceVars
  PROVE  FirstRound'
<1> USE DEF FirstRound, tickers
<1>1. CASE FinishScan
  BY <1>1 DEF FinishScan, Begin
<1>2. CASE FinishMonitor
  BY <1>2 DEF FinishMonitor, Begin
<1>3. CASE FinishRetry
  BY <1>3 DEF FinishRetry, CadenceTypeOK
<1>4. CASE SelectScan
  BY <1>4 DEF SelectScan, Begin, CadenceTypeOK
<1>5. CASE SelectMonitor
  BY <1>5 DEF SelectMonitor, Begin, CadenceTypeOK
<1>6. CASE SelectDone
  BY <1>6 DEF SelectDone
<1>7. CASE Elapse
  BY <1>7 DEF Elapse
<1>8. CASE Cancel
  BY <1>8 DEF Cancel
<1>9. CASE UNCHANGED cadenceVars
  BY <1>9 DEF cadenceVars
<1> QED BY <1>1, <1>2, <1>3, <1>4, <1>5, <1>6, <1>7, <1>8, <1>9 DEF CadenceNext, Stopped

\* What the proofs about a brisk workload need to know of a state.
LEMMA BriskTypes ==
  ASSUME CadenceTypeOK, Brisk
  PROVE  /\ longest["scan"] \in Nat /\ longest["scan"] > 0
         /\ longest["monitor"] \in Nat /\ longest["monitor"] > 0
         /\ longest["retry"] \in Nat /\ longest["retry"] > 0
         /\ MonitorInterval \in Nat /\ ScanInterval \in Nat
         /\ 2 * longest["monitor"] + 2 * longest["retry"] <= MonitorInterval
         /\ longest["scan"] + 2 * MonitorInterval < ScanInterval
         /\ left \in Nat /\ (current \in Jobs => left <= longest[current])
         /\ scanIn \in Nat /\ 1 <= scanIn /\ scanIn <= ScanInterval
         /\ monitorIn \in Nat /\ 1 <= monitorIn /\ monitorIn <= MonitorInterval
         /\ waited \in Nat
         /\ Round \in Nat /\ Round = longest["monitor"] + longest["retry"]
         /\ RoundLeft \in Nat /\ (InRound => RoundLeft <= Round)
<1>1. /\ longest["scan"] \in Nat /\ longest["scan"] > 0
      /\ longest["monitor"] \in Nat /\ longest["monitor"] > 0
      /\ longest["retry"] \in Nat /\ longest["retry"] > 0
      /\ MonitorInterval \in Nat /\ ScanInterval \in Nat /\ MaxWait \in Nat
  BY CadenceConstants
<1>2. /\ 2 * longest["monitor"] + 2 * longest["retry"] <= MonitorInterval
      /\ longest["scan"] + 2 * MonitorInterval < ScanInterval
  BY <1>1 DEF Brisk
<1>3. /\ left \in Nat /\ (current \in Jobs => left <= longest[current])
      /\ scanIn \in Nat /\ 1 <= scanIn /\ scanIn <= ScanInterval
      /\ monitorIn \in Nat /\ 1 <= monitorIn /\ monitorIn <= MonitorInterval
      /\ waited \in Nat
  BY <1>1 DEF CadenceTypeOK
<1>4. Round \in Nat /\ Round = longest["monitor"] + longest["retry"]
  BY <1>1 DEF Round
<1>5. RoundLeft \in Nat /\ (InRound => RoundLeft <= Round)
  BY <1>1, <1>3 DEF Round, RoundLeft, InRound, Jobs
<1> QED BY <1>1, <1>2, <1>3, <1>4, <1>5

LEMMA FinishScanKeepsPace ==
  ASSUME CadenceTypeOK, CadenceTypeOK', FirstRound, FirstRound', Brisk, BriskInv, FinishScan
  PROVE  BriskInv'
<1> USE BriskTypes DEF InRound, RoundLeft, FirstRound
<1>1. longest' = longest /\ Round' = Round
  BY DEF FinishScan, Round
<1>2. OneTickARound'
  BY <1>1 DEF BriskInv, OneTickARound, FinishScan, Begin, tickers
<1>3. ScanIsHeldUp'
  BY <1>1 DEF BriskInv, NextScanIsFar, ScanIsHeldUp, FinishScan, Begin, tickers
<1>4. NextScanIsFar'
  BY <1>1 DEF BriskInv, ScanIsHeldUp, NextScanIsFar, FinishScan, Begin, tickers
<1>5. Ages'
  BY <1>1 DEF BriskInv, ScanIsHeldUp, NextScanIsFar, Ages, FinishScan, Begin, tickers
<1>6. MonitorIsPrompt'
  BY <1>1 DEF BriskInv, NextScanIsFar, Ages, MonitorIsPrompt, FinishScan, Begin, tickers
<1> QED BY <1>2, <1>3, <1>4, <1>5, <1>6 DEF BriskInv

LEMMA FinishMonitorKeepsPace ==
  ASSUME CadenceTypeOK, CadenceTypeOK', FirstRound, FirstRound', Brisk, BriskInv, FinishMonitor
  PROVE  BriskInv'
<1> USE BriskTypes DEF InRound, RoundLeft, FirstRound
<1>1. longest' = longest /\ Round' = Round
  BY DEF FinishMonitor, Round
<1>2. OneTickARound'
  BY <1>1 DEF BriskInv, OneTickARound, FinishMonitor, Begin, tickers
<1>3. ScanIsHeldUp'
  BY <1>1 DEF BriskInv, OneTickARound, ScanIsHeldUp, FinishMonitor, Begin, tickers
<1>4. NextScanIsFar'
  BY <1>1 DEF BriskInv, ScanIsHeldUp, NextScanIsFar, FinishMonitor, Begin, tickers
<1>5. Ages'
  BY <1>1 DEF BriskInv, ScanIsHeldUp, NextScanIsFar, Ages, FinishMonitor, Begin, tickers
<1>6. MonitorIsPrompt'
  BY <1>1 DEF BriskInv, NextScanIsFar, Ages, MonitorIsPrompt, FinishMonitor, Begin, tickers
<1> QED BY <1>2, <1>3, <1>4, <1>5, <1>6 DEF BriskInv

LEMMA FinishRetryKeepsPace ==
  ASSUME CadenceTypeOK, CadenceTypeOK', FirstRound, FirstRound', Brisk, BriskInv, FinishRetry
  PROVE  BriskInv'
<1> USE BriskTypes DEF InRound, RoundLeft, FirstRound
<1>1. longest' = longest /\ Round' = Round
  BY DEF FinishRetry, Round
<1>2. OneTickARound'
  BY <1>1 DEF BriskInv, OneTickARound, FinishRetry, tickers
<1>3. ScanIsHeldUp'
  BY <1>1 DEF BriskInv, OneTickARound, ScanIsHeldUp, FinishRetry, tickers
<1>4. NextScanIsFar'
  BY <1>1 DEF BriskInv, ScanIsHeldUp, NextScanIsFar, FinishRetry, tickers
<1>5. Ages'
  BY <1>1 DEF BriskInv, ScanIsHeldUp, NextScanIsFar, Ages, FinishRetry, tickers
<1>6. MonitorIsPrompt'
  BY <1>1 DEF BriskInv, NextScanIsFar, Ages, MonitorIsPrompt, FinishRetry, tickers
<1> QED BY <1>2, <1>3, <1>4, <1>5, <1>6 DEF BriskInv

LEMMA SelectScanKeepsPace ==
  ASSUME CadenceTypeOK, CadenceTypeOK', FirstRound, FirstRound', Brisk, BriskInv, SelectScan
  PROVE  BriskInv'
<1> USE BriskTypes DEF InRound, RoundLeft, FirstRound
<1>1. longest' = longest /\ Round' = Round
  BY DEF SelectScan, Round
<1>2. OneTickARound'
  BY <1>1 DEF BriskInv, OneTickARound, SelectScan, TakeScanTick, Begin
<1>3. ScanIsHeldUp'
  BY <1>1 DEF BriskInv, OneTickARound, ScanIsHeldUp, SelectScan, TakeScanTick, Begin
<1>4. NextScanIsFar'
  BY <1>1 DEF BriskInv, ScanIsHeldUp, NextScanIsFar, SelectScan, TakeScanTick, Begin
<1>5. Ages'
  BY <1>1 DEF BriskInv, ScanIsHeldUp, NextScanIsFar, Ages, SelectScan, TakeScanTick, Begin
<1>6. MonitorIsPrompt'
  BY <1>1 DEF BriskInv, NextScanIsFar, Ages, MonitorIsPrompt, SelectScan, TakeScanTick, Begin
<1> QED BY <1>2, <1>3, <1>4, <1>5, <1>6 DEF BriskInv

LEMMA SelectMonitorKeepsPace ==
  ASSUME CadenceTypeOK, CadenceTypeOK', FirstRound, FirstRound', Brisk, BriskInv, SelectMonitor
  PROVE  BriskInv'
<1> USE BriskTypes DEF InRound, RoundLeft, FirstRound
<1>1. longest' = longest /\ Round' = Round
  BY DEF SelectMonitor, Round
<1>2. OneTickARound'
  BY <1>1 DEF BriskInv, OneTickARound, SelectMonitor, Begin
<1>7. InRound' /\ current' = "monitor" /\ RoundLeft' \in Nat /\ RoundLeft' <= Round
  BY <1>1 DEF SelectMonitor, Begin
<1>3. ScanIsHeldUp'
  <2>1. scanTick' = scanTick /\ scanIn' = scanIn /\ monitorIn' = monitorIn /\ monitorTick' = FALSE
    BY DEF SelectMonitor
  <2>2. scanTick => ScanInterval - scanIn <= Round /\ monitorIn > Round
    BY DEF BriskInv, ScanIsHeldUp, SelectMonitor, MonitorReady
  <2>3. RoundLeft' \in Nat /\ RoundLeft' <= Round /\ Round \in Nat
    BY <1>7
  <2> HIDE DEF RoundLeft, InRound
  <2> QED BY <1>1, <1>7, <2>1, <2>2, <2>3 DEF ScanIsHeldUp
<1>4. NextScanIsFar'
  BY <1>1 DEF BriskInv, ScanIsHeldUp, NextScanIsFar, SelectMonitor, Begin
<1>5. Ages'
  BY <1>1 DEF BriskInv, ScanIsHeldUp, NextScanIsFar, Ages, SelectMonitor, Begin
<1>6. MonitorIsPrompt'
  BY <1>1 DEF BriskInv, NextScanIsFar, Ages, MonitorIsPrompt, SelectMonitor, Begin
<1> QED BY <1>2, <1>3, <1>4, <1>5, <1>6 DEF BriskInv

LEMMA SelectDoneKeepsPace ==
  ASSUME CadenceTypeOK, CadenceTypeOK', FirstRound, FirstRound', Brisk, BriskInv, SelectDone
  PROVE  BriskInv'
<1> USE BriskTypes DEF InRound, RoundLeft, FirstRound
<1>1. longest' = longest /\ Round' = Round
  BY DEF SelectDone, Round
<1>2. OneTickARound'
  BY <1>1 DEF BriskInv, OneTickARound, SelectDone, tickers
<1>3. ScanIsHeldUp'
  BY <1>1 DEF BriskInv, OneTickARound, ScanIsHeldUp, SelectDone, tickers
<1>4. NextScanIsFar'
  BY <1>1 DEF BriskInv, ScanIsHeldUp, NextScanIsFar, SelectDone, tickers
<1>5. Ages'
  BY <1>1 DEF BriskInv, ScanIsHeldUp, NextScanIsFar, Ages, SelectDone, tickers
<1>6. MonitorIsPrompt'
  BY <1>1 DEF BriskInv, NextScanIsFar, Ages, MonitorIsPrompt, SelectDone, tickers
<1> QED BY <1>2, <1>3, <1>4, <1>5, <1>6 DEF BriskInv

LEMMA ElapseKeepsPace ==
  ASSUME CadenceTypeOK, CadenceTypeOK', FirstRound, FirstRound', Brisk, BriskInv, Elapse
  PROVE  BriskInv'
<1> USE BriskTypes
<1>1. /\ longest' = longest /\ Round' = Round /\ current' = current /\ ticking' = ticking
      /\ between' = between /\ InRound' = InRound /\ waited' \in Nat /\ waited' <= waited + 1
  BY CadenceConstants DEF Elapse, Round, InRound
<1>2. \/ current \in Jobs /\ left > 0 /\ left' = left - 1
      \/ current = "select" /\ ~ scanTick /\ ~ monitorTick /\ left' = left
  BY DEF Elapse
<1>3. InRound => RoundLeft > 0 /\ RoundLeft' = RoundLeft - 1
  BY <1>1, <1>2 DEF InRound, RoundLeft
<1>4. CASE ~ ticking
  <2>1. /\ scanIn' = scanIn /\ monitorIn' = monitorIn /\ scanTick' = scanTick /\ monitorTick' = monitorTick
        /\ ~ scanTick /\ ~ monitorTick /\ current \in Jobs
    BY <1>2, <1>4 DEF Elapse, tickers, FirstRound
  <2>2. OneTickARound' /\ ScanIsHeldUp' /\ NextScanIsFar'
    BY <1>1, <1>4, <2>1 DEF OneTickARound, ScanIsHeldUp, NextScanIsFar, Jobs
  <2>3. Ages'
    BY <1>1, <1>2, <1>3, <1>4, <2>1 DEF BriskInv, Ages, Jobs
  <2>4. MonitorIsPrompt'
    BY <1>1, <1>2, <1>3, <1>4, <2>1 DEF BriskInv, Ages, InRound, Jobs, MonitorIsPrompt
  <2> QED BY <2>2, <2>3, <2>4 DEF BriskInv
<1>5. CASE ticking
  <2>1. /\ scanIn = 1 => scanIn' = ScanInterval /\ scanTick'
        /\ scanIn > 1 => scanIn' = scanIn - 1 /\ (scanTick' <=> scanTick)
        /\ monitorIn = 1 => monitorIn' = MonitorInterval /\ monitorTick'
        /\ monitorIn > 1 => monitorIn' = monitorIn - 1 /\ (monitorTick' <=> monitorTick)
    <3>1. Advance
      BY <1>5 DEF Elapse
    <3>2. /\ scanIn = 1 => scanIn' = ScanInterval
          /\ scanIn > 1 => scanIn' = scanIn - 1
          /\ monitorIn = 1 => monitorIn' = MonitorInterval
          /\ monitorIn > 1 => monitorIn' = monitorIn - 1
      BY <3>1 DEF Advance
    <3>3. (scanTick' <=> scanTick \/ scanIn = 1) /\ (monitorTick' <=> monitorTick \/ monitorIn = 1)
      BY <3>1, Zenon DEF Advance, Buffer
    <3> QED BY <3>2, <3>3
  <2>2. OneTickARound'
    <3> SUFFICES ASSUME InRound, monitorTick' PROVE monitorIn' > RoundLeft' + Round
      BY <1>1 DEF OneTickARound
    <3>1. RoundLeft' = RoundLeft - 1 /\ RoundLeft <= Round /\ RoundLeft > 0 /\ 2 * Round <= MonitorInterval
      BY <1>3
    <3>2. CASE monitorIn = 1
      BY <2>1, <3>1, <3>2
    <3>3. CASE monitorIn > 1
      BY <2>1, <3>1, <3>3 DEF BriskInv, OneTickARound
    <3> QED BY <3>2, <3>3
  <2>3. ScanIsHeldUp'
    <3>1. CASE InRound
      <4>1. RoundLeft' = RoundLeft - 1 /\ RoundLeft <= Round /\ RoundLeft > 0 /\ 2 * Round <= MonitorInterval
        BY <1>3, <3>1
      <4>2. scanTick => /\ ScanInterval - scanIn + RoundLeft <= 2 * Round
                        /\ monitorTick \/ monitorIn <= RoundLeft => ScanInterval - scanIn + RoundLeft <= Round
        BY <3>1 DEF BriskInv, ScanIsHeldUp
      <4>3. current # "select"
        BY <3>1 DEF InRound
      <4>4. CASE scanIn = 1
        BY <1>1, <2>1, <4>1, <4>2, <4>3, <4>4 DEF ScanIsHeldUp
      <4>5. CASE scanIn > 1
        <5>1. (monitorTick' \/ monitorIn' <= RoundLeft') => (monitorTick \/ monitorIn <= RoundLeft)
          BY <2>1, <4>1
        <5> QED BY <1>1, <2>1, <4>1, <4>2, <4>3, <4>5, <5>1 DEF ScanIsHeldUp
      <4> QED BY <4>4, <4>5
    <3>2. CASE current = "select"
      BY <1>1, <1>2, <2>1, <3>2 DEF ScanIsHeldUp, InRound, Jobs
    <3> QED BY <1>1, <3>1, <3>2 DEF ScanIsHeldUp
  <2>4. NextScanIsFar'
    BY <1>1, <1>2, <2>1 DEF BriskInv, NextScanIsFar, Jobs
  <2>5. Ages'
    <3>1. CASE InRound
      BY <1>1, <1>3, <1>5, <2>1, <3>1 DEF BriskInv, Ages, InRound
    <3>2. CASE current = "select"
      BY <1>1, <1>2, <1>5, <2>1, <3>2 DEF BriskInv, Ages, InRound, Jobs
    <3>3. CASE current = "scan"
      BY <1>1, <1>2, <1>5, <2>1, <3>3 DEF BriskInv, NextScanIsFar, Ages, InRound, Jobs
    <3> QED BY <1>2, <3>1, <3>2, <3>3 DEF InRound, Jobs
  <2>6. MonitorIsPrompt'
    <3>1. CASE InRound
      BY <1>1, <1>3, <3>1 DEF BriskInv, Ages, MonitorIsPrompt
    <3>2. CASE current = "select"
      BY <1>1, <1>2, <1>5, <3>2 DEF BriskInv, Ages, MonitorIsPrompt, Jobs
    <3>3. CASE current = "scan"
      BY <1>1, <1>2, <1>5, <3>3 DEF BriskInv, Ages, MonitorIsPrompt, Jobs
    <3> QED BY <1>2, <3>1, <3>2, <3>3 DEF InRound, Jobs
  <2> QED BY <2>2, <2>3, <2>4, <2>5, <2>6 DEF BriskInv
<1> QED BY <1>4, <1>5

LEMMA CancelKeepsPace ==
  ASSUME CadenceTypeOK, CadenceTypeOK', FirstRound, FirstRound', Brisk, BriskInv, Cancel
  PROVE  BriskInv'
<1> USE BriskTypes
<1>1. /\ longest' = longest /\ Round' = Round /\ current' = current /\ ticking' = ticking
      /\ scanIn' = scanIn /\ monitorIn' = monitorIn /\ scanTick' = scanTick /\ monitorTick' = monitorTick
      /\ between' = between /\ waited' = waited /\ InRound' = InRound
  BY DEF Cancel, Round, InRound, tickers
<1>2. left' \in Nat /\ left' <= left
  BY CadenceConstants DEF Cancel, CutShort
<1>3. RoundLeft' \in Nat /\ RoundLeft' <= RoundLeft
  BY <1>1, <1>2 DEF RoundLeft
<1>4. OneTickARound'
  BY <1>1, <1>3 DEF BriskInv, OneTickARound
<1>5. ScanIsHeldUp'
  BY <1>1, <1>3 DEF BriskInv, ScanIsHeldUp
<1>6. NextScanIsFar'
  BY <1>1, <1>2 DEF BriskInv, NextScanIsFar
<1>7. Ages'
  BY <1>1, <1>2, <1>3 DEF BriskInv, Ages
<1>8. MonitorIsPrompt'
  BY <1>1 DEF BriskInv, MonitorIsPrompt
<1> QED BY <1>4, <1>5, <1>6, <1>7, <1>8 DEF BriskInv

LEMMA CadenceStep == CadenceInv /\ [CadenceNext]_cadenceVars => CadenceInv'
<1> SUFFICES ASSUME CadenceInv, [CadenceNext]_cadenceVars PROVE CadenceInv'
  OBVIOUS
<1>1. CadenceTypeOK /\ DyingJob /\ FirstRound /\ (Brisk => BriskInv)
  BY DEF CadenceInv
<1>2. CadenceTypeOK' /\ DyingJob' /\ FirstRound'
  BY <1>1, CadenceTypes, DyingStep, FirstRoundStep
<1>3. ASSUME Brisk' PROVE BriskInv'
  <2>1. Brisk
    <3>1. longest' = longest
      BY DEF CadenceNext, FinishScan, FinishMonitor, FinishRetry, SelectScan, SelectMonitor,
             SelectDone, Elapse, Cancel, Stopped, cadenceVars
    <3> QED BY <1>3, <3>1 DEF Brisk
  <2>2. CASE UNCHANGED cadenceVars
    BY <1>1, <2>1, <2>2
    DEF cadenceVars, BriskInv, OneTickARound, ScanIsHeldUp, NextScanIsFar, Ages, MonitorIsPrompt,
        Brisk, InRound, RoundLeft, Round
  <2> QED BY <1>1, <1>2, <2>1, <2>2, FinishScanKeepsPace, FinishMonitorKeepsPace,
             FinishRetryKeepsPace, SelectScanKeepsPace, SelectMonitorKeepsPace,
             SelectDoneKeepsPace, ElapseKeepsPace, CancelKeepsPace DEF CadenceNext, Stopped
<1> QED BY <1>2, <1>3 DEF CadenceInv

LEMMA CadenceHolds == CadenceSpec => []CadenceInv
  BY CadenceStarts, CadenceStep, PTL DEF CadenceSpec

\* For any intervals and any time that jobs may take.
THEOREM CadenceTypeCorrect == CadenceSpec => []CadenceTypeOK
<1>1. CadenceInv => CadenceTypeOK
  BY DEF CadenceInv
<1> QED BY <1>1, CadenceHolds, PTL

\* A cancelled process is past its last job in the time that its last result may
\* take to record, whatever ran when it was cancelled.  (automation.go:410-422)
THEOREM StopsAlwaysPromptly == CadenceSpec => []StopsPromptly
<1>1. CadenceInv => StopsPromptly
  BY DEF CadenceInv, DyingJob, StopsPromptly
<1> QED BY <1>1, CadenceHolds, PTL

\* Under any brisk workload the next monitor pass is at most an interval and a
\* scan away, or, after a short scan, an interval and the first round: a monitor
\* tick that a scan has delayed is the next to be taken, since no other scan is
\* due by then.  (split_cadence.go:48-62)
THEOREM MonitorAlwaysPrompt == CadenceSpec => []MonitorIsPrompt
<1>1. CadenceInv => MonitorIsPrompt
  BY DEF CadenceInv, BriskInv, MonitorIsPrompt
<1> QED BY <1>1, CadenceHolds, PTL

\* And no scan follows another without a pass between them.
THEOREM MonitorAlwaysBetween == CadenceSpec => MonitorBetweenScans
<1>1. CadenceInv /\ [CadenceNext]_cadenceVars =>
        [Brisk /\ current # "scan" /\ current' = "scan" => between]_cadenceVars
  <2> SUFFICES ASSUME CadenceInv, CadenceNext, Brisk, current # "scan", current' = "scan"
               PROVE  between
    BY DEF cadenceVars
  <2>1. SelectScan
    BY DEF CadenceNext, FinishScan, FinishMonitor, FinishRetry, SelectMonitor, SelectDone,
           Elapse, Cancel, Stopped, Begin, cadenceVars
  <2>2. NextScanIsFar
    BY DEF CadenceInv, BriskInv
  <2> QED BY <2>1, <2>2 DEF SelectScan, NextScanIsFar
<1> QED BY <1>1, CadenceHolds, PTL DEF CadenceSpec, MonitorBetweenScans
=============================================================================
