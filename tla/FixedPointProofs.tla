-------------------------- MODULE FixedPointProofs --------------------------
(***************************************************************************)
(* What is computed from module FixedPoint.  The timestamped rows keep the     *)
(* book of module DailyBook as long as times are in order, a terminal return    *)
(* is never missing then, and a report lacks nothing that ended before it was   *)
(* written: for any positions, any length of the day and any failures.  The    *)
(* policies decide on rounded ratios what the exact ones would decide, for     *)
(* any limits, any quote, any evidence and any posts.                        *)
(***************************************************************************)
EXTENDS DailyResults, Policies, FiniteSetTheorems, SequenceTheorems, TLAPS

-----------------------------------------------------------------------------
(* Sums of integers.  The community modules add up a function by recursion on  *)
(* the subsets of its domain; that this defines anything, and what, follows    *)
(* from a smallest set where it would not.                                   *)

Pick(s) == CHOOSE x \in s : TRUE

\* h adds up f over every subset of T, the way the community modules' fold does.
AddsUp(h, f, T) ==
    h = [s \in SUBSET T |-> IF s = {} THEN 0 ELSE f[Pick(s)] + h[s \ {Pick(s)}]]

LEMMA PickIsIn == ASSUME NEW s, s # {} PROVE Pick(s) \in s
  BY DEF Pick

LEMMA SumIsFold ==
  ASSUME NEW f
  PROVE  SumFunction(f) = (CHOOSE h : AddsUp(h, f, DOMAIN f))[DOMAIN f]
  BY DEF SumFunction, SumFunctionOnSet, FoldFunctionOnSet, MapThenFoldSet, AddsUp, Pick

\* A smallest set among finite ones.
LEMMA SmallestSet ==
  ASSUME NEW D, IsFiniteSet(D), NEW Bad \in SUBSET SUBSET D, Bad # {}
  PROVE  \E T \in Bad : \A U \in Bad : ~ (U \subseteq T /\ U # T)
<1> DEFINE Smaller == StrictSubsetOrdering(D)
<1>1. IsWellFoundedOn(Smaller, SUBSET D)
  BY FS_StrictSubsetOrderingWellFounded, FS_FiniteSubsetsOfFinite
<1>2. PICK T \in Bad : \A U \in Bad : <<U, T>> \notin Smaller
  <2> HIDE DEF Smaller
  <2> QED BY <1>1, WFMin
<1>3. ASSUME NEW U \in Bad, U \subseteq T, U # T
      PROVE  FALSE
  <2>1. <<U, T>> \in Smaller
    BY <1>3 DEF StrictSubsetOrdering
  <2> QED BY <1>2, <2>1
<1> QED BY <1>3

LEMMA AddsUpOnce ==
  ASSUME NEW D, IsFiniteSet(D), NEW f, NEW A \in SUBSET D, NEW B \in SUBSET D,
         NEW h, NEW k, AddsUp(h, f, A), AddsUp(k, f, B)
  PROVE  \A s \in SUBSET (A \cap B) : h[s] = k[s]
<1> DEFINE Bad == {s \in SUBSET (A \cap B) : h[s] # k[s]}
<1> SUFFICES ASSUME Bad # {} PROVE FALSE
  OBVIOUS
<1>1. PICK s \in Bad : \A u \in Bad : ~ (u \subseteq s /\ u # s)
  <2> HIDE DEF Bad
  <2>1. Bad \in SUBSET SUBSET D
    BY DEF Bad
  <2> QED BY <2>1, SmallestSet
<1> DEFINE u == s \ {Pick(s)}
<1>2. s # {} => u \subseteq s /\ u # s
  BY PickIsIn
<1>3. s # {} => h[u] = k[u]
  BY <1>1, <1>2
<1>4. /\ h[s] = IF s = {} THEN 0 ELSE f[Pick(s)] + h[u]
      /\ k[s] = IF s = {} THEN 0 ELSE f[Pick(s)] + k[u]
  BY DEF AddsUp
<1> QED BY <1>3, <1>4

LEMMA SumExists ==
  ASSUME NEW D, IsFiniteSet(D), NEW f, \A x \in D : f[x] \in Int
  PROVE  \A T \in SUBSET D : \E h \in [SUBSET T -> Int] : AddsUp(h, f, T)
<1> DEFINE Bad == {T \in SUBSET D : ~ \E h \in [SUBSET T -> Int] : AddsUp(h, f, T)}
<1> SUFFICES ASSUME Bad # {} PROVE FALSE
  OBVIOUS
<1>1. PICK T \in Bad : \A U \in Bad : ~ (U \subseteq T /\ U # T)
  <2> HIDE DEF Bad
  <2>1. Bad \in SUBSET SUBSET D
    BY DEF Bad
  <2> QED BY <2>1, SmallestSet
<1> DEFINE below(U) == CHOOSE h \in [SUBSET U -> Int] : AddsUp(h, f, U)
<1>2. ASSUME NEW U \in SUBSET T, U # T
      PROVE  below(U) \in [SUBSET U -> Int] /\ AddsUp(below(U), f, U)
  <2>1. \E h \in [SUBSET U -> Int] : AddsUp(h, f, U)
    BY <1>1, <1>2
  <2> QED BY <2>1
<1> DEFINE rest(s) == s \ {Pick(s)}
           g == [s \in SUBSET T |-> IF s = {} THEN 0 ELSE f[Pick(s)] + below(rest(s))[rest(s)]]
<1> HIDE DEF below
<1>3. \A s \in SUBSET T : s # {} => Pick(s) \in D /\ rest(s) \in SUBSET T /\ rest(s) # T /\ f[Pick(s)] \in Int
  BY PickIsIn
<1>4. g \in [SUBSET T -> Int]
  <2>1. ASSUME NEW s \in SUBSET T, s # {} PROVE f[Pick(s)] + below(rest(s))[rest(s)] \in Int
    <3>1. rest(s) \in SUBSET T /\ rest(s) # T /\ f[Pick(s)] \in Int
      BY <1>3, <2>1
    <3> HIDE DEF rest
    <3>2. below(rest(s)) \in [SUBSET rest(s) -> Int]
      BY <1>2, <3>1
    <3> QED BY <3>1, <3>2
  <2> QED BY <2>1
<1>5. ASSUME NEW s \in SUBSET T, s # T PROVE g[s] = below(s)[s]
  <2>1. below(s)[s] = IF s = {} THEN 0 ELSE f[Pick(s)] + below(s)[rest(s)]
    BY <1>2, <1>5 DEF AddsUp
  <2>2. CASE s # {}
    <3>1. below(s)[rest(s)] = below(rest(s))[rest(s)]
      <4>1. rest(s) \in SUBSET T /\ rest(s) # T /\ rest(s) \in SUBSET D /\ s \in SUBSET D
        BY <1>3, <2>2
      <4>2. AddsUp(below(s), f, s) /\ AddsUp(below(rest(s)), f, rest(s))
        BY <1>2, <1>5, <4>1
      <4>3. rest(s) \in SUBSET (s \cap rest(s))
        OBVIOUS
      <4> HIDE DEF rest
      <4> QED BY <4>1, <4>2, <4>3, AddsUpOnce
    <3> QED BY <2>1, <2>2, <3>1
  <2> QED BY <2>1, <2>2
<1>6. AddsUp(g, f, T)
  <2>1. \A s \in SUBSET T : s # {} => g[rest(s)] = below(rest(s))[rest(s)]
    BY <1>3, <1>5
  <2> QED BY <2>1 DEF AddsUp
<1> QED BY <1>1, <1>4, <1>6

LEMMA SumIsInteger ==
  ASSUME NEW f, IsFiniteSet(DOMAIN f), \A x \in DOMAIN f : f[x] \in Int
  PROVE  SumFunction(f) \in Int
<1> DEFINE D == DOMAIN f
           sum == CHOOSE h : AddsUp(h, f, D)
<1>1. PICK h \in [SUBSET D -> Int] : AddsUp(h, f, D)
  BY SumExists
<1>2. AddsUp(sum, f, D)
  BY <1>1
<1>3. sum[D] = h[D]
  <2> HIDE DEF sum
  <2> QED BY <1>1, <1>2, AddsUpOnce
<1> QED BY <1>1, <1>3, SumIsFold
-----------------------------------------------------------------------------
(* The inductive invariant of DailyResults.                                 *)

Ends == Returns \union {UnsellableReturn}

RowsAreTyped ==
    /\ marks \in [Ids -> Seq(Mark)]
    /\ closedAt \in [Ids -> Times \union {Open}]
    /\ result \in [Days -> PerStrategy]
    /\ report \in [Days -> [at : Times, total : PerStrategy] \union {NoFile}]

ScanIsTyped ==
    /\ now \in Times
    /\ setBacks \in 0 .. MaxSetBacks
    /\ job \in {"idle", "scan", "reconcile", "write"}
    /\ jobNow \in Times

\* A position ends with its last mark.
EndIsFinal ==
    \A p \in Ids : closedAt[p] # Open =>
      marks[p] # <<>> /\ FinalMark(p).at = closedAt[p] /\ FinalMark(p).ret \in Ends

\* The clock orders the marks, and nothing bears a time that is still to come.
ClockOrders ==
    setBacks = 0 =>
      /\ Ordered
      /\ \A p \in Ids : \A i \in DOMAIN marks[p] : marks[p][i].at <= now
      /\ \A d \in Days : report[d].at <= now

\* What is about to be reported is what the day's positions ended with.
Reconciled ==
    job = "write" /\ Ordered =>
      \A s \in Strategies : result[Day(jobNow)][s] = Sum(EndedOn(Day(jobNow)), s)

\* The report of day d shows the positions P: all that ended on the day before
\* it was written, perhaps some that ended at that time, and no other.
ShownBy(d, P) ==
    /\ \A p \in P : closedAt[p] # Open /\ Day(closedAt[p]) = d /\ closedAt[p] <= report[d].at
    /\ \A p \in Ids : closedAt[p] # Open /\ Day(closedAt[p]) = d /\ closedAt[p] < report[d].at => p \in P
    /\ \A s \in Strategies : report[d].total[s] = Sum(P, s)

TailInv ==
    setBacks = 0 => \A d \in Days : report[d] # NoFile => \E P \in SUBSET Ids : ShownBy(d, P)

IInv ==
    /\ RowsAreTyped /\ ScanIsTyped
    /\ EndIsFinal /\ ClockOrders /\ Reconciled /\ TailInv

-----------------------------------------------------------------------------
(* Times, marks and sums.                                                   *)

LEMMA TimesAreNaturals ==
  /\ Times \subseteq Nat /\ 0 \in Times
  /\ \A t \in Times : t <= MaxTime
  /\ \A t \in Times : t + 1 <= MaxTime => t + 1 \in Times
  /\ \A t \in Times : t > 0 => t - 1 \in Times
  /\ Open \notin Times /\ -1 \notin Times
  BY BookAssumption DEF Times

LEMMA DayOfTime ==
  ASSUME NEW t \in Times
  PROVE  Day(t) \in Days
<1>1. t \in Nat /\ t <= MaxTime /\ MaxTime \in Nat /\ DayLength \in Nat \ {0}
  BY TimesAreNaturals, BookAssumption
<1>2. t \div DayLength <= MaxTime \div DayLength /\ t \div DayLength \in Nat
  BY <1>1
<1> QED BY <1>1, <1>2 DEF Day, Days

LEMMA MarkFields ==
  ASSUME RowsAreTyped, NEW p \in Ids
  PROVE  /\ Len(marks[p]) \in Nat /\ DOMAIN marks[p] = 1 .. Len(marks[p])
         /\ marks[p] # <<>> => Len(marks[p]) \in DOMAIN marks[p]
         /\ \A i \in DOMAIN marks[p] : /\ marks[p][i] \in Mark
                                       /\ marks[p][i].at \in Times /\ marks[p][i].at \in Nat
<1>1. marks[p] \in Seq(Mark)
  BY DEF RowsAreTyped
<1>2. Len(marks[p]) \in Nat /\ DOMAIN marks[p] = 1 .. Len(marks[p])
  BY <1>1
<1>3. marks[p] # <<>> => Len(marks[p]) > 0
  BY <1>1
<1>4. \A i \in DOMAIN marks[p] : marks[p][i] \in Mark
  BY <1>1, <1>2
<1>5. \A m \in Mark : m.at \in Times /\ m.at \in Nat
  BY TimesAreNaturals DEF Mark
<1>6. \A i \in DOMAIN marks[p] : marks[p][i].at \in Times /\ marks[p][i].at \in Nat
  BY <1>4, <1>5
<1>7. marks[p] # <<>> => Len(marks[p]) \in DOMAIN marks[p]
  BY <1>2, <1>3
<1> QED BY <1>2, <1>4, <1>6, <1>7

LEMMA ReportFields ==
  ASSUME RowsAreTyped, NEW d \in Days
  PROVE  report[d] = NoFile \/ report[d].at \in Times
  BY DEF RowsAreTyped

LEMMA PNLIsInteger ==
  ASSUME NEW p \in Ids, NEW r \in Ends
  PROVE  PNL(p, r) \in Int
<1>1. Notional[p] * r \in Int
  BY BookAssumption DEF Ends
<1> QED BY <1>1 DEF PNL, RealizedPNL, Quo, Scale

\* The sum of what finitely many positions made or lost is a number.
LEMMA SumOfPNLs ==
  ASSUME NEW P \in SUBSET Ids, NEW s, NEW ret, \A p \in P : ret[p] \in Ends
  PROVE  SumFunction([p \in {q \in P : StrategyOf[q] = s} |-> PNL(p, ret[p])]) \in Int
<1> DEFINE Q == {q \in P : StrategyOf[q] = s}
           f == [p \in Q |-> PNL(p, ret[p])]
<1>1. IsFiniteSet(Q)
  BY BookAssumption, FS_Subset
<1>2. DOMAIN f = Q /\ \A p \in Q : f[p] \in Int
  BY PNLIsInteger
<1> HIDE DEF f, Q
<1>3. SumFunction(f) \in Int
  BY <1>1, <1>2, SumIsInteger
<1> QED BY <1>3 DEF f, Q

\* With times in order the latest mark is the one that ended the position.
LEMMA LatestIsFinal ==
  ASSUME RowsAreTyped, EndIsFinal, Ordered, NEW p \in Ids, closedAt[p] # Open
  PROVE  LatestReturns(p) = {FinalMark(p).ret}
<1> DEFINE n == Len(marks[p])
<1>1. n \in DOMAIN marks[p] /\ n \in Nat /\ DOMAIN marks[p] = 1 .. n
  BY MarkFields DEF EndIsFinal
<1>2. \A i \in DOMAIN marks[p] : i # n => marks[p][i].at < marks[p][n].at
  BY <1>1 DEF Ordered
<1>3. \A i \in DOMAIN marks[p] : marks[p][i].at \in Nat
  BY MarkFields
<1>4. {j \in DOMAIN marks[p] : \A k \in DOMAIN marks[p] : marks[p][k].at <= marks[p][j].at} = {n}
  BY <1>1, <1>2, <1>3
<1> QED BY <1>4 DEF LatestReturns, FinalMark

\* Sums of positions that are left alone stay what they are.
LEMMA SumStays ==
  ASSUME NEW P, NEW s, \A p \in P : marks'[p] = marks[p]
  PROVE  Sum(P, s)' = Sum(P, s)
  BY DEF Sum, FinalMark

\* Sums of what positions ended with.
LEMMA SumOfFinals ==
  ASSUME NEW P, NEW s, NEW ret, \A p \in P : ret[p] = FinalMark(p).ret
  PROVE  SumFunction([p \in {q \in P : StrategyOf[q] = s} |-> PNL(p, ret[p])]) = Sum(P, s)
  BY DEF Sum

LEMMA InitIInv == Init => IInv
<1> SUFFICES ASSUME Init PROVE IInv
  OBVIOUS
<1>1. RowsAreTyped
  <2>1. [s \in Strategies |-> 0] \in PerStrategy
    BY DEF PerStrategy
  <2> HIDE DEF NoFile
  <2> QED BY <2>1 DEF Init, RowsAreTyped
<1>2. ScanIsTyped
  BY TimesAreNaturals, BookAssumption DEF Init, ScanIsTyped
<1>3. EndIsFinal /\ Reconciled /\ TailInv
  BY DEF Init, EndIsFinal, Reconciled, TailInv
<1>4. ClockOrders
  BY DEF Init, ClockOrders, Ordered, NoFile
<1> QED BY <1>1, <1>2, <1>3, <1>4 DEF IInv
-----------------------------------------------------------------------------
(* A monitor pass marks a position, and may end it.                         *)

LEMMA ObserveRows ==
  ASSUME RowsAreTyped, ScanIsTyped, NEW p \in Ids, NEW r \in Ends \union {NoReturn}, Observe(p, r)
  PROVE  /\ marks' \in [Ids -> Seq(Mark)]
         /\ \A q \in Ids \ {p} : marks'[q] = marks[q]
         /\ marks'[p] # <<>>
         /\ FinalMark(p)'.at = now /\ FinalMark(p)'.ret = r
         /\ Len(marks[p]) \in Nat /\ DOMAIN marks'[p] = 1 .. Len(marks[p]) + 1
         /\ \A i \in 1 .. Len(marks[p]) : i \in DOMAIN marks[p] /\ marks'[p][i] = marks[p][i]
         /\ marks'[p][Len(marks[p]) + 1].at = now
<1> DEFINE m == [at |-> now, ret |-> r]
           old == marks[p]
           n == Len(old)
<1>1. m \in Mark /\ m.at = now /\ m.ret = r
  BY DEF ScanIsTyped, Mark, Ends
<1>2. old \in Seq(Mark) /\ n \in Nat
  BY DEF RowsAreTyped
<1>3. marks' = [marks EXCEPT ![p] = Append(old, m)]
  BY DEF Observe, Stamp
<1>4. marks'[p] = Append(old, m) /\ \A q \in Ids \ {p} : marks'[q] = marks[q]
  BY <1>3 DEF RowsAreTyped
<1> HIDE DEF m, old
<1>5. /\ Append(old, m) \in Seq(Mark) /\ Len(Append(old, m)) = n + 1
      /\ \A i \in 1 .. n : i \in DOMAIN old /\ Append(old, m)[i] = old[i]
      /\ Append(old, m)[n + 1] = m
      /\ Append(old, m) # <<>>
      /\ DOMAIN Append(old, m) = 1 .. n + 1
  BY <1>1, <1>2
<1>6. marks' \in [Ids -> Seq(Mark)]
  BY <1>3, <1>5 DEF RowsAreTyped
<1>7. FinalMark(p)' = m
  BY <1>4, <1>5 DEF FinalMark
<1> QED BY <1>1, <1>2, <1>4, <1>5, <1>6, <1>7 DEF old

\* Hold and End.
Marks(p, r) ==
    /\ Observe(p, r)
    /\ \/ UNCHANGED closedAt
       \/ r \in Ends /\ closedAt' = [closedAt EXCEPT ![p] = now]

LEMMA PassesMark ==
  ASSUME NEW p \in Ids, Hold(p) \/ End(p)
  PROVE  \E r \in Ends \union {NoReturn} : Marks(p, r)
  BY DEF Hold, End, Marks, Ends, Stamp

\* A mark that is made keeps the marks in order.
LEMMA MarkInOrder ==
  ASSUME IInv, NEW p \in Ids, NEW r \in Ends \union {NoReturn}, Marks(p, r), setBacks = 0
  PROVE  /\ Ordered'
         /\ \A q \in Ids : \A i \in DOMAIN marks'[q] : marks'[q][i].at <= now
<1> DEFINE n == Len(marks[p])
<1>1. Ordered /\ \A q \in Ids : \A i \in DOMAIN marks[q] : marks[q][i].at <= now
  BY DEF IInv, ClockOrders
<1>2. /\ \A q \in Ids \ {p} : marks'[q] = marks[q]
      /\ n \in Nat /\ DOMAIN marks'[p] = 1 .. n + 1
      /\ \A i \in 1 .. n : i \in DOMAIN marks[p] /\ marks'[p][i] = marks[p][i]
      /\ marks'[p][n + 1].at = now
  BY ObserveRows DEF IInv, Marks
<1>3. now \in Nat /\ DOMAIN marks[p] = 1 .. n /\ \A i \in 1 .. n : marks[p][i].at \in Nat
  BY MarkFields, TimesAreNaturals DEF IInv, ScanIsTyped
<1>4. \A i \in 1 .. n : marks[p][i].at < now
  <2> SUFFICES ASSUME NEW i \in 1 .. n PROVE marks[p][i].at < now
    OBVIOUS
  <2>1. marks[p] # <<>> /\ n \in 1 .. n
    BY <1>2, <1>3
  <2>2. marks[p][n].at # now /\ marks[p][n].at <= now
    BY <1>1, <1>3, <2>1 DEF Marks, Observe, FinalMark
  <2>3. i < n => marks[p][i].at < marks[p][n].at
    BY <1>1, <1>3, <2>1 DEF Ordered
  <2> QED BY <1>2, <1>3, <2>1, <2>2, <2>3
<1>5. ASSUME NEW i \in 1 .. n + 1, NEW j \in 1 .. n + 1, i < j
      PROVE  marks'[p][i].at < marks'[p][j].at
  <2>1. i \in 1 .. n
    BY <1>2, <1>5
  <2>2. CASE j = n + 1
    BY <1>2, <1>4, <2>1, <2>2
  <2>3. CASE j \in 1 .. n
    BY <1>1, <1>2, <1>3, <1>5, <2>1, <2>3 DEF Ordered
  <2> QED BY <1>2, <2>2, <2>3
<1>6. \A q \in Ids \ {p} : \A i, j \in DOMAIN marks'[q] : i < j => marks'[q][i].at < marks'[q][j].at
  BY <1>1, <1>2 DEF Ordered
<1>7. Ordered'
  BY <1>2, <1>5, <1>6 DEF Ordered
<1>8. \A i \in 1 .. n + 1 : marks'[p][i].at <= now
  BY <1>2, <1>3, <1>4
<1> QED BY <1>1, <1>2, <1>7, <1>8

\* Only positions that end are new among those of a day.
LEMMA EndsOfDays ==
  ASSUME IInv, NEW p \in Ids, NEW r \in Ends \union {NoReturn}, Marks(p, r)
  PROVE  /\ closedAt[p] = Open
         /\ \A q \in Ids \ {p} : closedAt'[q] = closedAt[q]
         /\ closedAt'[p] = Open \/ (closedAt'[p] = now /\ r \in Ends)
         /\ closedAt' \in [Ids -> Times \union {Open}]
  BY DEF IInv, RowsAreTyped, ScanIsTyped, Marks, Observe

\* A report lacks a position that ends after it, if at the same time.
LEMMA MarkTail ==
  ASSUME IInv, NEW p \in Ids, NEW r \in Ends \union {NoReturn}, Marks(p, r)
  PROVE  TailInv'
<1>1. UNCHANGED <<report, setBacks, now>>
  BY DEF Marks, Observe, clock
<1> SUFFICES ASSUME setBacks = 0, NEW d \in Days, report[d] # NoFile
             PROVE  \E P \in SUBSET Ids : ShownBy(d, P)'
  BY <1>1 DEF TailInv
<1>2. PICK P \in SUBSET Ids : ShownBy(d, P)
  BY DEF IInv, TailInv
<1>3. report[d].at \in Nat /\ report[d].at <= now /\ now \in Nat
  BY TimesAreNaturals DEF IInv, RowsAreTyped, ScanIsTyped, ClockOrders
<1>4. /\ closedAt[p] = Open
      /\ \A q \in Ids \ {p} : closedAt'[q] = closedAt[q]
      /\ closedAt'[p] = Open \/ closedAt'[p] = now
  BY EndsOfDays
<1>5. p \notin P
  BY <1>2, <1>4 DEF ShownBy
<1>6. \A s \in Strategies : Sum(P, s)' = Sum(P, s)
  <2>1. \A q \in P : marks'[q] = marks[q]
    BY <1>5, ObserveRows DEF IInv, Marks
  <2> QED BY <2>1, SumStays
<1>7. ShownBy(d, P)'
  <2>1. \A q \in P : closedAt'[q] # Open /\ Day(closedAt'[q]) = d /\ closedAt'[q] <= report'[d].at
    BY <1>1, <1>2, <1>4, <1>5 DEF ShownBy
  <2>2. ASSUME NEW q \in Ids, closedAt'[q] # Open, Day(closedAt'[q]) = d, closedAt'[q] < report'[d].at
        PROVE  q \in P
    BY <1>1, <1>2, <1>3, <1>4, <2>2 DEF ShownBy
  <2>3. \A s \in Strategies : report'[d].total[s] = Sum(P, s)'
    BY <1>1, <1>2, <1>6 DEF ShownBy
  <2> QED BY <2>1, <2>2, <2>3 DEF ShownBy
<1> QED BY <1>7

LEMMA MarkStep ==
  ASSUME IInv, NEW p \in Ids, NEW r \in Ends \union {NoReturn}, Marks(p, r)
  PROVE  IInv'
<1>1. /\ UNCHANGED <<result, report, now, setBacks, job, jobNow>>
      /\ job = "idle"
  BY DEF Marks, Observe, clock, scan
<1>2. RowsAreTyped' /\ ScanIsTyped'
  BY <1>1, ObserveRows, EndsOfDays DEF IInv, RowsAreTyped, ScanIsTyped, Marks
<1>3. EndIsFinal'
  <2>1. \A q \in Ids \ {p} : marks'[q] = marks[q] /\ closedAt'[q] = closedAt[q] /\ FinalMark(q)' = FinalMark(q)
    BY ObserveRows, EndsOfDays DEF IInv, Marks, FinalMark
  <2>2. closedAt'[p] # Open => marks'[p] # <<>> /\ FinalMark(p)'.at = closedAt'[p] /\ FinalMark(p)'.ret \in Ends
    BY ObserveRows, EndsOfDays DEF IInv, Marks
  <2> QED BY <2>1, <2>2 DEF IInv, EndIsFinal
<1>4. ClockOrders'
  BY <1>1, MarkInOrder DEF IInv, ClockOrders
<1>5. Reconciled'
  BY <1>1 DEF Reconciled
<1> QED BY <1>2, <1>3, <1>4, <1>5, MarkTail DEF IInv
-----------------------------------------------------------------------------
(* The scan and the clock.                                                  *)

\* What Reconcile takes for a position's return is what it ended with.
LEMMA StoredReturns ==
  ASSUME IInv, Ordered, NEW d, NEW ret, \A p \in EndedOn(d) : ret[p] \in LatestReturns(p)
  PROVE  \A p \in EndedOn(d) : ret[p] = FinalMark(p).ret
  BY LatestIsFinal DEF IInv, EndedOn

LEMMA ReconcileStep ==
  ASSUME IInv, Reconcile
  PROVE  IInv'
<1> DEFINE d == Day(jobNow)
<1>1. PICK ret \in [EndedOn(d) -> Ends] :
        /\ \A p \in EndedOn(d) : ret[p] \in LatestReturns(p)
        /\ Store(d, ret)
  BY DEF Reconcile, Ends
<1>2. /\ UNCHANGED <<marks, closedAt, report, now, setBacks>>
      /\ \/ job' = "write" /\ jobNow' = jobNow
         \/ job' = "idle" /\ jobNow' = 0
  BY DEF Reconcile, clock, Idle
<1> DEFINE sum(s) == SumFunction([p \in {q \in EndedOn(d) : StrategyOf[q] = s} |-> PNL(p, ret[p])])
<1>3. result' = [result EXCEPT ![d] = [s \in Strategies |-> sum(s)]]
  BY <1>1 DEF Store, ResetTo
<1>4. d \in Days
  BY DayOfTime DEF IInv, ScanIsTyped
<1>5. \A s \in Strategies : result'[d][s] = sum(s)
  BY <1>3, <1>4 DEF IInv, RowsAreTyped
<1>6. RowsAreTyped' /\ ScanIsTyped'
  <2>1. ASSUME NEW s \in Strategies PROVE sum(s) \in Int
    <3>1. EndedOn(d) \in SUBSET Ids /\ \A p \in EndedOn(d) : ret[p] \in Ends
      BY <1>1 DEF EndedOn
    <3> QED BY <3>1, SumOfPNLs
  <2> HIDE DEF sum
  <2>2. [s \in Strategies |-> sum(s)] \in PerStrategy
    BY <2>1 DEF PerStrategy
  <2>3. result' \in [Days -> PerStrategy]
    BY <1>3, <1>4, <2>2 DEF IInv, RowsAreTyped
  <2> QED BY <1>2, <2>3, TimesAreNaturals DEF IInv, RowsAreTyped, ScanIsTyped
<1>7. EndIsFinal' /\ ClockOrders'
  BY <1>2 DEF IInv, EndIsFinal, ClockOrders, Ordered, FinalMark
<1>8. Reconciled'
  <2> SUFFICES ASSUME job' = "write", Ordered', NEW s \in Strategies
               PROVE  result'[d][s] = Sum(EndedOn(d), s)'
    BY <1>2 DEF Reconciled, EndedOn
  <2>1. Ordered
    BY <1>2 DEF Ordered
  <2>2. sum(s) = Sum(EndedOn(d), s)
    BY <1>1, <2>1, StoredReturns, SumOfFinals
  <2>3. Sum(EndedOn(d), s)' = Sum(EndedOn(d), s)
    BY <1>2 DEF Sum, EndedOn, FinalMark
  <2> QED BY <1>5, <2>2, <2>3
<1>9. TailInv'
  BY <1>2 DEF IInv, TailInv, ShownBy, Sum, FinalMark
<1> QED BY <1>6, <1>7, <1>8, <1>9 DEF IInv

LEMMA WriteStep ==
  ASSUME IInv, WriteReport
  PROVE  IInv'
<1>0. PICK d \in Days : d = Day(jobNow)
  BY DayOfTime DEF IInv, ScanIsTyped
<1>1. /\ UNCHANGED <<marks, closedAt, result, now, setBacks>>
      /\ job = "write" /\ job' = "idle" /\ jobNow' = 0
      /\ report' = [report EXCEPT ![d] = [at |-> now, total |-> result[d]]]
  BY <1>0 DEF WriteReport, Idle, clock, DayOfReport
<1>2. now \in Times /\ now \in Nat
  BY TimesAreNaturals DEF IInv, ScanIsTyped
<1>3. /\ report'[d].at = now /\ report'[d].total = result[d]
      /\ \A e \in Days \ {d} : report'[e] = report[e]
  BY <1>1, <1>2 DEF IInv, RowsAreTyped
<1>4. RowsAreTyped' /\ ScanIsTyped'
  BY <1>1, <1>2, <1>3, TimesAreNaturals DEF IInv, RowsAreTyped, ScanIsTyped
<1>5. EndIsFinal' /\ Reconciled'
  BY <1>1 DEF IInv, EndIsFinal, FinalMark, Reconciled
<1>6. ClockOrders'
  BY <1>1, <1>2, <1>3 DEF IInv, ClockOrders, Ordered
<1>7. TailInv'
  <2> SUFFICES ASSUME setBacks = 0, NEW e \in Days, report'[e] # NoFile
               PROVE  \E P \in SUBSET Ids : ShownBy(e, P)'
    BY <1>1 DEF TailInv
  <2>1. CASE e = d
    <3>0. PICK P \in SUBSET Ids : P = EndedOn(d)
      BY DEF EndedOn
    <3>1. \A q \in P : q \in Ids /\ closedAt[q] # Open /\ Day(closedAt[q]) = d
      BY <3>0 DEF EndedOn
    <3>2. \A q \in P : closedAt[q] <= now
      BY <3>1, MarkFields DEF IInv, EndIsFinal, ClockOrders, FinalMark
    <3>3. \A s \in Strategies : result[d][s] = Sum(P, s)
      BY <1>0, <1>1, <3>0 DEF IInv, Reconciled, ClockOrders
    <3>4. \A s \in Strategies : Sum(P, s)' = Sum(P, s)
      BY <1>1 DEF Sum, FinalMark
    <3>5. \A q \in Ids : closedAt[q] # Open /\ Day(closedAt[q]) = d => q \in P
      BY <3>0 DEF EndedOn
    <3>6. ShownBy(d, P)'
      BY <1>1, <1>3, <3>1, <3>2, <3>3, <3>4, <3>5 DEF ShownBy
    <3> QED BY <2>1, <3>6
  <2>2. CASE e # d
    <3>1. PICK P \in SUBSET Ids : ShownBy(e, P)
      BY <1>3, <2>2 DEF IInv, TailInv
    <3>2. ShownBy(e, P)'
      BY <1>1, <1>3, <2>2, <3>1 DEF ShownBy, Sum, FinalMark
    <3> QED BY <3>2
  <2> QED BY <2>1, <2>2
<1> QED BY <1>4, <1>5, <1>6, <1>7 DEF IInv

LEMMA OtherSteps ==
  ASSUME IInv, Tick \/ SetBack \/ StartScan \/ ScanDone \/ Abort \/ UNCHANGED vars
  PROVE  IInv'
<1>1. UNCHANGED rows
  BY DEF Tick, SetBack, StartScan, ScanDone, Abort, vars, rows
<1>2. UNCHANGED <<marks, closedAt, result, report>>
  BY <1>1 DEF rows
<1>3. RowsAreTyped' /\ EndIsFinal'
  BY <1>2 DEF IInv, RowsAreTyped, EndIsFinal, FinalMark
<1>4. ScanIsTyped'
  <2> USE TimesAreNaturals, BookAssumption DEF IInv, ScanIsTyped
  <2>1. CASE Tick
    BY <2>1 DEF Tick, scan, Times
  <2>2. CASE SetBack
    BY <2>2 DEF SetBack, scan
  <2>3. CASE StartScan \/ ScanDone \/ Abort \/ UNCHANGED vars
    BY <2>3 DEF StartScan, ScanDone, Abort, vars, clock, Idle
  <2> QED BY <2>1, <2>2, <2>3
<1>5. setBacks' = 0 => setBacks = 0 /\ now <= now' /\ now \in Nat /\ now' \in Nat
  BY TimesAreNaturals DEF IInv, ScanIsTyped, Tick, SetBack, StartScan, ScanDone, Abort, vars, clock
<1>6. ClockOrders'
  <2> SUFFICES ASSUME setBacks' = 0
               PROVE  /\ Ordered'
                      /\ \A p \in Ids : \A i \in DOMAIN marks[p] : marks[p][i].at <= now'
                      /\ \A d \in Days : report[d].at <= now'
    BY <1>2 DEF ClockOrders
  <2>1. \A p \in Ids : \A i \in DOMAIN marks[p] : marks[p][i].at \in Nat /\ marks[p][i].at <= now
    BY <1>5, MarkFields DEF IInv, ClockOrders
  <2>2. \A d \in Days : report[d].at \in Int /\ report[d].at <= now
    <3>1. NoFile.at = -1
      BY DEF NoFile
    <3>2. ASSUME NEW d \in Days PROVE report[d].at \in Int
      <4>1. report[d] = NoFile \/ report[d].at \in Times
        BY ReportFields DEF IInv
      <4>2. \A t \in Times : t \in Int
        BY TimesAreNaturals
      <4> QED BY <3>1, <4>1, <4>2
    <3> QED BY <1>5, <3>2 DEF IInv, ClockOrders
  <2>3. Ordered'
    BY <1>2, <1>5 DEF IInv, ClockOrders, Ordered
  <2> QED BY <1>5, <2>1, <2>2, <2>3
<1>7. Reconciled'
  <2>1. job' = "write" => job = "write" /\ jobNow' = jobNow
    BY DEF Tick, SetBack, StartScan, ScanDone, Abort, vars, scan, Idle
  <2>2. Ordered' => Ordered
    BY <1>2 DEF Ordered
  <2> QED BY <1>2, <2>1, <2>2 DEF IInv, Reconciled, Sum, EndedOn, FinalMark
<1>8. TailInv'
  BY <1>2, <1>5 DEF IInv, TailInv, ShownBy, Sum, FinalMark
<1> QED BY <1>3, <1>4, <1>6, <1>7, <1>8 DEF IInv

LEMMA StepIInv == IInv /\ [Next]_vars => IInv'
<1> SUFFICES ASSUME IInv, [Next]_vars PROVE IInv'
  OBVIOUS
<1>1. ASSUME NEW p \in Ids, Hold(p) \/ End(p) PROVE IInv'
  BY <1>1, PassesMark, MarkStep
<1> QED BY <1>1, ReconcileStep, WriteStep, OtherSteps DEF Next

LEMMA InvHolds == Spec => []IInv
  BY InitIInv, StepIInv, PTL DEF Spec

-----------------------------------------------------------------------------
(* Theorems.                                                                *)

\* Rows, results and reports stay what they are meant to be: what is added up
\* is a number, whatever ends on a day.
THEOREM TypeCorrect == Spec => []TypeOK
<1>1. IInv => TypeOK
  BY DEF IInv, RowsAreTyped, ScanIsTyped, TypeOK
<1> QED BY <1>1, InvHolds, PTL

\* A day can be reconciled at any time: as long as times are in order, what is
\* read as a position's terminal return is one.
THEOREM TerminalReturnsAlwaysTyped == Spec => []TerminalReturnsAreTyped
<1>1. IInv => TerminalReturnsAreTyped
  BY LatestIsFinal DEF IInv, TerminalReturnsAreTyped, EndIsFinal, Ends
<1> QED BY <1>1, InvHolds, PTL

\* What a day's last report lacks ended after it, whatever fails or restarts.
THEOREM OnlyTheTailIsEverMissing == Spec => []OnlyTheTailIsMissing
<1>1. ASSUME IInv, setBacks = 0, NEW d \in Days, report[d] # NoFile
      PROVE  \E late \in SUBSET {p \in EndedOn(d) : closedAt[p] = report[d].at} :
               LET shown == {p \in EndedOn(d) : closedAt[p] <= report[d].at} \ late
               IN  \A s \in Strategies : report[d].total[s] = Sum(shown, s)
  <2>1. PICK P \in SUBSET Ids : ShownBy(d, P)
    BY <1>1 DEF IInv, TailInv
  <2> DEFINE at == report[d].at
             late == {p \in EndedOn(d) : closedAt[p] = at /\ p \notin P}
  <2>2. at \in Nat /\ \A p \in EndedOn(d) : closedAt[p] \in Nat
    BY <1>1, TimesAreNaturals DEF IInv, RowsAreTyped, EndedOn
  <2>3. {p \in EndedOn(d) : closedAt[p] <= at} \ late = P
    BY <2>1, <2>2 DEF ShownBy, EndedOn
  <2>4. late \in SUBSET {p \in EndedOn(d) : closedAt[p] = at}
    OBVIOUS
  <2>5. \A s \in Strategies : report[d].total[s] = Sum({p \in EndedOn(d) : closedAt[p] <= at} \ late, s)
    BY <2>1, <2>3 DEF ShownBy
  <2> HIDE DEF late
  <2> QED BY <2>4, <2>5
<1>2. IInv => OnlyTheTailIsMissing
  BY <1>1 DEF OnlyTheTailIsMissing
<1> QED BY <1>2, InvHolds, PTL
-----------------------------------------------------------------------------
(* The rows keep the book.                                                  *)

\* DailyBook's sums are the ones of the rows.
LEMMA SameSums ==
  ASSUME NEW f
  PROVE  Book!SumFunction(f) = SumFunction(f)
  BY DEF SumFunction, SumFunctionOnSet, FoldFunctionOnSet, MapThenFoldSet,
         Book!SumFunction, Book!SumFunctionOnSet, Book!FoldFunctionOnSet, Book!MapThenFoldSet

LEMMA BookInit == Init => Book!Init
<1> SUFFICES ASSUME Init PROVE Book!Init
  OBVIOUS
<1>1. Booking = [p \in Ids |-> Book!Running]
  BY DEF Init, Booking, Book!Running
<1>2. Shown = [d \in Days |-> NoReport]
  BY DEF Init, Shown, NoFile
<1>3. result = [d \in Days |-> [s \in Book!Strategies |-> 0]]
  BY DEF Init, Strategies, Book!Strategies
<1> QED BY <1>1, <1>2, <1>3 DEF Book!Init

\* A position that ends is booked; one that goes on is not.
LEMMA MarkKeepsBook ==
  ASSUME IInv, NEW p \in Ids, NEW r \in Ends \union {NoReturn}, Marks(p, r)
  PROVE  Book!Close(p) \/ UNCHANGED Book!bookVars
<1>1. UNCHANGED <<result, report>> /\ Shown' = Shown
  BY DEF Marks, Observe, Shown
<1>2. /\ closedAt[p] = Open
      /\ \A q \in Ids \ {p} : closedAt'[q] = closedAt[q]
      /\ closedAt'[p] = Open \/ (closedAt'[p] = now /\ r \in Ends)
  BY EndsOfDays
<1>3. Booking[p] = Book!Running /\ \A q \in Ids \ {p} : Booking'[q] = Booking[q]
  BY <1>2, ObserveRows DEF IInv, Marks, Booking, FinalMark, Book!Running
<1>4. CASE closedAt'[p] = Open
  <2>1. \A q \in Ids : Booking'[q] = Booking[q]
    BY <1>2, <1>3, <1>4 DEF Booking
  <2>2. Booking' = Booking
    BY <2>1 DEF Booking
  <2> QED BY <1>1, <2>2 DEF Book!bookVars
<1>5. CASE closedAt'[p] # Open
  <2> DEFINE b == [day |-> Day(now), pnl |-> PNL(p, r)]
  <2>1. b \in [day : Days, pnl : Outcomes]
    <3>1. PNL(p, r) \in Outcomes
      BY <1>2, <1>5 DEF Outcomes, Ends
    <3>2. Day(now) \in Days
      BY DayOfTime DEF IInv, ScanIsTyped
    <3> QED BY <3>1, <3>2
  <2>2. Booking'[p] = b
    <3>1. FinalMark(p)'.ret = r
      BY ObserveRows DEF IInv, Marks
    <3>2. PNL(p, FinalMark(p).ret)' = PNL(p, r)
      BY <3>1 DEF PNL
    <3> QED BY <1>2, <1>5, <3>2 DEF Booking, Day
  <2>3. Booking' = [Booking EXCEPT ![p] = b]
    <3> HIDE DEF b
    <3>1. \A q \in Ids : Booking'[q] = [Booking EXCEPT ![p] = b][q]
      BY <1>3, <2>2 DEF Booking
    <3> QED BY <3>1 DEF Booking
  <2>4. \E x \in [day : Days, pnl : Outcomes] : Booking' = [Booking EXCEPT ![p] = x]
    <3> HIDE DEF b
    <3> QED BY <2>1, <2>3
  <2>5. Book!Close(p)
    BY <1>1, <1>3, <2>4 DEF Book!Close
  <2> QED BY <2>5
<1> QED BY <1>4, <1>5

\* Reconciling a day makes its result the day's total.
LEMMA ReconcileKeepsBook ==
  ASSUME IInv, Reconcile, Ordered
  PROVE  Book!Reconcile(Day(jobNow)) /\ Day(jobNow) \in Days
<1>0. PICK d \in Days : d = Day(jobNow)
  BY DayOfTime DEF IInv, ScanIsTyped
<1>1. PICK ret \in [EndedOn(d) -> Ends] :
        /\ \A p \in EndedOn(d) : ret[p] \in LatestReturns(p)
        /\ Store(d, ret)
  BY <1>0 DEF Reconcile, Ends
<1>2. Booking' = Booking /\ Shown' = Shown
  BY DEF Reconcile, Booking, FinalMark, Shown
<1>3. ASSUME NEW s \in Strategies
      PROVE  SumFunction([p \in {q \in EndedOn(d) : StrategyOf[q] = s} |-> PNL(p, ret[p])])
               = Book!Total(d, s)
  <2> DEFINE P == {q \in EndedOn(d) : StrategyOf[q] = s}
  <2>1. P = Book!Booked(d, s)
    <3>1. d # -1
      BY DEF Days
    <3> QED BY <3>1 DEF EndedOn, Booking, Book!Booked
  <2>2. \A p \in P : PNL(p, ret[p]) = Booking[p].pnl
    BY <1>1, StoredReturns DEF EndedOn, Booking
  <2> HIDE DEF P
  <2>3. [p \in P |-> PNL(p, ret[p])] = [p \in P |-> Booking[p].pnl]
    BY <2>2
  <2> QED BY <2>1, <2>3, SameSums DEF Book!Total, P
<1>4. result' = [result EXCEPT ![d] = [s \in Book!Strategies |-> Book!Total(d, s)]]
  BY <1>1, <1>3 DEF Store, ResetTo, Strategies, Book!Strategies
<1> QED BY <1>0, <1>2, <1>4 DEF Book!Reconcile

LEMMA WriteKeepsBook ==
  ASSUME IInv, WriteReport
  PROVE  Book!Publish(Day(jobNow)) /\ Day(jobNow) \in Days
<1>0. PICK d \in Days : d = Day(jobNow)
  BY DayOfTime DEF IInv, ScanIsTyped
<1>1. report' = [report EXCEPT ![d] = [at |-> now, total |-> result[d]]]
  BY <1>0 DEF WriteReport, DayOfReport
<1>2. \A e \in Days : Shown'[e] = [Shown EXCEPT ![d] = result[d]][e]
  BY <1>1 DEF IInv, RowsAreTyped, Shown
<1>3. Shown' = [Shown EXCEPT ![d] = result[d]]
  BY <1>2 DEF Shown
<1>4. Booking' = Booking /\ result' = result
  BY DEF WriteReport, Booking, FinalMark
<1> QED BY <1>0, <1>3, <1>4 DEF Book!Publish

LEMMA OthersKeepBook ==
  ASSUME Tick \/ SetBack \/ StartScan \/ ScanDone \/ Abort \/ UNCHANGED vars
  PROVE  UNCHANGED Book!bookVars
<1>1. UNCHANGED <<marks, closedAt, result, report>>
  BY DEF Tick, SetBack, StartScan, ScanDone, Abort, vars, rows
<1> QED BY <1>1 DEF Book!bookVars, Booking, Shown, FinalMark

\* While times are in order, each step of the rows is a step of the book, or
\* changes nothing in it.
THEOREM RowsKeepTheBook == Spec => ImplementsBook
<1>1. IInv /\ [Next]_vars => [Ordered' => Book!Next]_(Book!bookVars)
  <2> SUFFICES ASSUME IInv, [Next]_vars, Ordered'
               PROVE  Book!Next \/ UNCHANGED Book!bookVars
    OBVIOUS
  <2>1. ASSUME NEW p \in Ids, Hold(p) \/ End(p)
        PROVE  Book!Next \/ UNCHANGED Book!bookVars
    BY <2>1, PassesMark, MarkKeepsBook DEF Book!Next
  <2>2. CASE Reconcile
    <3>1. Ordered
      BY <2>2 DEF Reconcile, Ordered
    <3> QED BY <2>2, <3>1, ReconcileKeepsBook DEF Book!Next
  <2>3. CASE WriteReport
    BY <2>3, WriteKeepsBook DEF Book!Next
  <2> QED BY <2>1, <2>2, <2>3, OthersKeepBook DEF Next
<1> QED BY <1>1, BookInit, InvHolds, PTL DEF Spec, ImplementsBook

-----------------------------------------------------------------------------
(* The policies: what division and rounding lose, and why no decision turns    *)
(* on it.                                                                   *)

\* Division is defined by its remainder.
LEMMA Division ==
  ASSUME NEW a \in Nat, NEW b \in Nat \ {0}
  PROVE  /\ a \div b \in Nat
         /\ b * (a \div b) <= a
         /\ a < b * (a \div b) + b
  OBVIOUS

LEMMA DivisionReaches ==
  ASSUME NEW a \in Nat, NEW b \in Nat \ {0}, NEW q \in Nat
  PROVE  a \div b >= q <=> a >= q * b
<1> DEFINE d == a \div b
<1>1. d \in Nat /\ b * d <= a /\ a < b * d + b
  BY Division
<1> HIDE DEF d
<1>2. d >= q => b * d >= q * b
  BY <1>1
<1>3. ~ (d >= q) => b * d + b <= q * b
  <2> SUFFICES ASSUME d + 1 <= q PROVE b * d + b <= q * b
    BY <1>1
  <2>1. b * (d + 1) <= b * q
    BY <1>1
  <2>2. b * (d + 1) = b * d + b /\ b * q = q * b
    BY <1>1
  <2> QED BY <2>1, <2>2
<1>4. b * d \in Nat /\ q * b \in Nat
  BY <1>1
<1> QED BY <1>1, <1>2, <1>3, <1>4 DEF d

\* Truncated division reaches a limit above zero, or one below it, exactly when
\* the ratio does.
LEMMA QuoReaches ==
  ASSUME NEW a \in Int, NEW b \in Nat \ {0}, NEW q \in Nat \ {0}
  PROVE  /\ Quo(a, b) \in Int
         /\ Quo(a, b) >= q <=> a >= q * b
         /\ Quo(a, b) <= -q <=> a <= -q * b
<1>0. q * b \in Nat /\ q * b > 0 /\ -q * b = -(q * b)
  OBVIOUS
<1>1. CASE a >= 0
  <2>1. Quo(a, b) = a \div b /\ a \div b \in Nat /\ (a \div b >= q <=> a >= q * b)
    BY <1>1, Division, DivisionReaches DEF Quo
  <2> QED BY <1>0, <1>1, <2>1
<1>2. CASE a < 0
  <2> DEFINE d == (-a) \div b
  <2>1. Quo(a, b) = -d
    BY <1>2 DEF Quo
  <2>2. d \in Nat /\ (d >= q <=> -a >= q * b)
    BY <1>2, Division, DivisionReaches
  <2> HIDE DEF d
  <2> QED BY <1>0, <1>2, <2>1, <2>2
<1> QED BY <1>1, <1>2

\* Where a quote comes from and what a position was entered with.
QuoteTyped == input.out \in Nat /\ input.fees \in Nat /\ input.cost \in Nat \ {0} /\ input.held \in Nat

\* No rounding moves an exit, for any policy, cost, fees and quote.
THEOREM ExitsAlwaysExact ==
  ASSUME input.kind = "exit" => QuoteTyped
  PROVE  ExitsAreExact
<1> SUFFICES ASSUME QuoteTyped, input.kind = "exit" PROVE ExitsAreExact
  BY DEF ExitsAreExact
<1> DEFINE net == NetOutput(input.out, input.fees)
           cost == input.cost
           gain == (net - cost) * Scale
           ret == ReturnBPS(net, cost)
           decision == Decide(ret, input.held)
<1>1. net \in Nat /\ cost \in Nat \ {0} /\ input.held \in Nat
  BY DEF QuoteTyped, NetOutput
<1>2. TakeProfitBPS \in Nat \ {0} /\ StopLossBPS \in Nat \ {0} /\ MaxHoldDuration \in Nat \ {0}
  BY PolicyAssumption
<1>3. gain \in Int /\ gain >= -Scale * cost /\ (gain <= -Scale * cost <=> net = 0) /\ Scale = 10000
  BY <1>1 DEF Scale
<1>4. ret = Quo(gain, cost)
  BY DEF ReturnBPS
<1> HIDE DEF net, cost, gain, ret, decision
<1>5. ASSUME NEW q \in Nat \ {0}
      PROVE  /\ ret \in Int
             /\ ret >= q <=> gain >= q * cost
             /\ ret <= -q <=> gain <= -q * cost
  <2>1. gain \in Int /\ cost \in Nat \ {0}
    BY <1>1, <1>3
  <2>2. /\ Quo(gain, cost) \in Int
        /\ Quo(gain, cost) >= q <=> gain >= q * cost
        /\ Quo(gain, cost) <= -q <=> gain <= -q * cost
    BY <2>1, QuoReaches
  <2> QED BY <1>4, <2>2
<1>6. /\ ret \in Int
      /\ ret >= TakeProfitBPS <=> gain >= TakeProfitBPS * cost
      /\ ret <= -StopLossBPS <=> gain <= -StopLossBPS * cost
  BY <1>2, <1>5
<1>8. ret <= -Scale <=> net = 0
  BY <1>3, <1>5
<1>9. ret >= -Scale
  <2>1. 10001 \in Nat \ {0}
    OBVIOUS
  <2>2. ret <= -10001 <=> gain <= -10001 * cost
    BY <1>5, <2>1
  <2> QED BY <1>1, <1>3, <1>6, <2>2
<1>7. /\ decision = "TAKE_PROFIT" <=> ret >= TakeProfitBPS
      /\ decision = "STOP_LOSS" <=> ret <= -StopLossBPS
      /\ decision = "HOLD" => input.held < MaxHoldDuration
  BY <1>1, <1>2, <1>6 DEF Decide, decision
<1>10. /\ decision = "TAKE_PROFIT" <=> gain >= TakeProfitBPS * cost
       /\ decision = "STOP_LOSS" <=> gain <= -StopLossBPS * cost
       /\ decision = "HOLD" => input.held < MaxHoldDuration
       /\ ret >= -Scale
       /\ ret = -Scale <=> net = 0
  <2>1. ret = -Scale <=> ret <= -Scale
    BY <1>3, <1>6, <1>9
  <2> QED BY <1>6, <1>7, <1>8, <1>9, <2>1
<1> QED BY <1>10 DEF ExitsAreExact, net, cost, gain, ret, decision

\* Evidence as it is parsed: integers, and the change as a fraction.
EvidenceTyped(e) ==
    /\ {e.buys, e.sells, e.transactions, e.volume, e.liquidity} \subseteq Int
    /\ e.change[1] \in Int /\ e.change[2] \in Nat \ {0}

LEMMA RatioReaches ==
  ASSUME NEW n \in Int, NEW d \in Int, NEW limit \in Nat \ {0}
  PROVE  AtLeast(n, d, limit) <=> n >= 0 /\ d > 0 /\ n * Scale >= limit * d
<1>1. CASE n >= 0 /\ d > 0
  <2>1. n * Scale \in Int /\ d \in Nat \ {0}
    BY <1>1 DEF Scale
  <2>2. Quo(n * Scale, d) >= limit <=> n * Scale >= limit * d
    BY <2>1, QuoReaches
  <2> QED BY <1>1, <2>2 DEF AtLeast, HasRatio, RatioBPS
<1>2. CASE ~ (n >= 0 /\ d > 0)
  BY <1>2 DEF AtLeast, HasRatio
<1> QED BY <1>1, <1>2

\* How far a rounded ratio is from the exact one.
LEMMA RoundedIsNear ==
  ASSUME NEW n \in Int, NEW d \in Nat \ {0}
  PROVE  LET r == Rounded(n, d)
         IN  /\ r \in Int
             /\ n >= 0 => r >= 0 /\ 2 * (r * d) <= 2 * n + d /\ 2 * n < 2 * (r * d) + d
             /\ n < 0 => r <= 0 /\ 2 * (r * d) >= 2 * n - d /\ 2 * n > 2 * (r * d) - d
<1> DEFINE r == Rounded(n, d)
<1>0. 2 * d \in Nat \ {0}
  OBVIOUS
<1>1. CASE n >= 0
  <2> DEFINE a == 2 * n + d
             q == a \div (2 * d)
  <2>1. a \in Nat
    BY <1>1
  <2>2. r = q
    BY <1>1, <2>1 DEF Rounded, Quo
  <2>3. q \in Nat /\ (2 * d) * q <= a /\ a < (2 * d) * q + 2 * d
    BY <1>0, <2>1, Division
  <2> HIDE DEF q, r
  <2>4. (2 * d) * q = 2 * (r * d) /\ r * d \in Nat
    BY <2>2, <2>3
  <2>5. r \in Nat /\ 2 * (r * d) <= 2 * n + d /\ 2 * n < 2 * (r * d) + d
    BY <1>1, <2>2, <2>3, <2>4
  <2> QED BY <1>1, <2>5 DEF r
<1>2. CASE n < 0
  <2> DEFINE a == d - 2 * n
             q == a \div (2 * d)
  <2>1. a \in Nat /\ 2 * n + (-d) < 0 /\ -(2 * n + (-d)) = a
    BY <1>2
  <2>2. r = -q
    BY <1>2, <2>1 DEF Rounded, Quo
  <2>3. q \in Nat /\ (2 * d) * q <= a /\ a < (2 * d) * q + 2 * d
    BY <1>0, <2>1, Division
  <2> HIDE DEF q, r
  <2>4. (2 * d) * q = -(2 * (r * d)) /\ r * d \in Int
    BY <2>2, <2>3
  <2>5. r \in Int /\ r <= 0 /\ 2 * (r * d) >= 2 * n - d /\ 2 * n > 2 * (r * d) - d
    BY <1>2, <2>2, <2>3, <2>4
  <2> QED BY <1>2, <2>5 DEF r
<1> QED BY <1>1, <1>2

LEMMA RoundedIsNearest ==
  ASSUME NEW n \in Int, NEW d \in Nat \ {0}
  PROVE  Nearest(Rounded(n, d), n, d)
<1> DEFINE r == Rounded(n, d)
<1>1. /\ r \in Int
      /\ n >= 0 => r >= 0 /\ 2 * (r * d) <= 2 * n + d /\ 2 * n < 2 * (r * d) + d
      /\ n < 0 => r <= 0 /\ 2 * (r * d) >= 2 * n - d /\ 2 * n > 2 * (r * d) - d
  BY RoundedIsNear
<1> HIDE DEF r
<1>2. r * d \in Int /\ (r - 1) * d = r * d - d /\ (r + 1) * d = r * d + d /\ (r = 0 => r * d = 0)
  BY <1>1
<1>3. PICK a \in Int : a = r * d /\ (r - 1) * d = a - d /\ (r + 1) * d = a + d /\ (r = 0 => a = 0)
  BY <1>2
<1> DEFINE off(k) == IF n >= k * d THEN n - k * d ELSE k * d - n
           size(k) == IF k >= 0 THEN k ELSE -k
<1>4. ASSUME NEW k \in r - 1 .. r + 1
      PROVE  off(r) < off(k) \/ (off(r) = off(k) /\ size(r) >= size(k))
  <2>1. k = r - 1 \/ k = r \/ k = r + 1
    BY <1>1
  <2>2. CASE k = r
    BY <1>1, <1>3, <2>2
  <2>3. CASE k = r - 1
    BY <1>1, <1>3, <2>3
  <2>4. CASE k = r + 1
    BY <1>1, <1>3, <2>4
  <2> QED BY <2>1, <2>2, <2>3, <2>4
<1> QED BY <1>4 DEF Nearest, r

\* No truncation or rounding moves a rule, for any evidence and any limits.
THEOREM RulesAlwaysExact ==
  ASSUME input.kind = "candidate" => EvidenceTyped(input.evidence)
  PROVE  RulesAreExact
<1> SUFFICES ASSUME input.kind = "candidate", EvidenceTyped(input.evidence)
             PROVE  RulesAreExact
  BY DEF RulesAreExact
<1> DEFINE e == input.evidence
<1>1. /\ e.buys \in Int /\ e.sells \in Int /\ e.transactions \in Int /\ e.volume \in Int /\ e.liquidity \in Int
      /\ e.change[1] \in Int /\ e.change[2] \in Nat \ {0}
      /\ MinBuyShareBPS \in Nat /\ MinTurnoverBPS \in Nat
  BY CandidateAssumption DEF EvidenceTyped
<1> HIDE DEF e
<1>2. MinBuyShareBPS > 0 =>
        (BuyShare(e) <=> /\ CountsValid(e) /\ e.buys + e.sells > 0
                         /\ e.buys * Scale >= MinBuyShareBPS * (e.buys + e.sells))
  <2> SUFFICES ASSUME MinBuyShareBPS \in Nat \ {0}
               PROVE  BuyShare(e) <=> /\ CountsValid(e) /\ e.buys + e.sells > 0
                                      /\ e.buys * Scale >= MinBuyShareBPS * (e.buys + e.sells)
    BY <1>1
  <2>1. CASE CountsValid(e)
    <3>1. Computed(e) = e.buys + e.sells /\ e.buys + e.sells \in Int /\ e.buys >= 0
      BY <1>1, <2>1 DEF Computed, CountsValid
    <3>2. AtLeast(e.buys, e.buys + e.sells, MinBuyShareBPS) <=>
            e.buys >= 0 /\ e.buys + e.sells > 0 /\ e.buys * Scale >= MinBuyShareBPS * (e.buys + e.sells)
      BY <1>1, <3>1, RatioReaches
    <3> QED BY <2>1, <3>1, <3>2 DEF BuyShare
  <2>2. CASE ~ CountsValid(e)
    <3>1. Computed(e) = 0
      BY <2>2 DEF Computed
    <3> QED BY <1>1, <2>2, <3>1 DEF BuyShare, AtLeast, HasRatio
  <2> QED BY <2>1, <2>2
<1>3. MinTurnoverBPS > 0 =>
        (Turnover(e) <=> e.liquidity > 0 /\ e.volume * Scale >= MinTurnoverBPS * e.liquidity)
  <2> SUFFICES ASSUME MinTurnoverBPS \in Nat \ {0}
               PROVE  Turnover(e) <=> e.liquidity > 0 /\ e.volume * Scale >= MinTurnoverBPS * e.liquidity
    BY <1>1
  <2>1. Turnover(e) <=> e.volume >= 0 /\ e.liquidity > 0 /\ e.volume * Scale >= MinTurnoverBPS * e.liquidity
    <3>1. AtLeast(e.volume, e.liquidity, MinTurnoverBPS) <=>
            e.volume >= 0 /\ e.liquidity > 0 /\ e.volume * Scale >= MinTurnoverBPS * e.liquidity
      BY <1>1, RatioReaches
    <3> QED BY <3>1 DEF Turnover
  <2>2. e.liquidity > 0 /\ e.volume * Scale >= MinTurnoverBPS * e.liquidity => e.volume >= 0
    <3>1. e.liquidity > 0 => MinTurnoverBPS * e.liquidity > 0
      BY <1>1
    <3>2. e.volume < 0 => e.volume * Scale < 0
      BY <1>1 DEF Scale
    <3> QED BY <1>1, <3>1, <3>2 DEF Scale
  <2> QED BY <2>1, <2>2
<1>4. Nearest(PriceChangeBPS(e), e.change[1], e.change[2])
  BY <1>1, RoundedIsNearest DEF PriceChangeBPS
<1>5. Eligible(e) => /\ MomentumEnabled => e.buys + e.sells = e.transactions
                     /\ e.transactions >= MinTransactions
                     /\ Admissible(TRUE, TRUE, e.entry)
  BY DEF Eligible, Activity, Computed, EntryPriceImpact, Admissible
<1> QED BY <1>2, <1>3, <1>4, <1>5 DEF RulesAreExact, e

\* Posts as they are collected: engagement and followers are counts.
Post ==
    [author : STRING, minute : Nat, text : STRING, reply : BOOLEAN, repost : BOOLEAN,
     inWindow : BOOLEAN, mention : BOOLEAN, warning : BOOLEAN, engagement : Nat, followers : Nat]
PostsTyped(posts) == posts \in Seq(Post)

\* Posts that are counted by some test, and their number.
LEMMA PostsAreFinite ==
  ASSUME NEW posts, PostsTyped(posts)
  PROVE  /\ IsFiniteSet(Counted(posts)) /\ Cardinality(Counted(posts)) \in Nat
         /\ \A S \in SUBSET Counted(posts) :
              IsFiniteSet(S) /\ Cardinality(S) \in Nat /\ Cardinality(S) <= Cardinality(Counted(posts))
<1>1. IsFiniteSet(DOMAIN posts)
  <2>1. DOMAIN posts = 1 .. Len(posts) /\ Len(posts) \in Nat
    BY DEF PostsTyped
  <2> QED BY <2>1, FS_Interval
<1>2. IsFiniteSet(Counted(posts))
  BY <1>1, FS_Subset DEF Counted
<1> QED BY <1>2, FS_Subset, FS_CardinalityType

\* A set with more than one element has two.
LEMMA TwoElements ==
  ASSUME NEW S, IsFiniteSet(S), Cardinality(S) > 1
  PROVE  \E x, y \in S : x # y
<1> SUFFICES ASSUME \A x, y \in S : x = y PROVE FALSE
  OBVIOUS
<1>1. S # {}
  BY FS_EmptySet
<1>2. PICK x \in S : TRUE
  BY <1>1
<1>3. S = {x}
  BY <1>2
<1> QED BY <1>3, FS_Singleton

\* Each repeated text has two posts of its own.
LEMMA RepeatedTwice ==
  ASSUME NEW posts, PostsTyped(posts)
  PROVE  /\ IsFiniteSet(Repeated(posts)) /\ Cardinality(Repeated(posts)) \in Nat
         /\ 2 * Cardinality(Repeated(posts)) <= Cardinality(Counted(posts))
<1> DEFINE C == Counted(posts)
           R == Repeated(posts)
           With(t) == {i \in C : posts[i].text = t}
           one(t) == CHOOSE i \in With(t) : TRUE
           other(t) == CHOOSE i \in With(t) : i # one(t)
           f == [x \in R \X {1, 2} |-> IF x[2] = 1 THEN one(x[1]) ELSE other(x[1])]
<1>1. ASSUME NEW t \in R
      PROVE  one(t) \in With(t) /\ other(t) \in With(t) /\ one(t) # other(t)
  <2>1. Cardinality(With(t)) > 1
    BY DEF Repeated, Count
  <2>2. IsFiniteSet(With(t))
    BY PostsAreFinite
  <2>3. \E x, y \in With(t) : x # y
    <3> HIDE DEF With
    <3> QED BY <2>1, <2>2, TwoElements
  <2>4. one(t) \in With(t)
    <3> HIDE DEF With
    <3> QED BY <2>3
  <2>5. \E x \in With(t) : x # one(t)
    <3> HIDE DEF With, one
    <3> QED BY <2>3
  <2>6. other(t) \in With(t) /\ other(t) # one(t)
    <3> HIDE DEF With, one
    <3> QED BY <2>5
  <2> QED BY <2>4, <2>6
<1>2. \A t \in R : /\ one(t) \in C /\ other(t) \in C /\ one(t) # other(t)
                   /\ posts[one(t)].text = t /\ posts[other(t)].text = t
  BY <1>1
<1> HIDE DEF one, other
<1>3. f \in [R \X {1, 2} -> C]
  BY <1>2
<1>4. \A x, y \in R \X {1, 2} : f[x] = f[y] => x = y
  BY <1>2
<1>5. f \in Injection(R \X {1, 2}, C)
  BY <1>3, <1>4 DEF Injection, IsInjective
<1>6. IsFiniteSet(C) /\ Cardinality(C) \in Nat
  BY PostsAreFinite
<1> HIDE DEF f, R, C
<1>7. IsFiniteSet(R \X {1, 2}) /\ Cardinality(R \X {1, 2}) <= Cardinality(C)
  BY <1>5, <1>6, FS_Injection
<1>8. IsFiniteSet(R)
  <2> DEFINE T == {posts[i].text : i \in C}
             g == [i \in C |-> posts[i].text]
  <2>1. g \in Surjection(C, T)
    BY DEF Surjection
  <2> HIDE DEF g
  <2>2. IsFiniteSet(T)
    BY <1>6, <2>1, FS_Surjection
  <2>3. R \in SUBSET T
    BY DEF R, C, Repeated
  <2> QED BY <2>2, <2>3, FS_Subset
<1>9. IsFiniteSet({1, 2}) /\ Cardinality({1, 2}) = 2
  <2>0. 2 \notin {1}
    OBVIOUS
  <2>1. IsFiniteSet({1}) /\ Cardinality({1}) = 1
    BY FS_Singleton, Zenon
  <2>2. IsFiniteSet({1} \cup {2}) /\ Cardinality({1} \cup {2}) = Cardinality({1}) + 1
    BY <2>0, <2>1, FS_AddElement
  <2>3. {1, 2} = {1} \cup {2}
    OBVIOUS
  <2> QED BY <2>1, <2>2, <2>3
<1>10. Cardinality(R) \in Nat /\ Cardinality(R \X {1, 2}) = Cardinality(R) * 2
  BY <1>8, <1>9, FS_CardinalityType, FS_Product
<1> QED BY <1>6, <1>7, <1>8, <1>10 DEF R, C

\* Every post is an original, a repost or a reply, and no post is two of them.
LEMMA KindsPartition ==
  ASSUME NEW posts, PostsTyped(posts)
  PROVE  Cardinality({i \in Counted(posts) : ~ posts[i].repost /\ ~ posts[i].reply})
           + Cardinality({i \in Counted(posts) : posts[i].repost})
           + Cardinality({i \in Counted(posts) : posts[i].reply /\ ~ posts[i].repost})
         = Cardinality(Counted(posts))
<1> DEFINE C == Counted(posts)
           A == {i \in C : ~ posts[i].repost /\ ~ posts[i].reply}
           B == {i \in C : posts[i].repost}
           D == {i \in C : posts[i].reply /\ ~ posts[i].repost}
<1>1. /\ IsFiniteSet(A) /\ IsFiniteSet(B) /\ IsFiniteSet(D)
      /\ Cardinality(A) \in Nat /\ Cardinality(B) \in Nat /\ Cardinality(D) \in Nat
  <2>1. A \in SUBSET C /\ B \in SUBSET C /\ D \in SUBSET C
    OBVIOUS
  <2> HIDE DEF A, B, D
  <2> QED BY <2>1, PostsAreFinite
<1>2. (A \cup B) \cup D = C /\ A \cap B = {} /\ (A \cup B) \cap D = {}
  OBVIOUS
<1> HIDE DEF A, B, D, C
<1>3. IsFiniteSet(A \cup B) /\ Cardinality(A \cup B) = Cardinality(A) + Cardinality(B)
  <2>1. /\ IsFiniteSet(A \cup B)
        /\ Cardinality(A \cup B) = Cardinality(A) + Cardinality(B) - Cardinality(A \cap B)
    BY <1>1, FS_Union
  <2>2. Cardinality(A \cap B) = 0
    BY <1>2, FS_EmptySet
  <2> QED BY <1>1, <2>1, <2>2
<1>4. PICK E : E = A \cup B
  OBVIOUS
<1>5. IsFiniteSet(E) /\ Cardinality(E) = Cardinality(A) + Cardinality(B) /\ E \cup D = C /\ E \cap D = {}
  BY <1>2, <1>3, <1>4
<1>6. Cardinality(E \cup D) = Cardinality(E) + Cardinality(D) - Cardinality(E \cap D)
  BY <1>1, <1>5, FS_Union
<1>7. Cardinality(E \cap D) = 0
  BY <1>5, FS_EmptySet
<1>8. Cardinality(C) = Cardinality(A) + Cardinality(B) + Cardinality(D)
  <2>1. Cardinality(C) = Cardinality(E) + Cardinality(D) - Cardinality(E \cap D)
    BY <1>5, <1>6, Zenon
  <2> QED BY <1>1, <1>5, <1>7, <2>1
<1> QED BY <1>1, <1>8 DEF A, B, C, D

\* What the metrics of any posts are, each within the number of posts.
LEMMA MetricsBounded ==
  ASSUME NEW posts, PostsTyped(posts)
  PROVE  LET m == AnalyzeSocial(posts)
         IN  /\ {m.posts, m.authors, m.mentions, m.originals, m.reposts, m.replies, m.warnings,
                 m.repeated, m.simultaneous} \subseteq 0 .. m.posts
             /\ m.posts \in Nat
             /\ m.originals + m.reposts + m.replies = m.posts
             /\ 2 * m.repeated <= m.posts
             /\ m.mentionBPS \in 0 .. Scale
             /\ m.engagementBPS \in Int
<1> DEFINE m == AnalyzeSocial(posts)
           C == Counted(posts)
           n == Cardinality(C)
<1>1. /\ IsFiniteSet(C) /\ n \in Nat
      /\ \A S \in SUBSET C : Cardinality(S) \in 0 .. n
  BY PostsAreFinite
<1>2. m.posts = n
  BY DEF AnalyzeSocial
<1>3. /\ m.mentions \in 0 .. n /\ m.originals \in 0 .. n /\ m.reposts \in 0 .. n
      /\ m.replies \in 0 .. n /\ m.warnings \in 0 .. n /\ m.simultaneous \in 0 .. n
  <2>1. /\ m.mentions = Cardinality({i \in C : posts[i].mention})
        /\ m.originals = Cardinality({i \in C : ~ posts[i].repost /\ ~ posts[i].reply})
        /\ m.reposts = Cardinality({i \in C : posts[i].repost})
        /\ m.replies = Cardinality({i \in C : posts[i].reply /\ ~ posts[i].repost})
        /\ m.warnings = Cardinality({i \in C : posts[i].warning})
        /\ m.simultaneous = Cardinality({i \in C : Count(posts, LAMBDA q : q.minute = posts[i].minute) > 1})
    BY DEF AnalyzeSocial, Count, Replies, Simultaneous
  <2> QED BY <1>1, <2>1
<1>4. m.originals + m.reposts + m.replies = n
  <2>1. /\ m.originals = Cardinality({i \in C : ~ posts[i].repost /\ ~ posts[i].reply})
        /\ m.reposts = Cardinality({i \in C : posts[i].repost})
        /\ m.replies = Cardinality({i \in C : posts[i].reply /\ ~ posts[i].repost})
    BY DEF AnalyzeSocial, Count, Replies
  <2> QED BY <2>1, KindsPartition
<1>5. m.authors \in 0 .. n
  <2> DEFINE T == {posts[i].author : i \in C}
             f == [i \in C |-> posts[i].author]
  <2>1. m.authors = Cardinality(T)
    BY DEF AnalyzeSocial
  <2>2. f \in Surjection(C, T)
    BY DEF Surjection
  <2> HIDE DEF f, T, C
  <2>3. IsFiniteSet(T) /\ Cardinality(T) <= n
    BY <1>1, <2>2, FS_Surjection
  <2> QED BY <1>1, <2>1, <2>3, FS_CardinalityType
<1>6. m.repeated \in 0 .. n /\ 2 * m.repeated <= n
  <2>1. m.repeated = Cardinality(Repeated(posts))
    BY DEF AnalyzeSocial
  <2> QED BY <1>1, <2>1, RepeatedTwice
<1>7. m.mentionBPS \in 0 .. Scale
  <2>1. m.mentionBPS = IF n = 0 THEN 0 ELSE (m.mentions * Scale) \div n
    BY DEF AnalyzeSocial
  <2>2. PICK a, b : a = m.mentions /\ b = n
    OBVIOUS
  <2>3. a \in Nat /\ b \in Nat /\ a <= b
    BY <1>1, <1>3, <2>2
  <2>4. CASE b # 0
    <3>1. a * Scale \in Nat /\ b \in Nat \ {0} /\ a * Scale <= Scale * b
          /\ Scale + 1 \in Nat /\ (Scale + 1) * b = Scale * b + b
      BY <2>3, <2>4 DEF Scale
    <3>2. PICK q : q = (a * Scale) \div b
      OBVIOUS
    <3>3. q \in Nat
      BY <3>1, <3>2, Division
    <3>4. q >= Scale + 1 <=> a * Scale >= (Scale + 1) * b
      BY <3>1, <3>2, DivisionReaches
    <3>5. q \in 0 .. Scale
      BY <3>1, <3>3, <3>4 DEF Scale
    <3> HIDE DEF m, n
    <3> QED BY <2>1, <2>2, <2>4, <3>2, <3>5
  <2>5. CASE b = 0
    <3>1. m.mentionBPS = 0
      <4> HIDE DEF m, n
      <4> QED BY <2>1, <2>2, <2>5
    <3> QED BY <3>1 DEF Scale
  <2> QED BY <2>4, <2>5
<1>8. m.engagementBPS \in Int
  <2> DEFINE f == [i \in C |-> Engagement(posts[i])]
             total == SumFunction(f)
  <2>1. m.engagementBPS = IF n = 0 THEN 0 ELSE total \div n
    BY DEF AnalyzeSocial
  <2>2. ASSUME NEW i \in C PROVE Engagement(posts[i]) \in Int
    <3>1. posts[i].engagement \in Nat /\ posts[i].followers \in Nat
      <4>1. i \in DOMAIN posts
        BY DEF Counted
      <4> HIDE DEF f, C, n, m, total
      <4>2. posts[i] \in Post
        BY <4>1 DEF PostsTyped
      <4> QED BY <4>2 DEF Post
    <3>2. PICK a \in Nat, b \in Nat \ {0} :
            a = posts[i].engagement * Scale /\ b = Clamp(posts[i].followers, 1, posts[i].followers + 1)
      BY <3>1 DEF Scale, Clamp
    <3>3. Engagement(posts[i]) = a \div b
      BY <3>2 DEF Engagement
    <3> QED BY <3>2, <3>3
  <2>3. DOMAIN f = C /\ \A i \in C : f[i] \in Int
    BY <2>2
  <2> HIDE DEF f
  <2>4. total \in Int
    BY <1>1, <2>3, SumIsInteger
  <2> QED BY <1>1, <2>1, <2>4
<1> HIDE DEF m, n
<1> QED BY <1>1, <1>2, <1>3, <1>4, <1>5, <1>6, <1>7, <1>8 DEF m

\* The metrics that are counted pass their own sanity check.
THEOREM MetricsAlwaysConsistent ==
  ASSUME input.kind = "social" => PostsTyped(input.posts)
  PROVE  MetricsAreConsistent
<1> SUFFICES ASSUME input.kind = "social", PostsTyped(input.posts)
             PROVE  MetricsAreConsistent
  BY DEF MetricsAreConsistent
<1> DEFINE m == AnalyzeSocial(input.posts)
<1>1. /\ {m.posts, m.authors, m.mentions, m.originals, m.reposts, m.replies, m.warnings,
          m.repeated, m.simultaneous} \subseteq 0 .. m.posts
      /\ m.posts \in Nat
      /\ m.originals + m.reposts + m.replies = m.posts
      /\ 2 * m.repeated <= m.posts
      /\ m.mentionBPS \in 0 .. Scale
      /\ m.engagementBPS \in Int
  BY MetricsBounded
<1> HIDE DEF m
<1>2. MeetsThresholds(m) => SocialEligible(m)
  <2>1. MeetsThresholds(m) => m.originals > 0
    BY <1>1, SocialAssumption DEF MeetsThresholds
  <2> QED BY <1>1, <2>1 DEF SocialEligible, ValidMetrics
<1>3. ScoreSocial(m) \in 0 .. 100
  <2>1. m.mentionBPS \div 1000 \in Int /\ m.engagementBPS \div 100 \in Int
    BY <1>1
  <2>2. Clamp(m.engagementBPS \div 100, 0, 20) \in Int
    BY <2>1 DEF Clamp
  <2>3. \A k \in Int : Clamp(k, 0, 100) \in 0 .. 100
    BY DEF Clamp
  <2> QED BY <1>1, <2>1, <2>2, <2>3 DEF ScoreSocial
<1>4. 2 * m.repeated <= m.posts /\ m.simultaneous <= m.posts /\ m.mentionBPS <= Scale
  <2>1. m.simultaneous \in 0 .. m.posts
    BY <1>1
  <2>2. m.mentionBPS \in 0 .. Scale
    BY <1>1
  <2>3. m.mentionBPS <= Scale
    <3>1. PICK k \in 0 .. Scale : k = m.mentionBPS
      BY <2>2
    <3>2. k <= Scale
      BY DEF Scale
    <3> QED BY <3>1, <3>2, Zenon
  <2> QED BY <1>1, <2>1, <2>3
<1> QED BY <1>2, <1>3, <1>4 DEF MetricsAreConsistent, m
=============================================================================
