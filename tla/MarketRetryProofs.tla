------------------------- MODULE MarketRetryProofs -------------------------
(***************************************************************************)
(* The retry queue is well-formed and within its cap, expiries stand, leases  *)
(* space the retries, only the oldest waiting pool is displaced, and none waits  *)
(* for another twice, whatever the pools, the number of rows and the intervals. *)
(***************************************************************************)
EXTENDS MarketRetry, FiniteSetTheorems, TLAPS

-----------------------------------------------------------------------------
(* Finite orders, as sets of pairs.                                         *)

TotalOrder(R, S) ==
    /\ \A x \in S : <<x, x>> \notin R
    /\ \A x, y, z \in S : <<x, y>> \in R /\ <<y, z>> \in R => <<x, z>> \in R
    /\ \A x, y \in S : x = y \/ <<x, y>> \in R \/ <<y, x>> \in R

\* A finite set that is not empty has a first element, before every other: one
\* whose set of predecessors is smallest.
LEMMA FirstExists ==
  ASSUME NEW S, IsFiniteSet(S), S # {}, NEW R, TotalOrder(R, S)
  PROVE  \E x \in S : \A y \in S \ {x} : <<x, y>> \in R
<1> DEFINE Preds(x) == {y \in S : <<y, x>> \in R}
           T == {Preds(x) : x \in S}
           Smaller == StrictSubsetOrdering(S)
<1>1. IsWellFoundedOn(Smaller, SUBSET S)
  BY FS_StrictSubsetOrderingWellFounded, FS_FiniteSubsetsOfFinite
<1>2. T \subseteq SUBSET S /\ T # {}
  OBVIOUS
<1>3. PICK m \in T : \A u \in T : <<u, m>> \notin Smaller
  <2> HIDE DEF T, Smaller
  <2> QED BY <1>1, <1>2, WFMin
<1>4. PICK x \in S : m = Preds(x)
  BY <1>3
<1>5. ASSUME NEW y \in S, <<y, x>> \in R
      PROVE  FALSE
  <2>1. Preds(y) \subseteq Preds(x) /\ Preds(y) # Preds(x)
    BY <1>5 DEF TotalOrder
  <2>2. <<Preds(y), m>> \in Smaller
    BY <1>4, <2>1 DEF StrictSubsetOrdering
  <2> QED BY <1>3, <2>2
<1> QED BY <1>5 DEF TotalOrder

-----------------------------------------------------------------------------
(* The inductive invariant.                                                 *)

Waiting == [active : {TRUE}, next : Nat, expires : Nat]

RowsAreTyped ==
    /\ Keys \subseteq Pools
    /\ \A p \in Keys : queue[p] = Empty \/ queue[p] \in Waiting

WithinCap == Cardinality(Keys) <= Cap

JobIsTyped ==
    /\ now \in 0 .. MaxTime
    /\ job \in {"idle", "scan", "retry"}
    /\ jobNow \in 0 .. now
    /\ todo \subseteq Pools
    /\ tried \in [Pools -> [at : -1 .. now, ran : 0 .. now]]
    /\ passed \in [Pools -> Nat]

\* No retry is for a pool that is too old, and there are retries only when an
\* entry can outlive the wait for the first.
Bounded ==
    /\ \A p \in Live : queue[p].expires <= CreatedAt[p] + MaxPoolAge
    /\ Live # {} => Interval < TTL

\* When the interval of a pool that was tried counts from.
From(p) == tried[p].at - tried[p].ran

\* A pool that was tried waits for the interval, or has no time left for a lease.
Spaced ==
    \A p \in Live : tried[p].at >= 0 =>
      \/ From(p) + Interval <= queue[p].next
      \/ queue[p].expires <= From(p) + Interval

IInv == RowsAreTyped /\ WithinCap /\ JobIsTyped /\ Bounded /\ Spaced

-----------------------------------------------------------------------------
(* The rows.                                                                *)

LEMMA RowKinds ==
  ASSUME NEW r
  PROVE  /\ r = Empty => r.active = FALSE /\ r \notin Waiting
         /\ r \in Waiting => r.active = TRUE /\ r.next \in Nat /\ r.expires \in Nat
<1>1. r = Empty => r.active = FALSE
  BY DEF Empty
<1>2. r \in Waiting => r.active = TRUE /\ r.next \in Nat /\ r.expires \in Nat
  BY DEF Waiting
<1> QED BY <1>1, <1>2

LEMMA LiveRows ==
  ASSUME RowsAreTyped
  PROVE  \A p \in Live : /\ p \in Keys /\ p \in Pools
                         /\ queue[p] \in Waiting
                         /\ queue[p].next \in Nat /\ queue[p].expires \in Nat
  BY RowKinds DEF RowsAreTyped, Live

LEMMA KeysAreFew ==
  ASSUME RowsAreTyped
  PROVE  IsFiniteSet(Keys) /\ Cardinality(Keys) \in Nat
  BY FS_Subset, FS_CardinalityType, RetryAssumption DEF RowsAreTyped

\* Age orders the rows, so there is an oldest.
LEMMA OldestIsOldest ==
  ASSUME RowsAreTyped, Keys # {}
  PROVE  Oldest \in Keys /\ \A q \in Keys \ {Oldest} : OlderThan(Oldest, q)
<1> DEFINE R == {e \in Pools \X Pools : OlderThan(e[1], e[2])}
<1>1. \A p, q \in Keys : <<p, q>> \in R <=> OlderThan(p, q)
  BY DEF RowsAreTyped
<1>2. \A p \in Keys : p \in Pools /\ CreatedAt[p] \in Nat
  BY RetryAssumption DEF RowsAreTyped
<1>3. \A p, q, r \in Keys :
        /\ ~ OlderThan(p, p)
        /\ OlderThan(p, q) /\ OlderThan(q, r) => OlderThan(p, r)
        /\ p = q \/ OlderThan(p, q) \/ OlderThan(q, p)
  BY <1>2, BeforeAssumption DEF OlderThan
<1>4. TotalOrder(R, Keys)
  <2> HIDE DEF R
  <2> QED BY <1>1, <1>3, Zenon DEF TotalOrder
<1>5. \E p \in Keys : \A q \in Keys \ {p} : <<p, q>> \in R
  <2> HIDE DEF R
  <2> QED BY <1>4, KeysAreFew, FirstExists
<1>6. \E p \in Keys : \A q \in Keys \ {p} : OlderThan(p, q)
  <2> HIDE DEF R
  <2> QED BY <1>1, <1>5
<1> QED BY <1>6 DEF Oldest

LEMMA PutRows ==
  ASSUME NEW k, NEW p, NEW entry, queue' = Put(k, p, entry)
  PROVE  /\ Keys' = (Keys \ {k}) \union {p}
         /\ queue'[p] = entry
         /\ \A q \in Keys' \ {p} : q \in Keys /\ queue'[q] = queue[q]
  BY DEF Put, Keys

\* Schedule gives the pool its own row, a new one, one that is reusable, or the
\* oldest when all are waiting.
LEMMA SchedulePuts ==
  ASSUME RowsAreTyped, WithinCap, NEW p \in Pools, NEW next \in Nat, NEW until \in Nat,
         Schedule(p, next, until)
  PROVE  \E k, entry :
           /\ queue' = Put(k, p, entry)
           /\ \/ entry = Entry(next, KeptExpiry(p, until))
              \/ entry = Empty
           /\ \/ k = p /\ (p \in Keys \/ Cardinality(Keys) < Cap)
              \/ /\ p \notin Keys
                 /\ \/ k \in Reusable(next)
                    \/ Reusable(next) = {} /\ Full /\ k = Oldest
<1> DEFINE entry == Entry(next, KeptExpiry(p, until))
<1>1. CASE p \in Keys
  BY <1>1 DEF Schedule
<1>2. CASE p \notin Keys /\ Reusable(next) # {}
  BY <1>2 DEF Schedule
<1>3. CASE p \notin Keys /\ Reusable(next) = {} /\ Full
  BY <1>3 DEF Schedule
<1>4. CASE p \notin Keys /\ Reusable(next) = {} /\ ~ Full
  <2>1. queue' = Put(p, p, entry)
    BY <1>4 DEF Schedule
  <2>2. Cardinality(Keys) < Cap
    BY <1>4, KeysAreFew, RetryAssumption DEF WithinCap, Full
  <2> QED BY <2>1, <2>2
<1> QED BY <1>1, <1>2, <1>3, <1>4

LEMMA NewEntry ==
  ASSUME RowsAreTyped, NEW p \in Pools, NEW next \in Nat, NEW until \in Nat
  PROVE  /\ KeptExpiry(p, until) \in Nat
         /\ KeptExpiry(p, until) <= until
         /\ p \in Live => KeptExpiry(p, until) <= queue[p].expires
         /\ Entry(next, KeptExpiry(p, until)) \in Waiting
         /\ Entry(next, KeptExpiry(p, until)).next = next
         /\ Entry(next, KeptExpiry(p, until)).expires = KeptExpiry(p, until)
<1>1. /\ KeptExpiry(p, until) \in Nat
      /\ KeptExpiry(p, until) <= until
      /\ p \in Live => KeptExpiry(p, until) <= queue[p].expires
  BY LiveRows DEF KeptExpiry, Earlier
<1>2. ASSUME NEW e \in Nat
      PROVE  /\ Entry(next, e) \in Waiting
             /\ Entry(next, e).next = next
             /\ Entry(next, e).expires = e
  BY DEF Entry, Waiting
<1> QED BY <1>1, <1>2

\* What a call of Schedule does to the rows.
LEMMA ScheduleRows ==
  ASSUME RowsAreTyped, WithinCap, NEW p \in Pools, NEW next \in Nat, NEW until \in Nat,
         Schedule(p, next, until)
  PROVE  /\ RowsAreTyped'
         /\ WithinCap'
         /\ \A q \in Live' \ {p} : q \in Live /\ queue'[q] = queue[q]
         /\ p \in Live' => queue'[p] = Entry(next, KeptExpiry(p, until))
<1>1. PICK k, entry :
        /\ queue' = Put(k, p, entry)
        /\ entry = Entry(next, KeptExpiry(p, until)) \/ entry = Empty
        /\ \/ k = p /\ (p \in Keys \/ Cardinality(Keys) < Cap)
           \/ p \notin Keys /\ k \in Keys
  <2>1. Reusable(next) \subseteq Keys
    BY DEF Reusable
  <2>2. Full => Keys # {}
    BY FS_EmptySet, RetryAssumption DEF Full
  <2>3. Full => Oldest \in Keys
    BY <2>2, OldestIsOldest
  <2> QED BY <2>1, <2>3, SchedulePuts
<1>2. /\ Keys' = (Keys \ {k}) \union {p}
      /\ queue'[p] = entry
      /\ \A q \in Keys' \ {p} : q \in Keys /\ queue'[q] = queue[q]
  BY <1>1, PutRows
<1>3. RowsAreTyped'
  BY <1>1, <1>2, NewEntry DEF RowsAreTyped
<1>4. WithinCap'
  <2>1. CASE p \in Keys
    <3>1. Keys' = Keys
      BY <1>1, <1>2, <2>1
    <3> QED BY <3>1 DEF WithinCap
  <2>2. CASE p \notin Keys /\ k \in Keys
    <3>1. IsFiniteSet(Keys \ {k}) /\ Cardinality(Keys \ {k}) = Cardinality(Keys) - 1
      BY <2>2, KeysAreFew, FS_RemoveElement
    <3>2. Cardinality((Keys \ {k}) \union {p}) = Cardinality(Keys \ {k}) + 1
      BY <2>2, <3>1, FS_AddElement
    <3>3. Cardinality(Keys') = Cardinality(Keys)
      BY <1>2, <3>1, <3>2, KeysAreFew
    <3> QED BY <3>3 DEF WithinCap
  <2>3. CASE p \notin Keys /\ k = p /\ Cardinality(Keys) < Cap
    <3>1. Keys' = Keys \union {p}
      BY <1>2, <2>3
    <3>2. Cardinality(Keys \union {p}) = Cardinality(Keys) + 1
      BY <2>3, KeysAreFew, FS_AddElement
    <3> QED BY <2>3, <3>1, <3>2, KeysAreFew, RetryAssumption DEF WithinCap
  <2> QED BY <1>1, <2>1, <2>2, <2>3
<1>5. \A q \in Live' \ {p} : q \in Live /\ queue'[q] = queue[q]
  BY <1>2 DEF Live
<1>6. p \in Live' => queue'[p] = Entry(next, KeptExpiry(p, until))
  <2>1. entry = Empty => entry.active = FALSE
    BY RowKinds
  <2> QED BY <1>1, <1>2, <2>1 DEF Live
<1> QED BY <1>3, <1>4, <1>5, <1>6

-----------------------------------------------------------------------------
(* The invariant is inductive.                                              *)

LEMMA InitIInv == Init => IInv
<1> SUFFICES ASSUME Init PROVE IInv
  OBVIOUS
<1>1. Keys = {} /\ Live = {}
  BY DEF Init, Keys, Live
<1>2. RowsAreTyped /\ Bounded /\ Spaced
  BY <1>1 DEF RowsAreTyped, Bounded, Spaced
<1>3. WithinCap
  BY <1>1, FS_EmptySet, RetryAssumption DEF WithinCap
<1>4. JobIsTyped
  BY RetryAssumption DEF Init, JobIsTyped
<1> QED BY <1>2, <1>3, <1>4 DEF IInv

\* The reserved entry is due and outlives its lease; it is the only one.
LEMMA ReservedRows ==
  /\ Reserved \subseteq Leasable
  /\ Leasable \subseteq Due
  /\ Due \subseteq Live
  BY DEF Reserved, Leasable, Due

LEMMA StartRetryStep ==
  ASSUME IInv, StartRetry
  PROVE  IInv'
<1> USE DEF IInv
<1>1. Keys' = Keys
  BY DEF StartRetry, ReserveDue, Keys
<1>2. ASSUME NEW p \in Reserved
      PROVE  /\ p \in Live
             /\ queue'[p] = Entry(now + Interval, queue[p].expires)
             /\ queue'[p] \in Waiting
             /\ queue'[p].next = now + Interval
             /\ queue'[p].expires = queue[p].expires
  <2>1. p \in Live /\ queue[p].expires \in Nat /\ p \in Keys
    BY ReservedRows, LiveRows
  <2>2. queue'[p] = Entry(now + Interval, queue[p].expires)
    BY <2>1 DEF StartRetry, ReserveDue, LeaseUntil
  <2>3. now + Interval \in Nat
    BY RetryAssumption DEF JobIsTyped
  <2> DEFINE n == now + Interval
             e == queue[p].expires
  <2>4. Entry(n, e) \in Waiting /\ Entry(n, e).next = n /\ Entry(n, e).expires = e
    <3>1. n \in Nat /\ e \in Nat
      BY <2>1, <2>3
    <3> HIDE DEF n, e
    <3> QED BY <3>1 DEF Entry, Waiting
  <2> QED BY <2>1, <2>2, <2>4
<1>3. ASSUME NEW p \in Keys \ Reserved
      PROVE  queue'[p] = Empty \/ queue'[p] = queue[p]
  BY <1>3 DEF StartRetry, ReserveDue
<1>4. RowsAreTyped'
  BY <1>1, <1>2, <1>3 DEF RowsAreTyped
<1>5. \A p \in Live' \ Reserved : p \in Live /\ queue'[p] = queue[p]
  <2>1. Empty.active = FALSE
    BY RowKinds
  <2> QED BY <1>1, <1>3, <2>1 DEF Live
<1>6. WithinCap'
  BY <1>1 DEF WithinCap
<1>7. JobIsTyped'
  <2>1. Reserved \subseteq Pools
    BY ReservedRows, LiveRows
  <2>2. tried' \in [Pools -> [at : -1 .. now, ran : 0 .. now]] /\ passed' \in [Pools -> Nat]
    BY DEF StartRetry, JobIsTyped
  <2> QED BY <2>1, <2>2 DEF StartRetry, JobIsTyped
<1>8. Bounded'
  BY <1>2, <1>5 DEF Bounded
<1>9. Spaced'
  <2> SUFFICES ASSUME NEW p \in Live', tried'[p].at >= 0
               PROVE  \/ From(p)' + Interval <= queue'[p].next
                      \/ queue'[p].expires <= From(p)' + Interval
    BY DEF Spaced
  <2>1. CASE p \in Reserved
    <3>1. p \in Pools /\ From(p)' = now
      BY <2>1, ReservedRows, LiveRows DEF StartRetry, From, JobIsTyped
    <3> QED BY <1>2, <2>1, <3>1, RetryAssumption DEF JobIsTyped
  <2>2. CASE p \notin Reserved
    <3>1. p \in Live /\ p \in Pools /\ queue'[p] = queue[p]
      BY <1>5, <2>2, LiveRows
    <3>2. tried'[p] = tried[p]
      BY <2>2, <3>1 DEF StartRetry
    <3> QED BY <3>1, <3>2 DEF Spaced, From
  <2> QED BY <2>1, <2>2
<1> QED BY <1>4, <1>6, <1>7, <1>8, <1>9

\* The arguments a job gives Schedule.
NextTry == jobNow + Interval
Until(p) == Earlier(jobNow + TTL, CreatedAt[p] + MaxPoolAge)

LEMMA Arguments ==
  ASSUME JobIsTyped, NEW p \in Pools
  PROVE  /\ NextTry \in Nat /\ NextTry = jobNow + Interval
         /\ Until(p) \in Nat
         /\ Until(p) <= CreatedAt[p] + MaxPoolAge
         /\ Until(p) <= jobNow + TTL
         /\ Until(p) = jobNow + TTL \/ Until(p) = CreatedAt[p] + MaxPoolAge
  BY RetryAssumption DEF JobIsTyped, NextTry, Until, Earlier

LEMMA UnavailableStep ==
  ASSUME IInv, NEW p \in Pools, Unavailable(p)
  PROVE  IInv'
<1> USE DEF IInv
<1>1. /\ tried' = [tried EXCEPT ![p] = [at |-> now, ran |-> now - jobNow]]
      /\ IF Until(p) > NextTry THEN Schedule(p, NextTry, Until(p)) ELSE UNCHANGED queue
      /\ UNCHANGED <<now, job, jobNow>>
  BY DEF Unavailable, NextTry, Until
<1>2. JobIsTyped'
  BY RetryAssumption DEF Unavailable, JobIsTyped
<1> DEFINE CountsFrom(q) == IF q = p THEN jobNow ELSE From(q)
<1>3. \A q \in Pools : From(q)' = CountsFrom(q) /\ (q # p => tried'[q] = tried[q])
  BY <1>1 DEF JobIsTyped, From
<1>4. CASE ~ (Until(p) > NextTry)
  <2>1. UNCHANGED queue /\ Keys' = Keys /\ Live' = Live
    BY <1>1, <1>4 DEF Keys, Live
  <2>2. RowsAreTyped' /\ WithinCap' /\ Bounded'
    BY <2>1 DEF RowsAreTyped, WithinCap, Bounded
  <2>3. Spaced'
    <3> SUFFICES ASSUME NEW q \in Live, tried'[q].at >= 0
                 PROVE  \/ From(q)' + Interval <= queue[q].next
                        \/ queue[q].expires <= From(q)' + Interval
      BY <2>1 DEF Spaced
    <3>1. CASE q = p
      <4>1. Interval < TTL /\ queue[p].expires <= CreatedAt[p] + MaxPoolAge
        BY <3>1 DEF Bounded
      <4>2. Until(p) = CreatedAt[p] + MaxPoolAge
        BY <1>4, <4>1, Arguments, RetryAssumption DEF JobIsTyped
      <4>3. From(p)' = jobNow
        BY <1>3
      <4>4. queue[p].expires \in Nat
        BY <3>1, LiveRows
      <4> QED BY <1>4, <3>1, <4>1, <4>2, <4>3, <4>4, Arguments, RetryAssumption DEF JobIsTyped
    <3>2. CASE q # p
      <4>1. tried'[q] = tried[q] /\ From(q)' = From(q)
        BY <1>3, <3>2, LiveRows
      <4> QED BY <4>1 DEF Spaced
    <3> QED BY <3>1, <3>2
  <2> QED BY <1>2, <2>2, <2>3
<1>5. CASE Until(p) > NextTry
  <2>1. /\ RowsAreTyped'
        /\ WithinCap'
        /\ \A q \in Live' \ {p} : q \in Live /\ queue'[q] = queue[q]
        /\ p \in Live' => queue'[p] = Entry(NextTry, KeptExpiry(p, Until(p)))
    BY <1>1, <1>5, Arguments, ScheduleRows
  <2>2. p \in Live' => queue'[p].next = NextTry /\ queue'[p].expires <= Until(p) /\ queue'[p].expires \in Nat
    BY <2>1, Arguments, NewEntry
  <2>3. Interval < TTL
    BY <1>5, Arguments, RetryAssumption DEF JobIsTyped
  <2>4. Bounded'
    <3>1. ASSUME NEW q \in Live'
          PROVE  queue'[q].expires <= CreatedAt[q] + MaxPoolAge
      <4>1. CASE q = p
        BY <2>2, <4>1, Arguments, RetryAssumption
      <4>2. CASE q # p
        BY <2>1, <4>2 DEF Bounded
      <4> QED BY <4>1, <4>2
    <3> QED BY <2>3, <3>1 DEF Bounded
  <2>5. Spaced'
    <3> SUFFICES ASSUME NEW q \in Live', tried'[q].at >= 0
                 PROVE  \/ From(q)' + Interval <= queue'[q].next
                        \/ queue'[q].expires <= From(q)' + Interval
      BY DEF Spaced
    <3>1. CASE q = p
      <4>1. From(p)' = jobNow
        BY <1>3
      <4> QED BY <2>2, <3>1, <4>1, Arguments, RetryAssumption DEF JobIsTyped
    <3>2. CASE q # p
      <4>1. q \in Live /\ queue'[q] = queue[q]
        BY <2>1, <3>2
      <4>2. tried'[q] = tried[q] /\ From(q)' = From(q)
        BY <1>3, <3>2, <4>1, LiveRows
      <4> QED BY <4>1, <4>2 DEF Spaced
    <3> QED BY <3>1, <3>2
  <2> QED BY <1>2, <2>1, <2>4, <2>5
<1> QED BY <1>4, <1>5

LEMMA AvailableStep ==
  ASSUME IInv, NEW p \in Pools, Available(p)
  PROVE  IInv'
<1> USE DEF IInv
<1>1. /\ Keys' = Keys
      /\ \A q \in Keys : q # p => queue'[q] = queue[q]
      /\ p \in Keys => queue'[p] = Empty
  BY DEF Available, Complete, Keys
<1>2. RowsAreTyped' /\ WithinCap'
  BY <1>1 DEF RowsAreTyped, WithinCap
<1>3. \A q \in Live' : q # p /\ q \in Live /\ queue'[q] = queue[q]
  <2>1. Empty.active = FALSE
    BY RowKinds
  <2> QED BY <1>1, <2>1 DEF Live
<1>4. JobIsTyped'
  BY RetryAssumption DEF Available, JobIsTyped
<1>5. Bounded'
  BY <1>3 DEF Bounded
<1>6. Spaced'
  <2>1. tried' = tried
    BY DEF Available
  <2> QED BY <1>3, <2>1 DEF Spaced, From
<1> QED BY <1>2, <1>4, <1>5, <1>6

\* Nothing else changes a row or when a pool was tried.
LEMMA OtherSteps ==
  ASSUME IInv, StartScan \/ EndJob \/ Abort \/ Tick \/ UNCHANGED vars
  PROVE  IInv' /\ UNCHANGED queue
<1>1. UNCHANGED <<queue, tried, passed>>
  BY DEF StartScan, EndJob, Abort, Tick, vars, history
<1>2. Keys' = Keys /\ Live' = Live
  BY <1>1 DEF Keys, Live
<1>3. (RowsAreTyped /\ WithinCap /\ Bounded /\ Spaced)'
  BY <1>1, <1>2 DEF IInv, RowsAreTyped, WithinCap, Bounded, Spaced, From
<1>4. JobIsTyped'
  <2> USE RetryAssumption DEF IInv, JobIsTyped
  <2>1. CASE StartScan
    BY <1>1, <2>1 DEF StartScan
  <2>2. CASE EndJob
    BY <1>1, <2>2 DEF EndJob
  <2>3. CASE Abort
    BY <1>1, <2>3 DEF Abort
  <2>4. CASE Tick
    <3>1. now' \in 0 .. MaxTime /\ now' = now + 1
      BY <2>4 DEF Tick
    <3>2. tried' \in [Pools -> [at : -1 .. now', ran : 0 .. now']]
      BY <1>1, <3>1
    <3> QED BY <1>1, <2>4, <3>1, <3>2 DEF Tick
  <2>5. CASE UNCHANGED vars
    BY <1>1, <2>5 DEF vars
  <2> QED BY <2>1, <2>2, <2>3, <2>4, <2>5
<1> QED BY <1>1, <1>3, <1>4 DEF IInv

LEMMA StepIInv == IInv /\ [Next]_vars => IInv'
<1> SUFFICES ASSUME IInv, [Next]_vars PROVE IInv'
  OBVIOUS
<1> QED BY StartRetryStep, UnavailableStep, AvailableStep, OtherSteps DEF Next

THEOREM InvHolds == Spec => []IInv
  BY InitIInv, StepIInv, PTL DEF Spec

-----------------------------------------------------------------------------
(* Theorems.                                                                *)

\* Every reachable state is of its type, and the rows never exceed the cap,
\* however jobs interleave with failures and the clock.
THEOREM TypeCorrect == Spec => []TypeOK
<1>1. IInv => TypeOK
  BY LiveRows DEF IInv, RowsAreTyped, WithinCap, JobIsTyped, TypeOK
<1> QED BY <1>1, InvHolds, PTL

\* An entry's expiry only ever comes nearer while its pool is queued, and no
\* entry outlives the pool's age limit.
THEOREM ExpiryAlwaysStands == Spec => ExpiryStands
<1> DEFINE Stands ==
      /\ \A p \in Live : p \in Live' => queue'[p].expires <= queue[p].expires
      /\ \A p \in Live' : queue'[p].expires <= CreatedAt[p] + MaxPoolAge
<1>1. IInv /\ IInv' /\ [Next]_vars => [Stands]_vars
  <2> SUFFICES ASSUME IInv, IInv', Next
               PROVE  \A p \in Live : p \in Live' => queue'[p].expires <= queue[p].expires
    BY DEF IInv, Bounded
  <2> SUFFICES ASSUME NEW p \in Live, p \in Live'
               PROVE  queue'[p].expires <= queue[p].expires
    OBVIOUS
  <2>1. queue[p].expires \in Nat /\ p \in Pools /\ p \in Keys
    BY LiveRows DEF IInv
  <2>2. CASE StartScan \/ EndJob \/ Abort \/ Tick
    BY <2>1, <2>2, OtherSteps
  <2>3. CASE StartRetry
    <3>1. \/ queue'[p] = Entry(LeaseUntil, queue[p].expires)
          \/ queue'[p] = Empty
          \/ queue'[p] = queue[p]
      BY <2>1, <2>3 DEF StartRetry, ReserveDue
    <3>2. Entry(LeaseUntil, queue[p].expires).expires = queue[p].expires
      BY DEF Entry
    <3>3. queue'[p] # Empty
      BY RowKinds DEF Live
    <3> QED BY <2>1, <3>1, <3>2, <3>3
  <2>4. ASSUME NEW q \in Pools, Available(q)
        PROVE  queue'[p].expires <= queue[p].expires
    <3>1. queue'[p] = Empty \/ queue'[p] = queue[p]
      BY <2>1, <2>4 DEF Available, Complete, Keys
    <3>2. queue'[p] # Empty
      BY RowKinds DEF Live
    <3> QED BY <2>1, <3>1, <3>2
  <2>5. ASSUME NEW q \in Pools, Unavailable(q)
        PROVE  queue'[p].expires <= queue[p].expires
    <3>1. CASE ~ (Until(q) > NextTry)
      <4>1. UNCHANGED queue
        BY <2>5, <3>1 DEF Unavailable, Until, NextTry
      <4> QED BY <2>1, <4>1
    <3>2. CASE Until(q) > NextTry
      <4>1. Schedule(q, NextTry, Until(q))
        BY <2>5, <3>2 DEF Unavailable, Until, NextTry
      <4>2. /\ \A r \in Live' \ {q} : r \in Live /\ queue'[r] = queue[r]
            /\ q \in Live' => queue'[q] = Entry(NextTry, KeptExpiry(q, Until(q)))
        BY <4>1, Arguments, ScheduleRows DEF IInv
      <4>3. p = q => queue'[p].expires <= queue[p].expires
        BY <4>2, Arguments, NewEntry DEF IInv
      <4> QED BY <2>1, <4>2, <4>3
    <3> QED BY <3>1, <3>2
  <2> QED BY <2>2, <2>3, <2>4, <2>5 DEF Next
<1> QED BY <1>1, InvHolds, PTL DEF Spec, ExpiryStands

\* The lease is in the database before the work begins: whatever fails after
\* it, a pool is not reserved again within the retry interval; and the interval
\* of a pool without evidence counts from the start of the job that found it so.
THEOREM RetriesAlwaysSpaced == Spec => RetriesAreSpaced
<1> DEFINE Apart == StartRetry => \A p \in Reserved :
                      tried[p].at >= 0 => now - tried[p].at >= Interval - tried[p].ran
<1>1. IInv => Apart
  <2> SUFFICES ASSUME IInv, NEW p \in Reserved, tried[p].at >= 0
               PROVE  now - tried[p].at >= Interval - tried[p].ran
    OBVIOUS
  <2>1. p \in Live /\ queue[p].next <= now /\ queue[p].expires > now + Interval
    BY DEF Reserved, Leasable, Due, LeaseUntil
  <2>2. /\ queue[p].next \in Nat /\ queue[p].expires \in Nat
        /\ p \in Pools /\ tried[p].at \in -1 .. now /\ tried[p].ran \in 0 .. now /\ now \in Nat
    BY <2>1, LiveRows DEF IInv, JobIsTyped
  <2>3. \/ tried[p].at - tried[p].ran + Interval <= queue[p].next
        \/ queue[p].expires <= tried[p].at - tried[p].ran + Interval
    BY <2>1 DEF IInv, Spaced, From
  <2> QED BY <2>1, <2>2, <2>3, RetryAssumption
<1> QED BY <1>1, InvHolds, PTL DEF RetriesAreSpaced

\* A waiting pool is displaced only by a full queue of waiting pools, and it is
\* the oldest of them.
THEOREM OldestAloneGivesWay == Spec => OnlyTheOldestGivesWay
<1> DEFINE Fair ==
      \A p \in todo : Unavailable(p) =>
        LET waiting == {q \in Live : queue[q].expires > jobNow + Interval} IN
        \A q \in waiting \ Keys' :
          /\ Cardinality(waiting) = Cap
          /\ \A r \in waiting \ {q} : OlderThan(q, r)
<1>1. IInv => Fair
  <2> DEFINE waiting == {q \in Live : queue[q].expires > jobNow + Interval}
  <2> SUFFICES ASSUME IInv, NEW p \in todo, Unavailable(p), NEW q \in waiting \ Keys'
               PROVE  /\ Cardinality(waiting) = Cap
                      /\ \A r \in waiting \ {q} : OlderThan(q, r)
    OBVIOUS
  <2>1. p \in Pools /\ q \in Keys /\ q \in Live /\ queue[q].expires > NextTry
    BY LiveRows DEF IInv, JobIsTyped, NextTry
  <2>2. Until(p) > NextTry /\ Schedule(p, NextTry, Until(p))
    BY <2>1 DEF Unavailable, Until, NextTry, Keys
  <2>3. PICK k, entry :
          /\ queue' = Put(k, p, entry)
          /\ \/ k = p
             \/ k \in Reusable(NextTry)
             \/ Reusable(NextTry) = {} /\ Full /\ k = Oldest
    BY <2>1, <2>2, Arguments, SchedulePuts DEF IInv
  <2>4. Keys' = (Keys \ {k}) \union {p}
    BY <2>3, PutRows
  <2>5. q = k /\ q # p
    BY <2>1, <2>4
  <2>6. ~ (queue[q].expires <= NextTry)
    BY <2>1, Arguments, LiveRows DEF IInv
  <2>7. q \notin Reusable(NextTry)
    BY <2>1, <2>6 DEF Reusable
  <2>8. Reusable(NextTry) = {} /\ Full /\ q = Oldest
    BY <2>3, <2>5, <2>7
  <2>9. waiting = Keys
    <3>1. ASSUME NEW r \in Keys
          PROVE  r \in waiting
      <4>1. r \in Live /\ ~ (queue[r].expires <= NextTry)
        BY <2>8, <3>1 DEF Reusable
      <4>2. queue[r].expires \in Nat
        BY <4>1, LiveRows DEF IInv
      <4> QED BY <2>1, <4>1, <4>2, Arguments DEF IInv
    <3> QED BY <3>1, LiveRows DEF IInv
  <2>10. Keys # {} => \A r \in Keys \ {Oldest} : OlderThan(Oldest, r)
    BY OldestIsOldest DEF IInv
  <2> QED BY <2>1, <2>8, <2>9, <2>10 DEF Full
<1> QED BY <1>1, InvHolds, PTL DEF OnlyTheOldestGivesWay
-----------------------------------------------------------------------------
(* Turns.  What a due pool still has before it and what has passed it make up  *)
(* fewer than Cap: a reservation moves one row from the former to the latter,   *)
(* and no row ever gets before a pool that was passed.                        *)

AheadOf(p) == {q \in Live : Ahead(q, p)}

\* Pools that were passed were due when the running job began.
PassedWereDue ==
    /\ job = "idle" => todo = {}
    /\ \A p \in Live : passed[p] > 0 => queue[p].next <= (IF job = "idle" THEN now ELSE jobNow)

FewBefore == \A p \in Live : passed[p] + Cardinality(AheadOf(p)) < Cap

TurnInv == PassedWereDue /\ FewBefore

\* Of Cap rows, fewer than Cap are others.
LEMMA OthersAreFew ==
  ASSUME NEW K, IsFiniteSet(K), Cardinality(K) <= Cap, NEW p \in K, NEW S \in SUBSET (K \ {p})
  PROVE  IsFiniteSet(S) /\ Cardinality(S) \in Nat /\ Cardinality(S) < Cap
<1>1. IsFiniteSet(K \ {p}) /\ Cardinality(K \ {p}) = Cardinality(K) - 1
  BY FS_RemoveElement
<1>2. IsFiniteSet(S) /\ Cardinality(S) <= Cardinality(K \ {p})
  BY <1>1, FS_Subset
<1> QED BY <1>1, <1>2, FS_CardinalityType, RetryAssumption

\* Nothing is before itself, and of two pools one is before the other.
LEMMA AheadIsTotal ==
  ASSUME RowsAreTyped, NEW p \in Live, NEW q \in Live
  PROVE  /\ ~ Ahead(p, p)
         /\ p = q \/ Ahead(p, q) \/ Ahead(q, p)
<1>1. p \in Pools /\ q \in Pools /\ queue[p].next \in Nat /\ queue[q].next \in Nat
  BY LiveRows
<1>2. CreatedAt[p] \in Nat /\ CreatedAt[q] \in Nat
  BY <1>1, RetryAssumption
<1>3. ~ Before(p, p) /\ (p = q \/ Before(p, q) \/ Before(q, p))
  BY <1>1, BeforeAssumption
<1> QED BY <1>1, <1>2, <1>3 DEF Ahead, OlderThan

LEMMA BeforeAreFew ==
  ASSUME RowsAreTyped, WithinCap, NEW p \in Live
  PROVE  /\ IsFiniteSet(AheadOf(p))
         /\ Cardinality(AheadOf(p)) \in Nat
         /\ Cardinality(AheadOf(p)) < Cap
<1>1. AheadOf(p) \in SUBSET (Keys \ {p}) /\ p \in Keys
  BY AheadIsTotal DEF AheadOf, Live
<1> QED BY <1>1, KeysAreFew, OthersAreFew DEF WithinCap

LEMMA BeforeAreFewAfter ==
  ASSUME RowsAreTyped', WithinCap', NEW p \in Live'
  PROVE  Cardinality(AheadOf(p)') \in Nat /\ Cardinality(AheadOf(p)') < Cap
<1>1. p \in Keys' /\ p \in Pools /\ Keys' \subseteq Pools /\ queue'[p].next \in Nat
  BY RowKinds DEF RowsAreTyped, Live
<1>2. ~ Ahead(p, p)'
  BY <1>1, RetryAssumption, BeforeAssumption DEF Ahead, OlderThan
<1>3. AheadOf(p)' \in SUBSET (Keys' \ {p})
  BY <1>2 DEF AheadOf, Live
<1>4. IsFiniteSet(Keys')
  BY <1>1, FS_Subset, RetryAssumption
<1> QED BY <1>1, <1>3, <1>4, OthersAreFew DEF WithinCap

\* A pool that nothing passes keeps its bound if no row gets before it.
LEMMA NobodyGetsBefore ==
  ASSUME IInv, FewBefore, IInv', NEW p \in Live, p \in Live',
         passed'[p] = 0 \/ (passed'[p] = passed[p] /\ AheadOf(p)' \subseteq AheadOf(p))
  PROVE  passed'[p] + Cardinality(AheadOf(p)') < Cap
<1>1. /\ Cardinality(AheadOf(p)') \in Nat
      /\ Cardinality(AheadOf(p)') < Cap
  BY BeforeAreFewAfter DEF IInv
<1>2. IsFiniteSet(AheadOf(p)) /\ Cardinality(AheadOf(p)) \in Nat
  BY BeforeAreFew DEF IInv
<1>3. AheadOf(p)' \subseteq AheadOf(p) => Cardinality(AheadOf(p)') <= Cardinality(AheadOf(p))
  BY <1>2, FS_Subset
<1>4. passed[p] \in Nat /\ passed[p] + Cardinality(AheadOf(p)) < Cap
  BY LiveRows DEF IInv, JobIsTyped, FewBefore
<1> QED BY <1>1, <1>2, <1>3, <1>4, RetryAssumption

LEMMA RetryTurn ==
  ASSUME IInv, TurnInv, IInv', StartRetry
  PROVE  TurnInv'
<1> USE DEF IInv, TurnInv
<1>1. /\ job = "idle" /\ job' = "retry" /\ jobNow' = now /\ now' = now
      /\ now \in Nat /\ Interval \in Nat \ {0}
      /\ \A p \in Pools : passed'[p] =
           IF p \in Due \ Reserved /\ Reserved # {} THEN passed[p] + 1 ELSE 0
  BY RetryAssumption DEF StartRetry, JobIsTyped
<1>2. ASSUME NEW p \in Live'
      PROVE  /\ p \in Live /\ p \in Pools
             /\ p \in Reserved => queue'[p].next = now + Interval
             /\ p \notin Reserved => queue'[p] = queue[p]
  <2>1. p \in Keys /\ Empty.active = FALSE
    BY RowKinds DEF StartRetry, ReserveDue, Keys, Live
  <2>2. p \in Reserved => p \in Live /\ queue'[p] = Entry(now + Interval, queue[p].expires)
    BY <2>1, ReservedRows DEF StartRetry, ReserveDue, LeaseUntil
  <2>3. p \in Live
    BY <2>1, <2>2 DEF StartRetry, ReserveDue, Live
  <2>4. p \notin Reserved => queue'[p] = queue[p]
    BY <2>1 DEF StartRetry, ReserveDue, Live
  <2>5. \A n, e : Entry(n, e).next = n
    BY DEF Entry
  <2>6. p \in Pools
    BY <2>3, LiveRows
  <2> QED BY <2>2, <2>3, <2>4, <2>5, <2>6
<1>3. PassedWereDue'
  <2> SUFFICES ASSUME NEW p \in Live', passed'[p] > 0
               PROVE  queue'[p].next <= now
    BY <1>1 DEF PassedWereDue
  <2>1. p \in Due \ Reserved
    BY <1>1, <1>2
  <2> QED BY <1>2, <2>1 DEF Due
<1>4. ASSUME NEW p \in Live'
      PROVE  passed'[p] + Cardinality(AheadOf(p)') < Cap
  <2>1. CASE ~ (p \in Due \ Reserved /\ Reserved # {})
    <3>1. passed'[p] = 0
      BY <1>1, <1>2, <2>1
    <3> QED BY <1>2, <3>1, NobodyGetsBefore
  <2>2. CASE p \in Due \ Reserved /\ Reserved # {}
    <3>1. PICK r \in Reserved : Ahead(r, p)
      <4>1. CASE p \in Leasable
        BY <2>2, <4>1 DEF Reserved
      <4>2. CASE p \notin Leasable
        <5>1. PICK r \in Reserved : ~ Ahead(p, r)
          <6>1. queue'[p] # Empty
            BY RowKinds DEF Live
          <6>2. p \in Keys
            BY <1>2 DEF Live
          <6> QED BY <2>2, <4>2, <6>1, <6>2 DEF StartRetry, ReserveDue
        <5>2. r \in Live /\ r # p
          BY <4>2, ReservedRows
        <5> QED BY <1>2, <5>1, <5>2, AheadIsTotal
      <4> QED BY <4>1, <4>2
    <3>2. r \in AheadOf(p)
      BY <3>1, ReservedRows DEF AheadOf
    <3>3. \A q \in AheadOf(p)' : q \in Live' /\ Ahead(q, p)'
      BY DEF AheadOf
    <3>4. queue[p].next <= now /\ queue'[p] = queue[p] /\ queue[p].next \in Nat
      BY <1>2, <2>2, LiveRows DEF Due
    <3>5. ASSUME NEW q \in AheadOf(p)'
          PROVE  q \in AheadOf(p) \ {r}
      <4>1. q \notin Reserved
        BY <1>1, <1>2, <3>3, <3>4 DEF Ahead
      <4>2. q \in Live /\ queue'[q] = queue[q] /\ Ahead(q, p)
        BY <1>2, <3>3, <3>4, <4>1 DEF Ahead
      <4> QED BY <3>1, <4>1, <4>2 DEF AheadOf
    <3>6. IsFiniteSet(AheadOf(p)) /\ Cardinality(AheadOf(p)) \in Nat
      BY <1>2, BeforeAreFew
    <3>7. /\ IsFiniteSet(AheadOf(p) \ {r})
          /\ Cardinality(AheadOf(p) \ {r}) = Cardinality(AheadOf(p)) - 1
      BY <3>2, <3>6, FS_RemoveElement
    <3>8. Cardinality(AheadOf(p)') \in Nat /\ Cardinality(AheadOf(p)') <= Cardinality(AheadOf(p) \ {r})
      BY <3>5, <3>7, FS_Subset, BeforeAreFewAfter
    <3>9. passed'[p] = passed[p] + 1 /\ passed[p] \in Nat
      BY <1>1, <1>2, <2>2 DEF JobIsTyped
    <3>10. passed[p] + Cardinality(AheadOf(p)) < Cap
      BY <1>2 DEF FewBefore
    <3> QED BY <3>6, <3>7, <3>8, <3>9, <3>10, RetryAssumption
  <2> QED BY <2>1, <2>2
<1> QED BY <1>3, <1>4 DEF FewBefore

\* A pool that is scheduled comes after all that were passed.
LEMMA UnavailableTurn ==
  ASSUME IInv, TurnInv, IInv', NEW x \in Pools, Unavailable(x)
  PROVE  TurnInv'
<1> USE DEF IInv, TurnInv
<1>1. /\ x \in todo /\ job # "idle"
      /\ UNCHANGED <<now, job, jobNow>>
      /\ passed' = [passed EXCEPT ![x] = 0]
      /\ IF Until(x) > NextTry THEN Schedule(x, NextTry, Until(x)) ELSE UNCHANGED queue
  BY DEF Unavailable, PassedWereDue, NextTry, Until
<1>2. /\ NextTry \in Nat /\ NextTry = jobNow + Interval /\ Until(x) \in Nat
      /\ jobNow \in Nat /\ Interval \in Nat \ {0}
  BY Arguments, RetryAssumption DEF JobIsTyped
<1>3. /\ \A q \in Live' \ {x} : q \in Live /\ queue'[q] = queue[q]
      /\ \/ UNCHANGED queue
         \/ x \in Live' => queue'[x].next = NextTry
  <2>1. CASE Until(x) > NextTry
    <3>1. \A n, e : Entry(n, e).next = n
      BY DEF Entry
    <3> QED BY <1>1, <1>2, <2>1, <3>1, ScheduleRows
  <2>2. CASE ~ (Until(x) > NextTry)
    BY <1>1, <2>2 DEF Live, Keys
  <2> QED BY <2>1, <2>2
<1>4. passed'[x] = 0 /\ \A q \in Pools \ {x} : passed'[q] = passed[q]
  BY <1>1 DEF JobIsTyped
<1>5. \A p \in Live' : p \in Pools
  BY DEF Live, RowsAreTyped
<1>6. PassedWereDue'
  BY <1>1, <1>3, <1>4, <1>5 DEF PassedWereDue
<1>7. ASSUME NEW p \in Live'
      PROVE  passed'[p] + Cardinality(AheadOf(p)') < Cap
  <2>1. CASE passed'[p] = 0
    BY <2>1, BeforeAreFewAfter, RetryAssumption
  <2>2. CASE passed'[p] # 0
    <3>1. p # x /\ p \in Live /\ queue'[p] = queue[p] /\ passed'[p] = passed[p]
      BY <1>3, <1>4, <1>5, <2>2
    <3>2. queue[p].next \in Nat /\ passed[p] > 0
      BY <2>2, <3>1, <1>5, LiveRows DEF JobIsTyped
    <3>3. queue[p].next < NextTry
      BY <1>1, <1>2, <3>1, <3>2 DEF PassedWereDue
    <3>4. ASSUME NEW q \in AheadOf(p)'
          PROVE  q \in AheadOf(p)
      <4>1. q \in Live' /\ Ahead(q, p)'
        BY DEF AheadOf
      <4>2. CASE UNCHANGED queue
        BY <4>1, <4>2 DEF AheadOf, Ahead, Live, Keys
      <4>3. CASE x \in Live' => queue'[x].next = NextTry
        <5>1. q # x
          BY <1>2, <3>1, <3>2, <3>3, <4>1, <4>3 DEF Ahead
        <5>2. q \in Live /\ queue'[q] = queue[q]
          BY <1>3, <4>1, <5>1
        <5> QED BY <3>1, <4>1, <5>2 DEF AheadOf, Ahead
      <4> QED BY <1>3, <4>2, <4>3
    <3> QED BY <3>1, <3>4, NobodyGetsBefore
  <2> QED BY <2>1, <2>2
<1> QED BY <1>6, <1>7 DEF FewBefore

LEMMA AvailableTurn ==
  ASSUME IInv, TurnInv, IInv', NEW x \in Pools, Available(x)
  PROVE  TurnInv'
<1> USE DEF IInv, TurnInv
<1>1. /\ job # "idle"
      /\ UNCHANGED <<now, job, jobNow>>
      /\ passed' = [passed EXCEPT ![x] = 0]
  BY DEF Available, PassedWereDue
<1>2. \A q \in Live' : q # x /\ q \in Live /\ queue'[q] = queue[q]
  <2>1. Empty.active = FALSE
    BY RowKinds
  <2> QED BY <2>1 DEF Available, Complete, Live, Keys
<1>3. \A q \in Live' : passed'[q] = passed[q]
  BY <1>1, <1>2, LiveRows DEF JobIsTyped
<1>4. PassedWereDue'
  BY <1>1, <1>2, <1>3 DEF PassedWereDue
<1>5. ASSUME NEW p \in Live'
      PROVE  passed'[p] + Cardinality(AheadOf(p)') < Cap
  <2>1. AheadOf(p)' \subseteq AheadOf(p)
    BY <1>2 DEF AheadOf, Ahead
  <2> QED BY <1>2, <1>3, <2>1, NobodyGetsBefore
<1> QED BY <1>4, <1>5 DEF FewBefore

LEMMA OtherTurns ==
  ASSUME IInv, TurnInv, IInv', StartScan \/ EndJob \/ Abort \/ Tick \/ UNCHANGED vars
  PROVE  TurnInv'
<1> USE DEF IInv, TurnInv
<1>1. UNCHANGED <<queue, passed>>
  BY DEF StartScan, EndJob, Abort, Tick, vars, history
<1>2. Live' = Live /\ \A p \in Live : AheadOf(p)' = AheadOf(p)
  BY <1>1 DEF Live, Keys, AheadOf, Ahead
<1>3. FewBefore'
  BY <1>1, <1>2 DEF FewBefore
<1>4. \A p \in Live : queue[p].next \in Nat /\ passed[p] \in Nat
  BY LiveRows DEF JobIsTyped
<1>5. PassedWereDue'
  <2> USE <1>1, <1>2, <1>4 DEF PassedWereDue, JobIsTyped
  <2>1. CASE StartScan
    BY <2>1 DEF StartScan
  <2>2. CASE EndJob
    BY <2>2 DEF EndJob
  <2>3. CASE Abort
    BY <2>3 DEF Abort
  <2>4. CASE Tick
    BY <2>4 DEF Tick
  <2>5. CASE UNCHANGED vars
    BY <2>5 DEF vars
  <2> QED BY <2>1, <2>2, <2>3, <2>4, <2>5
<1> QED BY <1>3, <1>5

\* A due pool waits for each other queued pool once at most, for any number of
\* rows, whatever is found again, fails or is restarted in between.
THEOREM TurnsAlwaysFair == Spec => []TurnsAreFair
<1>1. Init => TurnInv
  BY DEF Init, TurnInv, PassedWereDue, FewBefore, Live, Keys
<1>2. IInv /\ TurnInv /\ IInv' /\ [Next]_vars => TurnInv'
  BY RetryTurn, UnavailableTurn, AvailableTurn, OtherTurns DEF Next
<1>3. IInv /\ TurnInv => TurnsAreFair
  <2> SUFFICES ASSUME IInv, TurnInv, NEW p \in Due PROVE passed[p] < Cap
    BY DEF TurnsAreFair
  <2>1. p \in Live /\ Cardinality(AheadOf(p)) \in Nat /\ passed[p] \in Nat
    BY ReservedRows, BeforeAreFew, LiveRows DEF IInv, JobIsTyped
  <2> QED BY <2>1, RetryAssumption DEF TurnInv, FewBefore
<1> QED BY <1>1, <1>2, <1>3, InvHolds, PTL DEF Spec
=============================================================================
