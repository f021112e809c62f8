------------------------- MODULE FutureWatchProofs -------------------------
(***************************************************************************)
(* Whatever the pools, the caps and the launches, and however scans fail: the  *)
(* store of watches stays within its cap, a scan that ends has evaluated every *)
(* launched pool it took, and only the nearest launch gives way.              *)
(***************************************************************************)
EXTENDS FutureWatch, FiniteSetTheorems, SequenceTheorems, TLAPS

-----------------------------------------------------------------------------
(* The inductive invariant.                                                 *)

StoreIsTyped == watches \subseteq Pools /\ Cardinality(watches) <= WatchCap

JobIsTyped ==
    /\ now \in 0 .. MaxTime
    /\ job \in {"idle", "take", "loop", "save"}
    /\ jobNow \in 0 .. now
    /\ due \in Seq(Pools)
    /\ todo \in Seq(Pools) /\ Len(todo) <= CandidateCap
    /\ evaluated \subseteq Pools

\* TakeDue returns no more pools than there were rows: none of them is cut.
TakingFits ==
    /\ unread \subseteq watches
    /\ job # "take" => unread = {}
    /\ job = "idle" => due = <<>>
    /\ job = "take" => Len(due) + Cardinality(unread) <= WatchCap

\* What TakeDue returns has launched and is not too old.
DueAreFresh == \A i \in DOMAIN due : Fresh(due[i])

\* While the candidates are handled, a pool that TakeDue returned was evaluated
\* or is still to be handled.
DueAreHandled ==
    job \in {"loop", "save"} =>
      \A i \in DOMAIN due : due[i] \in evaluated \union ToSet(todo)

\* Between the two statements of Watch there is room for the pool at hand.
RoomIsMade ==
    job = "save" => /\ todo # <<>>
                    /\ ~ Launched(Head(todo))
                    /\ Cardinality(watches) < WatchCap

IInv ==
    /\ StoreIsTyped
    /\ JobIsTyped
    /\ TakingFits
    /\ DueAreFresh
    /\ DueAreHandled
    /\ RoomIsMade

-----------------------------------------------------------------------------
(* Sets and sequences of pools.                                             *)

LEMMA PoolSets ==
  ASSUME NEW S, S \subseteq Pools
  PROVE  IsFiniteSet(S) /\ Cardinality(S) \in Nat
  BY FS_Subset, FS_CardinalityType, WatchAssumption

LEMMA Grown ==
  ASSUME NEW S, S \subseteq Pools, NEW p
  PROVE  /\ Cardinality(S \union {p}) \in Nat
         /\ Cardinality(S \union {p}) <= Cardinality(S) + 1
         /\ p \in S => Cardinality(S \union {p}) = Cardinality(S)
  BY PoolSets, FS_AddElement

LEMMA Shrunk ==
  ASSUME NEW S, S \subseteq Pools, NEW p \in S
  PROVE  Cardinality(S \ {p}) = Cardinality(S) - 1
  BY PoolSets, FS_RemoveElement

\* The first of the pools to be handled, and the others.
LEMMA HeadAndTail ==
  ASSUME NEW s \in Seq(Pools), s # <<>>
  PROVE  /\ Head(s) \in Pools
         /\ Tail(s) \in Seq(Pools)
         /\ Len(Tail(s)) = Len(s) - 1
         /\ ToSet(s) \subseteq {Head(s)} \union ToSet(Tail(s))
<1>1. /\ Head(s) \in Pools /\ Tail(s) \in Seq(Pools) /\ Len(Tail(s)) = Len(s) - 1
      /\ Head(s) = s[1] /\ \A i \in 1 .. Len(s) - 1 : Tail(s)[i] = s[i + 1]
  BY HeadTailProperties
<1>2. ASSUME NEW i \in DOMAIN s, i # 1
      PROVE  s[i] \in ToSet(Tail(s))
  <2>1. i \in 1 .. Len(s) /\ i - 1 \in 1 .. Len(s) - 1 /\ (i - 1) + 1 = i
    BY <1>2
  <2>2. Tail(s)[i - 1] = s[i] /\ i - 1 \in DOMAIN Tail(s)
    BY <1>1, <2>1
  <2> QED BY <2>2 DEF ToSet
<1> QED BY <1>1, <1>2 DEF ToSet

\* The candidates are pools, within the cap, and hold all that TakeDue returned
\* as long as the cap does.
LEMMA Candidates ==
  ASSUME due \in Seq(Pools), NEW pools \in Seq(Pools)
  PROVE  /\ FirstCandidates(DueFirst(pools)) \in Seq(Pools)
         /\ Len(FirstCandidates(DueFirst(pools))) <= CandidateCap
         /\ Len(due) <= CandidateCap => ToSet(due) \subseteq ToSet(FirstCandidates(DueFirst(pools)))
<1> DEFINE all == DueFirst(pools)
           n == IF Len(all) < CandidateCap THEN Len(all) ELSE CandidateCap
<1>1. /\ all \in Seq(Pools) /\ Len(all) = Len(due) + Len(pools)
      /\ \A i \in 1 .. Len(due) : all[i] = due[i]
  BY ConcatProperties DEF DueFirst
<1>2. n \in Nat /\ n <= Len(all) /\ n <= CandidateCap
  BY <1>1, LenProperties, WatchAssumption
<1>3. /\ SubSeq(all, 1, n) \in Seq(Pools) /\ Len(SubSeq(all, 1, n)) = n
      /\ \A i \in 1 .. n : SubSeq(all, 1, n)[i] = all[i]
  BY <1>1, <1>2
<1>4. ASSUME Len(due) <= CandidateCap, NEW i \in DOMAIN due
      PROVE  due[i] \in ToSet(SubSeq(all, 1, n))
  <2>1. i \in 1 .. Len(due) /\ i \in 1 .. n
    BY <1>1, <1>4, LenProperties, WatchAssumption
  <2>2. i \in DOMAIN SubSeq(all, 1, n) /\ SubSeq(all, 1, n)[i] = due[i]
    BY <1>1, <1>3, <2>1
  <2> QED BY <2>2 DEF ToSet
<1>5. FirstCandidates(DueFirst(pools)) = SubSeq(all, 1, n)
  BY DEF FirstCandidates
<1> HIDE DEF all, n
<1> QED BY <1>2, <1>3, <1>4, <1>5 DEF ToSet

LEMMA Discovered ==
  ASSUME NEW S \in SUBSET Pools, NEW pools \in NewestFirst(S)
  PROVE  pools \in Seq(Pools)
  BY PoolSets DEF NewestFirst, SetToSeqs

-----------------------------------------------------------------------------
(* The steps.                                                               *)

LEMMA InitInv == Init => IInv
  BY FS_EmptySet, WatchAssumption
     DEF Init, IInv, StoreIsTyped, JobIsTyped, TakingFits, DueAreFresh, DueAreHandled, RoomIsMade

LEMMA StartInv == ASSUME IInv, StartScan PROVE IInv'
<1> USE DEF IInv, StartScan
<1>1. StoreIsTyped' /\ JobIsTyped'
  BY DEF StoreIsTyped, JobIsTyped
<1>2. TakingFits'
  BY PoolSets DEF StoreIsTyped, TakingFits
<1>3. DueAreFresh' /\ DueAreHandled' /\ RoomIsMade'
  BY DEF TakingFits, DueAreFresh, DueAreHandled, RoomIsMade
<1> QED BY <1>1, <1>2, <1>3

LEMMA TakeInv == ASSUME IInv, NEW p \in Pools, TakeRow(p) PROVE IInv'
<1> USE DEF IInv
<1>1. /\ job = "take" /\ job' = "take" /\ p \in unread /\ unread' = unread \ {p}
      /\ watches' = watches \/ watches' = watches \ {p}
      /\ UNCHANGED <<now, jobNow, todo, evaluated>>
      /\ \/ due' = due
         \/ due' = Append(due, p) /\ Launched(p) /\ ~ Expired(p)
  BY DEF TakeRow
<1>2. /\ p \in watches /\ watches \subseteq Pools /\ unread \subseteq watches
      /\ Cardinality(watches) \in Nat /\ Cardinality(unread) \in Nat
      /\ Cardinality(watches \ {p}) = Cardinality(watches) - 1
      /\ Cardinality(unread \ {p}) = Cardinality(unread) - 1
  BY <1>1, PoolSets, Shrunk DEF StoreIsTyped, TakingFits
<1>3. /\ due' \in Seq(Pools) /\ Len(due') <= Len(due) + 1
      /\ \A i \in DOMAIN due' : \/ i \in DOMAIN due /\ due'[i] = due[i]
                                \/ due'[i] = p /\ Launched(p) /\ ~ Expired(p)
  <2>1. due \in Seq(Pools) /\ Len(due) \in Nat
    BY DEF JobIsTyped
  <2>2. CASE due' = due
    BY <2>1, <2>2
  <2>3. CASE due' = Append(due, p) /\ Launched(p) /\ ~ Expired(p)
    BY <2>1, <2>3, AppendProperties
  <2> QED BY <1>1, <2>2, <2>3
<1>4. StoreIsTyped'
  <2>1. WatchCap \in Nat
    BY WatchAssumption
  <2>2. CASE watches' = watches
    BY <2>2 DEF StoreIsTyped
  <2>3. CASE watches' = watches \ {p}
    BY <1>2, <2>1, <2>3 DEF StoreIsTyped
  <2> QED BY <1>1, <2>2, <2>3
<1>5. JobIsTyped'
  BY <1>1, <1>3 DEF JobIsTyped
<1>6. TakingFits'
  <2>1. unread' \subseteq watches'
    BY <1>1, <1>2
  <2>2. Len(due) \in Nat /\ Len(due') \in Nat /\ Len(due) + Cardinality(unread) <= WatchCap
    BY <1>1, <1>3 DEF JobIsTyped, TakingFits
  <2>3. Len(due') + Cardinality(unread') <= WatchCap
    BY <1>1, <1>2, <1>3, <2>2, WatchAssumption
  <2> QED BY <1>1, <2>1, <2>3 DEF TakingFits
<1>7. DueAreFresh'
  <2>1. Launched(p) /\ ~ Expired(p) => Fresh(p)
    BY WatchAssumption DEF Launched, Expired, Fresh, JobIsTyped
  <2> QED BY <1>1, <1>3, <2>1 DEF DueAreFresh, Fresh, Launched
<1>8. DueAreHandled' /\ RoomIsMade'
  BY <1>1 DEF DueAreHandled, RoomIsMade
<1> QED BY <1>4, <1>5, <1>6, <1>7, <1>8

LEMMA DiscoverInv == ASSUME IInv, NEW S \in SUBSET Pools, Discover(S) PROVE IInv'
<1> USE DEF IInv
<1>1. PICK pools \in NewestFirst(S) : todo' = FirstCandidates(DueFirst(pools))
  BY DEF Discover
<1>2. /\ job = "take" /\ job' = "loop" /\ unread = {}
      /\ UNCHANGED <<watches, now, jobNow, unread, due, evaluated>>
  BY DEF Discover
<1>3. Len(due) <= CandidateCap
  BY <1>2, FS_EmptySet, WatchAssumption DEF TakingFits, JobIsTyped
<1>4. /\ todo' \in Seq(Pools) /\ Len(todo') <= CandidateCap
      /\ ToSet(due) \subseteq ToSet(todo')
  BY <1>1, <1>3, Discovered, Candidates DEF JobIsTyped
<1>5. StoreIsTyped' /\ JobIsTyped' /\ TakingFits' /\ DueAreFresh' /\ RoomIsMade'
  BY <1>2, <1>4 DEF StoreIsTyped, JobIsTyped, TakingFits, DueAreFresh, RoomIsMade, Fresh, Launched
<1>6. DueAreHandled'
  BY <1>2, <1>4 DEF DueAreHandled, ToSet
<1> QED BY <1>5, <1>6

\* A candidate that is dealt with leaves the list; it was not due, or is evaluated.
LEMMA HandledInv ==
  ASSUME IInv, job \in {"loop", "save"}, todo # <<>>, job' = "loop",
         todo' = Tail(todo), UNCHANGED <<now, jobNow, unread, due>>,
         evaluated \subseteq evaluated', evaluated' \subseteq Pools,
         Fresh(Head(todo)) => Head(todo) \in evaluated',
         watches' \subseteq Pools, Cardinality(watches') <= WatchCap
  PROVE  IInv'
<1> USE DEF IInv
<1>1. /\ todo \in Seq(Pools) /\ Tail(todo) \in Seq(Pools)
      /\ Len(Tail(todo)) <= CandidateCap
      /\ ToSet(todo) \subseteq {Head(todo)} \union ToSet(Tail(todo))
  BY HeadAndTail, LenProperties, WatchAssumption DEF JobIsTyped
<1>2. StoreIsTyped' /\ JobIsTyped'
  BY <1>1 DEF StoreIsTyped, JobIsTyped
<1>3. TakingFits' /\ RoomIsMade'
  BY DEF TakingFits, RoomIsMade
<1>4. DueAreFresh'
  BY DEF DueAreFresh, Fresh, Launched
<1>5. DueAreHandled'
  <2> SUFFICES ASSUME NEW i \in DOMAIN due
               PROVE  due[i] \in evaluated' \union ToSet(todo')
    BY DEF DueAreHandled, ToSet
  <2>1. due[i] \in evaluated \union ToSet(todo) /\ Fresh(due[i])
    BY DEF DueAreHandled, DueAreFresh
  <2> QED BY <1>1, <2>1
<1> QED BY <1>2, <1>3, <1>4, <1>5

LEMMA WatchInv == ASSUME IInv, NEW p \in Pools, WatchFuture(p) PROVE IInv'
<1>1. /\ job = "loop" /\ todo # <<>> /\ Head(todo) = p /\ ~ Launched(p)
      /\ watches' = watches \union {p} /\ todo' = Tail(todo)
      /\ UNCHANGED <<now, job, jobNow, unread, due, evaluated>>
  BY DEF WatchFuture, Handling
<1>2. watches \subseteq Pools /\ Cardinality(watches) \in Nat /\ Cardinality(watches) <= WatchCap
  BY PoolSets DEF IInv, StoreIsTyped
<1>3. p \in watches \/ Cardinality(watches) # WatchCap
  BY DEF WatchFuture, MakesRoom
<1>4. Cardinality(watches') <= WatchCap
  BY <1>1, <1>2, <1>3, Grown, WatchAssumption
<1> QED BY <1>1, <1>2, <1>4, HandledInv DEF IInv, JobIsTyped, Fresh

LEMMA EvictInv == ASSUME IInv, NEW p \in Pools, Evict(p) PROVE IInv'
<1> USE DEF IInv
<1>1. PICK k \in Soonest : watches' = watches \ {k}
  BY DEF Evict
<1>2. /\ job = "loop" /\ job' = "save" /\ todo # <<>> /\ Head(todo) = p /\ ~ Launched(p)
      /\ UNCHANGED <<now, jobNow, unread, due, todo, evaluated>>
  BY DEF Evict, Handling
<1>3. /\ watches' \subseteq Pools /\ Cardinality(watches) \in Nat
      /\ Cardinality(watches') = Cardinality(watches) - 1
      /\ Cardinality(watches) <= WatchCap
  BY <1>1, PoolSets, Shrunk DEF StoreIsTyped, Soonest
<1>4. Cardinality(watches') < WatchCap
  BY <1>3, WatchAssumption
<1>5. StoreIsTyped' /\ JobIsTyped'
  BY <1>2, <1>3, <1>4, WatchAssumption DEF StoreIsTyped, JobIsTyped
<1>6. TakingFits' /\ DueAreFresh' /\ DueAreHandled'
  BY <1>2 DEF TakingFits, DueAreFresh, DueAreHandled, Fresh, Launched, ToSet
<1>7. RoomIsMade'
  BY <1>2, <1>4 DEF RoomIsMade, Launched
<1> QED BY <1>5, <1>6, <1>7

LEMMA SaveInv == ASSUME IInv, Save PROVE IInv'
<1>1. /\ job = "save" /\ job' = "loop" /\ todo # <<>> /\ ~ Launched(Head(todo))
      /\ watches' = watches \union {Head(todo)} /\ todo' = Tail(todo)
      /\ UNCHANGED <<now, jobNow, unread, due, evaluated>>
  BY DEF Save, IInv, RoomIsMade
<1>2. watches \subseteq Pools /\ Cardinality(watches) \in Nat /\ Cardinality(watches) < WatchCap
  BY <1>1, PoolSets DEF IInv, StoreIsTyped, RoomIsMade
<1>3. Head(todo) \in Pools
  BY <1>1, HeadAndTail DEF IInv, JobIsTyped
<1>4. /\ Cardinality(watches \union {Head(todo)}) \in Nat
      /\ Cardinality(watches \union {Head(todo)}) <= Cardinality(watches) + 1
  BY <1>2, Grown
<1>5. watches' \subseteq Pools /\ Cardinality(watches') <= WatchCap
  BY <1>1, <1>2, <1>3, <1>4, WatchAssumption
<1> QED BY <1>1, <1>5, HandledInv DEF IInv, JobIsTyped, Fresh

LEMMA JudgedInv == ASSUME IInv, NEW p \in Pools, SkipOld(p) \/ Evaluate(p) PROVE IInv'
<1>1. /\ job = "loop" /\ todo # <<>> /\ Head(todo) = p /\ todo' = Tail(todo)
      /\ UNCHANGED <<watches, now, job, jobNow, unread, due>>
      /\ evaluated \subseteq evaluated' /\ evaluated' \subseteq evaluated \union {p}
      /\ Fresh(p) => p \in evaluated'
  BY DEF SkipOld, Evaluate, Handling
<1> QED BY <1>1, HandledInv DEF IInv, StoreIsTyped, JobIsTyped

LEMMA EndInv == ASSUME IInv, EndScan \/ Abort PROVE IInv'
<1> USE DEF IInv
<1>1. /\ job' = "idle" /\ jobNow' = 0 /\ unread' = {} /\ due' = <<>> /\ todo' = <<>>
      /\ evaluated' = {} /\ UNCHANGED <<now, watches>>
  BY DEF EndScan, Abort, Over
<1>2. StoreIsTyped' /\ JobIsTyped'
  BY <1>1, WatchAssumption DEF StoreIsTyped, JobIsTyped
<1> QED BY <1>1, <1>2 DEF TakingFits, DueAreFresh, DueAreHandled, RoomIsMade

LEMMA IdleInv == ASSUME IInv, Tick \/ UNCHANGED vars PROVE IInv'
<1> USE DEF IInv
<1>1. /\ UNCHANGED <<watches, job, jobNow, unread, due, todo, evaluated>>
      /\ \/ now' = now
         \/ now < MaxTime /\ now' = now + 1
  BY DEF Tick, vars
<1>2. JobIsTyped'
  BY <1>1, WatchAssumption DEF JobIsTyped
<1>3. StoreIsTyped' /\ TakingFits'
  BY <1>1 DEF StoreIsTyped, TakingFits
<1>4. DueAreFresh' /\ DueAreHandled' /\ RoomIsMade'
  BY <1>1 DEF DueAreFresh, DueAreHandled, RoomIsMade, Fresh, Launched, ToSet
<1> QED BY <1>2, <1>3, <1>4

LEMMA NextInv == IInv /\ [Next]_vars => IInv'
<1> SUFFICES ASSUME IInv, [Next]_vars PROVE IInv'
  OBVIOUS
<1>1. ASSUME NEW S \in SUBSET Pools, Discover(S) PROVE IInv'
  BY <1>1, DiscoverInv
<1>2. ASSUME NEW p \in Pools,
             TakeRow(p) \/ WatchFuture(p) \/ Evict(p) \/ SkipOld(p) \/ Evaluate(p)
      PROVE  IInv'
  BY <1>2, TakeInv, WatchInv, EvictInv, JudgedInv
<1> QED BY <1>1, <1>2, StartInv, SaveInv, EndInv, IdleInv DEF Next

LEMMA InvHolds == Spec => []IInv
  BY InitInv, NextInv, PTL DEF Spec

-----------------------------------------------------------------------------
(* The theorems.                                                            *)

\* Every reachable state of the scan and its watches is of its type, and the
\* store never holds more rows than its cap.
THEOREM TypeCorrect == Spec => []TypeOK
<1>1. IInv => TypeOK
  BY DEF IInv, StoreIsTyped, JobIsTyped, TakingFits, TypeOK
<1> QED BY <1>1, InvHolds, PTL

\* A scan that does not fail evaluates every launched pool it took from the
\* watches: they are no more than the rows, they come first, and none is too old.
THEOREM DueAlwaysEvaluated == Spec => DueAreEvaluated
<1> DEFINE Handled == EndScan => ToSet(due) \subseteq evaluated
<1>1. IInv => Handled
  BY DEF IInv, DueAreHandled, EndScan, ToSet
<1> QED BY <1>1, InvHolds, PTL DEF DueAreEvaluated

\* A watch on a pool that has not launched is lost only to make room in a full
\* store, for a pool without a watch, and it is the one with the nearest launch.
THEOREM SoonestAloneGivesWay == Spec => OnlyTheSoonestGivesWay
<1> DEFINE GivesWay ==
      \A p \in watches \ watches' : ~ Launched(p) =>
         /\ Cardinality(watches) = WatchCap
         /\ p \in Soonest
         /\ Head(todo) \notin watches
<1>1. IInv /\ [Next]_vars => [GivesWay]_vars
  <2> SUFFICES ASSUME Next, NEW p \in watches \ watches', ~ Launched(p)
               PROVE  /\ Cardinality(watches) = WatchCap
                      /\ p \in Soonest
                      /\ Head(todo) \notin watches
    OBVIOUS
  <2>1. ~ (StartScan \/ EndScan \/ Abort \/ Tick \/ Save)
    BY DEF StartScan, EndScan, Abort, Tick, Save
  <2>2. \A S : ~ Discover(S)
    BY DEF Discover
  <2>3. \A q : ~ (TakeRow(q) \/ WatchFuture(q) \/ SkipOld(q) \/ Evaluate(q))
    BY DEF TakeRow, WatchFuture, SkipOld, Evaluate
  <2>4. PICK q \in Pools : Evict(q)
    BY <2>1, <2>2, <2>3 DEF Next
  <2> QED BY <2>4 DEF Evict, Handling, MakesRoom
<1> QED BY <1>1, InvHolds, PTL DEF Spec, OnlyTheSoonestGivesWay
=============================================================================
