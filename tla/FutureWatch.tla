---------------------------- MODULE FutureWatch ----------------------------
(***************************************************************************)
(* A production scan and its watches on pools that are yet to launch          *)
(* (ProductionScanJob.RunOnce; Watch and TakeDue of                          *)
(* internal/adapters/postgres/future_pool_watch_repository.go).  The repository *)
(* works without transactions: TakeDue deletes row by row what it returns, and  *)
(* Watch deletes a row before it saves another.  Scans do not overlap.         *)
(***************************************************************************)
EXTENDS Integers, FiniteSets, SequencesExt

CONSTANTS
    Pools,
    CreatedAt,      \* the advertised launch of each pool
    WatchCap,       \* futurePoolWatchCap
    CandidateCap,   \* ProductionScanCandidateCap
    TTL,            \* FuturePoolWatchTTL
    MaxPoolAge,
    MaxTime         \* bound: the clock stops here

ASSUME WatchAssumption ==
    /\ IsFiniteSet(Pools)
    /\ CreatedAt \in [Pools -> Nat]
    /\ {WatchCap, CandidateCap, TTL} \subseteq Nat \ {0}
    /\ WatchCap <= CandidateCap
    /\ MaxPoolAge \in Nat /\ MaxPoolAge >= TTL
    /\ MaxTime \in Nat

VARIABLES
    watches,    \* pools with a row under future-pool-watch:
    now,        \* the clock
    job,        \* what the scan is doing
    jobNow,     \* the scan's Now, when it began; 0 between scans
    unread,     \* TakeDue: rows of its query not yet looked at
    due,        \* what TakeDue returns
    todo,       \* the candidates still to be handled
    evaluated   \* the candidates evaluated in this scan

vars == <<watches, now, job, jobNow, unread, due, todo, evaluated>>

TypeOK ==
    /\ watches \subseteq Pools
    /\ Cardinality(watches) <= WatchCap
    /\ now \in 0 .. MaxTime
    /\ job \in {"idle", "take", "loop", "save"}
    /\ jobNow \in 0 .. now
    /\ unread \subseteq watches
    /\ due \in Seq(Pools)
    /\ todo \in Seq(Pools) /\ Len(todo) <= CandidateCap
    /\ evaluated \subseteq Pools

Init ==
    /\ watches = {}
    /\ now = 0
    /\ job = "idle"
    /\ jobNow = 0
    /\ unread = {}
    /\ due = <<>>
    /\ todo = <<>>
    /\ evaluated = {}

Launched(p) == CreatedAt[p] <= jobNow
Expired(p) == jobNow > CreatedAt[p] + TTL

StartScan ==
    /\ job = "idle"
    /\ job' = "take"
    /\ jobNow' = now
    /\ unread' = watches
    /\ UNCHANGED <<watches, now, due, todo, evaluated>>

\* TakeDue looks at a row: a launched pool's row is deleted, and the pool is
\* returned unless the watch has expired.
TakeRow(p) ==
    /\ job = "take"
    /\ p \in unread
    /\ unread' = unread \ {p}
    /\ watches' = IF Launched(p) THEN watches \ {p} ELSE watches
    /\ due' = IF Launched(p) /\ ~ Expired(p) THEN Append(due, p) ELSE due
    /\ UNCHANGED <<now, job, jobNow, todo, evaluated>>

\* Mutant: what was discovered comes first.
DiscoveredFirst(pools) == pools \o due

DueFirst(pools) == due \o pools

\* What the merge of the sources makes of the pools of S; pools created at the
\* same time come in any order.
NewestFirst(S) ==
    {s \in SetToSeqs(S) : \A i, j \in DOMAIN s : i < j => CreatedAt[s[i]] >= CreatedAt[s[j]]}

FirstCandidates(pools) ==
    SubSeq(pools, 1, IF Len(pools) < CandidateCap THEN Len(pools) ELSE CandidateCap)

\* Discovery finds the pools of S, known or not, launched or not.
Discover(S) ==
    /\ job = "take"
    /\ unread = {}
    /\ job' = "loop"
    /\ \E pools \in NewestFirst(S) : todo' = FirstCandidates(DueFirst(pools))
    /\ UNCHANGED <<watches, now, jobNow, unread, due, evaluated>>

Handling(p) == job = "loop" /\ todo # <<>> /\ Head(todo) = p

\* Mutant: a full store makes room also for a pool it has.
AlwaysMakesRoom(p) == Cardinality(watches) = WatchCap

MakesRoom(p) == p \notin watches /\ Cardinality(watches) = WatchCap

Soonest == {p \in watches : \A q \in watches : CreatedAt[p] <= CreatedAt[q]}

\* Watch, when the store has room for the pool or its row.
WatchFuture(p) ==
    /\ Handling(p)
    /\ ~ Launched(p)
    /\ ~ MakesRoom(p)
    /\ watches' = watches \union {p}
    /\ todo' = Tail(todo)
    /\ UNCHANGED <<now, job, jobNow, unread, due, evaluated>>

\* Watch, when it has not: the row with the earliest launch is deleted first ...
Evict(p) ==
    /\ Handling(p)
    /\ ~ Launched(p)
    /\ MakesRoom(p)
    /\ \E k \in Soonest : watches' = watches \ {k}
    /\ job' = "save"
    /\ UNCHANGED <<now, jobNow, unread, due, todo, evaluated>>

\* ... and the pool saved next.
Save ==
    /\ job = "save"
    /\ watches' = watches \union {Head(todo)}
    /\ todo' = Tail(todo)
    /\ job' = "loop"
    /\ UNCHANGED <<now, jobNow, unread, due, evaluated>>

Fresh(p) == Launched(p) /\ jobNow - CreatedAt[p] <= MaxPoolAge

SkipOld(p) ==
    /\ Handling(p)
    /\ Launched(p)
    /\ ~ Fresh(p)
    /\ todo' = Tail(todo)
    /\ UNCHANGED <<watches, now, job, jobNow, unread, due, evaluated>>

Evaluate(p) ==
    /\ Handling(p)
    /\ Fresh(p)
    /\ evaluated' = evaluated \union {p}
    /\ todo' = Tail(todo)
    /\ UNCHANGED <<watches, now, job, jobNow, unread, due>>

Over ==
    /\ job' = "idle"
    /\ jobNow' = 0
    /\ unread' = {}
    /\ due' = <<>>
    /\ todo' = <<>>
    /\ evaluated' = {}
    /\ UNCHANGED now

EndScan ==
    /\ job = "loop"
    /\ todo = <<>>
    /\ Over
    /\ UNCHANGED watches

\* Any call fails, the scan's time is up, or the process restarts.
Abort ==
    /\ job # "idle"
    /\ Over
    /\ UNCHANGED watches

Tick ==
    /\ now < MaxTime
    /\ now' = now + 1
    /\ UNCHANGED <<watches, job, jobNow, unread, due, todo, evaluated>>

Next ==
    \/ StartScan
    \/ \E S \in SUBSET Pools : Discover(S)
    \/ \E p \in Pools : \/ TakeRow(p)
                        \/ WatchFuture(p) \/ Evict(p)
                        \/ SkipOld(p) \/ Evaluate(p)
    \/ Save
    \/ EndScan \/ Abort
    \/ Tick

Spec == Init /\ [][Next]_vars

-----------------------------------------------------------------------------
(* Properties.                                                              *)

\* A scan that does not fail evaluates every launched pool it took from the
\* watches, however many pools discovery brings: the cap on candidates does not
\* reach them, and none is too old.  (production_scan_job.go:121, 130, 316-321)
DueAreEvaluated ==
    [][EndScan => ToSet(due) \subseteq evaluated]_vars

\* A watch ends at its launch, or for a pool that has no watch in a full store;
\* then the launch that is nearest gives way.
\* (future_pool_watch_repository.go:35-50, 75)
OnlyTheSoonestGivesWay ==
    [][\A p \in watches \ watches' : ~ Launched(p) =>
         /\ Cardinality(watches) = WatchCap
         /\ p \in Soonest
         /\ Head(todo) \notin watches]_vars
=============================================================================
