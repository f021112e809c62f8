---------------------------- MODULE MarketRetry ----------------------------
(***************************************************************************)
(* The retry queue for candidates without market evidence: the repository's   *)
(* Schedule, ReserveDue and Complete                                        *)
(* (internal/adapters/postgres/market_retry_repository.go) and the scan and    *)
(* retry jobs that call them (internal/application/production_scan_job.go).     *)
(* One goroutine runs the jobs, so a repository call is one step; the process   *)
(* may fail between two calls.  Evaluation after the market evidence is not     *)
(* looked at here.                                                          *)
(***************************************************************************)
EXTENDS Integers, FiniteSets, Functions

CONSTANTS
    Pools,          \* discovered pools
    CreatedAt,      \* when each was created
    Before(_, _),   \* the order of pool identities
    Cap,            \* marketRetryCap
    Interval,       \* MarketRetryInterval, also the length of a lease
    TTL,            \* MarketRetryTTL
    MaxPoolAge,
    MaxTime         \* bound: the clock stops here

ASSUME RetryAssumption ==
    /\ IsFiniteSet(Pools)
    /\ CreatedAt \in [Pools -> Nat]
    /\ {Cap, Interval, TTL, MaxPoolAge} \subseteq Nat \ {0}
    /\ MaxTime \in Nat

\* Pool identities are compared as strings.
ASSUME BeforeAssumption ==
    \A p, q, r \in Pools :
      /\ ~ Before(p, p)
      /\ Before(p, q) /\ Before(q, r) => Before(p, r)
      /\ p = q \/ Before(p, q) \/ Before(q, p)

VARIABLES
    queue,      \* bot_states under market-retry: a row for each of some pools
    now,        \* the clock
    job,        \* "idle", "scan" or "retry"
    jobNow,     \* the running job's Now, when it began; 0 between jobs
    todo,       \* the candidates it has still to evaluate
    tried,      \* when the pool was last reserved or found without evidence
                \* (at; -1: never), and how long that job had run by then (ran)
    passed      \* reservations of other pools since the pool became due

vars == <<queue, now, job, jobNow, todo, tried, passed>>
history == <<tried, passed>>

Empty == [active |-> FALSE]
Entry(next, expires) == [active |-> TRUE, next |-> next, expires |-> expires]
Keys == DOMAIN queue
Live == {p \in Keys : queue[p].active}

TypeOK ==
    /\ Keys \subseteq Pools
    /\ Cardinality(Keys) <= Cap
    /\ \A p \in Live : queue[p].next \in Nat /\ queue[p].expires \in Nat
    /\ now \in 0 .. MaxTime
    /\ job \in {"idle", "scan", "retry"}
    /\ jobNow \in 0 .. now
    /\ todo \subseteq Pools
    /\ tried \in [Pools -> [at : -1 .. now, ran : 0 .. now]]
    /\ passed \in [Pools -> Nat]

Init ==
    /\ queue = <<>>
    /\ now = 0
    /\ job = "idle"
    /\ jobNow = 0
    /\ todo = {}
    /\ tried = [p \in Pools |-> [at |-> -1, ran |-> 0]]
    /\ passed = [p \in Pools |-> 0]

-----------------------------------------------------------------------------
(* The repository.                                                          *)

Earlier(a, b) == IF a < b THEN a ELSE b

\* Row k, if any, is given to pool p.
Put(k, p, entry) ==
    [q \in (Keys \ {k}) \union {p} |-> IF q = p THEN entry ELSE queue[q]]

\* Mutant: an entry that is scheduled again starts over.
FreshExpiry(p, expires) == expires

\* An entry keeps its expiry when it is scheduled again.
KeptExpiry(p, expires) ==
    IF p \in Live THEN Earlier(queue[p].expires, expires) ELSE expires

\* Mutant: only cleared rows are used again.
Cleared(next) == Keys \ Live

\* Rows that may be given to another pool: cleared, or run out by then.
Reusable(next) == {k \in Keys : k \in Live => queue[k].expires <= next}

Full == Cardinality(Keys) = Cap

OlderThan(p, q) ==
    CreatedAt[p] < CreatedAt[q] \/ (CreatedAt[p] = CreatedAt[q] /\ Before(p, q))

Oldest == CHOOSE p \in Keys : \A q \in Keys \ {p} : OlderThan(p, q)

\* The rows are read in no particular order: any reusable one may be taken.
Schedule(p, next, until) ==
    LET expires == KeptExpiry(p, until)
        entry == Entry(next, expires)
    IN  IF p \in Keys
          THEN queue' = Put(p, p, IF expires > next THEN entry ELSE Empty)
        ELSE IF Reusable(next) # {}
          THEN \E k \in Reusable(next) : queue' = Put(k, p, entry)
        ELSE IF Full
          THEN queue' = Put(Oldest, p, entry)
        ELSE queue' = Put(p, p, entry)

Due == {p \in Live : queue[p].next <= now /\ now < queue[p].expires}

\* Mutant: the oldest pool is always first.
AheadByAge(p, q) == OlderThan(p, q)

\* The order in which due entries are taken.
Ahead(p, q) ==
    \/ queue[p].next < queue[q].next
    \/ queue[p].next = queue[q].next /\ OlderThan(p, q)

\* Mutant: no lease, the entry stays due.
NoLease == now

LeaseUntil == now + Interval

\* Due entries that outlive the lease; the first one is reserved.
Leasable == {p \in Due : queue[p].expires > LeaseUntil}
Reserved == {p \in Leasable : \A q \in Leasable \ {p} : Ahead(p, q)}

\* Expired entries are cleared, and so are due ones that come before the
\* reserved one and run out before the lease does.
ReserveDue ==
    queue' = [p \in Keys |->
        IF p \in Reserved THEN Entry(LeaseUntil, queue[p].expires)
        ELSE IF \/ p \notin Live
                \/ queue[p].expires <= now
                \/ /\ p \in Due \ Leasable
                   /\ \A r \in Reserved : Ahead(p, r)
             THEN Empty
        ELSE queue[p]]

Complete(p) == queue' = IF p \in Keys THEN [queue EXCEPT ![p] = Empty] ELSE queue

-----------------------------------------------------------------------------
(* The jobs.                                                                *)

Fresh(p) == CreatedAt[p] <= now /\ now - CreatedAt[p] <= MaxPoolAge

\* A scan finds some pools again: discovery does not leave out those it has seen.
StartScan ==
    /\ job = "idle"
    /\ job' = "scan"
    /\ jobNow' = now
    /\ todo' \in SUBSET {p \in Pools : Fresh(p)}
    /\ UNCHANGED <<queue, now, history>>

StartRetry ==
    /\ job = "idle"
    /\ job' = "retry"
    /\ jobNow' = now
    /\ ReserveDue
    /\ todo' = Reserved
    /\ tried' = [p \in Pools |-> IF p \in Reserved THEN [at |-> now, ran |-> 0] ELSE tried[p]]
    /\ passed' = [p \in Pools |->
                    IF p \in Due \ Reserved /\ Reserved # {} THEN passed[p] + 1 ELSE 0]
    /\ UNCHANGED now

\* The candidate's market evidence is unavailable: it is scheduled, unless its
\* age leaves no time for a retry.
Unavailable(p) ==
    LET next == jobNow + Interval
        until == Earlier(jobNow + TTL, CreatedAt[p] + MaxPoolAge)
    IN
    /\ p \in todo
    /\ todo' = todo \ {p}
    /\ IF until > next THEN Schedule(p, next, until) ELSE UNCHANGED queue
    /\ tried' = [tried EXCEPT ![p] = [at |-> now, ran |-> now - jobNow]]
    /\ passed' = [passed EXCEPT ![p] = 0]
    /\ UNCHANGED <<now, job, jobNow>>

\* There is market evidence: the candidate is evaluated and needs no retries.
Available(p) ==
    /\ p \in todo
    /\ todo' = todo \ {p}
    /\ Complete(p)
    /\ passed' = [passed EXCEPT ![p] = 0]
    /\ UNCHANGED <<now, job, jobNow, tried>>

EndJob ==
    /\ job # "idle"
    /\ todo = {}
    /\ job' = "idle"
    /\ jobNow' = 0
    /\ UNCHANGED <<queue, now, todo, history>>

\* An evaluation that fails, another error, the job's timeout or a restart of the
\* process: the candidates that are left are not evaluated.  The candidate of a
\* retry has its lease; one that a scan fails on keeps the turn it had, if any.
Abort ==
    /\ todo # {}
    /\ job' = "idle"
    /\ jobNow' = 0
    /\ todo' = {}
    /\ UNCHANGED <<queue, now, history>>

Tick ==
    /\ now < MaxTime
    /\ now' = now + 1
    /\ UNCHANGED <<queue, job, jobNow, todo, history>>

Next ==
    \/ StartScan \/ StartRetry
    \/ \E p \in Pools : Unavailable(p) \/ Available(p)
    \/ EndJob \/ Abort
    \/ Tick

Spec == Init /\ [][Next]_vars

-----------------------------------------------------------------------------
(* Properties.                                                              *)

\* A queued pool keeps its expiry for as long as it is queued, however often it
\* is found, leased and scheduled again, and is never retried when it has become
\* too old to trade.  (market_retry_repository.go:66-71, 170)
ExpiryStands ==
    [][/\ \A p \in Live : p \in Live' => queue'[p].expires <= queue[p].expires
       /\ \A p \in Live' : queue'[p].expires <= CreatedAt[p] + MaxPoolAge]_vars

\* A pool that was reserved is not reserved again within the retry interval,
\* also when its evaluation failed, the retry's time was up or the process was
\* restarted: the lease is in the database before the work begins.  Nor is one
\* that was found without evidence, except that its interval counts from the
\* start of the job that found it: a retry comes early by as long as that job
\* had run, and at once after a scan that had run for the interval.  A scan
\* whose evaluation fails takes no lease and promises nothing.
\* (market_retry_repository.go:170, production_scan_job.go:155)
RetriesAreSpaced ==
    [][StartRetry => \A p \in Reserved :
         tried[p].at >= 0 => now - tried[p].at >= Interval - tried[p].ran]_vars

\* With one reservation at a time, a due pool waits for each other queued pool
\* once at most: no pool keeps the others from their turn.
\* (market_retry_repository.go:150-158)
TurnsAreFair == \A p \in Due : passed[p] < Cap

\* Scheduling a pool takes the place of one that is still waiting only when all
\* Cap rows hold such pools, and then the oldest gives way.
\* (market_retry_repository.go:54-65, 91-98)
OnlyTheOldestGivesWay ==
    [][\A p \in todo : Unavailable(p) =>
         LET waiting == {q \in Live : queue[q].expires > jobNow + Interval} IN
         \A q \in waiting \ Keys' :
           /\ Cardinality(waiting) = Cap
           /\ \A r \in waiting \ {q} : OlderThan(q, r)]_vars
=============================================================================
