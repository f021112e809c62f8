----------------------------- MODULE Discovery -----------------------------
(***************************************************************************)
(* Discovery.Run (internal/application/discovery.go) over the candidates and  *)
(* the watermark of CandidateRepository, fed by TwoSourcePoolDiscovery as in     *)
(* production or by one paged source as in discovery_test.go.  A run reads      *)
(* pages until it meets the watermark; what it reads is inserted page by page,   *)
(* and the watermark moves only at the end of a run without a gap.  Providers    *)
(* list pools late and out of order, also between two pages of a run.           *)
(***************************************************************************)
EXTENDS Integers, FiniteSets

CONSTANTS
    Pools,      \* numbers: a pool's number orders its Identity()
    Address,    \* their PoolAddress, as numbers: two mints may share a pool
    GeckoAt,    \* their creation times as GeckoTerminal tells them
    DexAt,      \* and as DexScreener does
    PageSize,   \* pools on a page of GeckoTerminal
    Setups,     \* records: maxPages (MaxPages), cap (twoSourcePoolCap), hints
                \* (how many pools DexScreener resolves at most; 0: it has no part)
    NoMark      \* no watermark yet

\* A source's account of a pool: a DiscoveredPool, and the Watermark it leaves.
GeckoRecord(p) == [pool |-> p, at |-> GeckoAt[p]]
DexRecord(p) == [pool |-> p, at |-> DexAt[p]]
MarkOf(r) == [at |-> r.at, address |-> Address[r.pool]]

Records == {GeckoRecord(p) : p \in Pools} \union {DexRecord(p) : p \in Pools}
PoolsOf(S) == {r.pool : r \in S}
MarksOf(S) == {MarkOf(r) : r \in {q \in Records : q.pool \in S}}

ASSUME DiscoveryAssumption ==
    /\ IsFiniteSet(Pools) /\ Pools \subseteq Nat
    /\ Address \in [Pools -> Nat]
    /\ GeckoAt \in [Pools -> Nat] /\ DexAt \in [Pools -> Nat]
    /\ PageSize \in Nat \ {0}
    /\ Setups \subseteq [maxPages : Nat \ {0}, cap : Nat \ {0}, hints : Nat]
    /\ NoMark \notin [at : Nat, address : Nat]

\* Production reads one page, and GeckoTerminal's holds no fewer pools than the
\* cap and DexScreener's part together; several pages are read from the one
\* source only, and no cap cuts them.
ASSUME SetupAssumption ==
    \A s \in Setups :
      \/ s.maxPages = 1 /\ s.cap + s.hints <= PageSize
      \/ s.hints = 0 /\ s.cap >= PageSize

VARIABLES
    setup,      \* how discovery is configured: it does not change
    listed,     \* the pools GeckoTerminal knows so far
    candidates, \* rows of candidates
    watermark,  \* time and address of the watermark in bot_states
    gap,        \* the coverage-gap row exists
    step,       \* what the run does next
    page,       \* pageNumber
    fetched,    \* the records of the page just fetched
    next,       \* its NextPage
    newest,     \* time and address of the newest pool of this run
    known       \* what GeckoTerminal listed when the run began

run == <<step, page, fetched, next, newest, known>>
vars == <<setup, listed, candidates, watermark, gap, step, page, fetched, next, newest, known>>

TypeOK ==
    /\ setup \in Setups
    /\ listed \subseteq Pools
    /\ candidates \subseteq Pools
    /\ watermark \in MarksOf(candidates) \union {NoMark}
    /\ gap \in BOOLEAN
    /\ step \in {"idle", "fetch", "insert", "decide", "save", "gap"}
    /\ page \in 1 .. setup.maxPages
    /\ fetched \subseteq Records
    /\ next \in Nat
    /\ newest \in MarksOf(Pools) \union {NoMark}
    /\ known \subseteq listed

Idle ==
    /\ step = "idle"
    /\ page = 1
    /\ fetched = {}
    /\ next = 0
    /\ newest = NoMark
    /\ known = {}

Init ==
    /\ setup \in Setups
    /\ listed = {}
    /\ candidates = {}
    /\ watermark = NoMark
    /\ gap = FALSE
    /\ Idle

-----------------------------------------------------------------------------
(* Pools by age.                                                            *)

\* newerThan: the later creation, then the smaller address.
NewerThan(m, n) == m.at > n.at \/ (m.at = n.at /\ m.address < n.address)

Newest(M) == CHOOSE m \in M : \A n \in M \ {m} : NewerThan(m, n)

\* The order of a merged page: the later creation, then the smaller identity.
Precedes(r, s) == r.at > s.at \/ (r.at = s.at /\ r.pool < s.pool)

\* The records of S at places from .. to.
Slice(S, from, to) ==
    {r \in S : Cardinality({q \in S : Precedes(q, r)}) + 1 \in from .. to}

\* A page of GeckoTerminal; it lists by age as well.
GeckoPage(n) ==
    Slice({GeckoRecord(p) : p \in listed}, (n - 1) * PageSize + 1, n * PageSize)

\* By identity the union of both, in which DexScreener's account comes first.
Union(dex, gecko) ==
    {DexRecord(p) : p \in dex} \union {r \in gecko : r.pool \notin dex}

\* Mutant: the sources are concatenated, and what comes after the cap is cut.
DexFirst(dex, gecko) ==
    LET hinted == {DexRecord(p) : p \in dex}
    IN  Slice(hinted, 1, setup.cap) \union Slice(gecko, 1, setup.cap - Cardinality(dex))

\* Mutant: the merge is not cut.
Uncapped(dex, gecko) == Union(dex, gecko)

\* mergeNewestPools: of the union the first of the cap.
Merge(dex, gecko) == Slice(Union(dex, gecko), 1, setup.cap)

-----------------------------------------------------------------------------
(* A run.                                                                   *)

StartRun ==
    /\ step = "idle"
    /\ step' = "fetch"
    /\ known' = listed
    /\ UNCHANGED <<setup, listed, candidates, watermark, gap, page, fetched, next, newest>>

\* links.next of GeckoTerminal: a page further, none at the end, or the page
\* itself from a provider that repeats it.
NextPages ==
    {page, IF Cardinality(listed) > page * PageSize THEN page + 1 ELSE 0}

\* DexScreener's first page resolves the latest profiles, whether or not
\* GeckoTerminal lists their pools; it has no other page.
Hints ==
    IF page = 1 THEN {dex \in SUBSET Pools : Cardinality(dex) <= setup.hints} ELSE {{}}

FetchPage(dex) ==
    /\ step = "fetch"
    /\ step' = "insert"
    /\ fetched' = Merge(dex, GeckoPage(page))
    /\ next' \in NextPages
    /\ LET marks == {MarkOf(r) : r \in fetched'} \union ({newest} \ {NoMark})
       IN  newest' = IF marks = {} THEN NoMark ELSE Newest(marks)
    /\ UNCHANGED <<setup, listed, candidates, watermark, gap, page, known>>

\* InsertDiscovered, one transaction: what is there stays.
InsertPage ==
    /\ step = "insert"
    /\ candidates' = candidates \union PoolsOf(fetched)
    /\ step' = "decide"
    /\ UNCHANGED <<setup, listed, watermark, gap, page, fetched, next, newest, known>>

\* Watermark.Matches: time and address.
Overlaps == watermark # NoMark /\ \E r \in fetched : MarkOf(r) = watermark

Meet ==
    /\ step = "decide"
    /\ Overlaps
    /\ step' = "save"
    /\ UNCHANGED <<setup, listed, candidates, watermark, gap, page, fetched, next, newest, known>>

\* Without a watermark the end of the feed is the end of a first full scan.
FirstScanEnds ==
    /\ step = "decide"
    /\ ~ Overlaps /\ next = 0 /\ watermark = NoMark
    /\ step' = "save"
    /\ UNCHANGED <<setup, listed, candidates, watermark, gap, page, fetched, next, newest, known>>

\* There is another page, and the budget for it.
MorePages == next \notin {0, page} /\ page < setup.maxPages

TurnPage ==
    /\ step = "decide"
    /\ ~ Overlaps
    /\ MorePages
    /\ page' = next
    /\ step' = "fetch"
    /\ fetched' = {}
    /\ next' = 0
    /\ UNCHANGED <<setup, listed, candidates, watermark, gap, newest, known>>

\* The provider ended or repeats itself, or the page budget is exhausted.
FallShort ==
    /\ step = "decide"
    /\ ~ Overlaps
    /\ ~ MorePages
    /\ ~ (next = 0 /\ watermark = NoMark)
    /\ step' = "gap"
    /\ UNCHANGED <<setup, listed, candidates, watermark, gap, page, fetched, next, newest, known>>

EndRun ==
    /\ step' = "idle"
    /\ page' = 1
    /\ fetched' = {}
    /\ next' = 0
    /\ newest' = NoMark
    /\ known' = {}

\* Mutant: the watermark is the oldest pool of the last page.
OldestOfPage ==
    LET marks == {MarkOf(r) : r \in fetched}
    IN  CHOOSE m \in marks : \A n \in marks \ {m} : NewerThan(n, m)

Mark == newest

\* An empty feed leaves the watermark alone.
SaveWatermark ==
    /\ step = "save"
    /\ watermark' = IF newest = NoMark THEN watermark ELSE Mark
    /\ EndRun
    /\ UNCHANGED <<setup, listed, candidates, gap>>

RecordCoverageGap ==
    /\ step = "gap"
    /\ gap' = TRUE
    /\ EndRun
    /\ UNCHANGED <<setup, listed, candidates, watermark>>

\* A call fails, the scan's time is up, or the process restarts.
Abort ==
    /\ step # "idle"
    /\ EndRun
    /\ UNCHANGED <<setup, listed, candidates, watermark, gap>>

\* GeckoTerminal lists a pool, whenever it was created, under one of its mints.
List(p) ==
    /\ \A q \in listed : Address[q] # Address[p]
    /\ listed' = listed \union {p}
    /\ UNCHANGED <<setup, candidates, watermark, gap, run>>

Next ==
    \/ StartRun
    \/ \E dex \in Hints : FetchPage(dex)
    \/ InsertPage
    \/ Meet \/ FirstScanEnds \/ TurnPage \/ FallShort
    \/ SaveWatermark \/ RecordCoverageGap
    \/ Abort
    \/ \E p \in Pools \ listed : List(p)

Spec == Init /\ [][Next]_vars

-----------------------------------------------------------------------------
(* Properties.                                                              *)

\* Pool p is younger than mark or record w by every account of it that counts.
Younger(p, w) == GeckoAt[p] > w.at /\ (setup.hints > 0 => DexAt[p] > w.at)

\* When a watermark gives way to another, every pool younger than it that
\* GeckoTerminal listed when the run began is a candidate: pools that only
\* DexScreener has and that crowd the merge's cap, two accounts of a pool's
\* age, late and reordered listings, pages that shift under the run and failed
\* runs before never leave an unreported hole.
\* (discovery.go:78-92, two_source_pool_discovery.go:70)
NoSilentHole ==
    [][watermark \notin {NoMark, watermark'} =>
         \A p \in known : Younger(p, watermark) => p \in candidates]_vars

\* The watermark never moves back in time, whatever is listed late, and
\* whichever source it was taken from.
WatermarkAdvances ==
    [][watermark \notin {NoMark, watermark'} => NewerThan(watermark', watermark)]_vars

\* A run that starts with the cap's number of younger pools, or more, never
\* reaches its watermark when it may read one page only, whatever DexScreener
\* shows beside them: the watermark stays where it is, and every later run
\* falls short as well.  (automation.go:304)
BehindForGood ==
    [][setup.maxPages = 1 /\ watermark \notin {NoMark, watermark'} =>
         Cardinality({p \in known : Younger(p, watermark)}) < setup.cap]_vars
=============================================================================
