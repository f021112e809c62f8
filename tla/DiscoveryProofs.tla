-------------------------- MODULE DiscoveryProofs --------------------------
(***************************************************************************)
(* The watermark only advances, and never over a pool that discovery could     *)
(* have seen and did not keep, for any pools, page size and configuration.     *)
(***************************************************************************)
EXTENDS Discovery, FiniteSetTheorems, TLAPS

-----------------------------------------------------------------------------
(* Finite orders, as sets of pairs.                                         *)

TotalOrder(R, S) ==
    /\ \A x \in S : <<x, x>> \notin R
    /\ \A x, y, z \in S : <<x, y>> \in R /\ <<y, z>> \in R => <<x, z>> \in R
    /\ \A x, y \in S : x = y \/ <<x, y>> \in R \/ <<y, x>> \in R

\* A finite set that is not empty has a first element, before every other: one
\* whose set of predecessors is smallest.
LEMMA FirstExists ==
  ASSUME NEW S, IsFiniteSet(S), S # {}, NEW R, TotalOrder(R, S)
  PROVE  \E x \in S : \A y \in S \ {x} : <<x, y>> \in R
<1> DEFINE Preds(x) == {y \in S : <<y, x>> \in R}
           T == {Preds(x) : x \in S}
           Smaller == StrictSubsetOrdering(S)
<1>1. IsWellFoundedOn(Smaller, SUBSET S)
  BY FS_StrictSubsetOrderingWellFounded, FS_FiniteSubsetsOfFinite
<1>2. T \subseteq SUBSET S /\ T # {}
  OBVIOUS
<1>3. PICK m \in T : \A u \in T : <<u, m>> \notin Smaller
  <2> HIDE DEF T, Smaller
  <2> QED BY <1>1, <1>2, WFMin
<1>4. PICK x \in S : m = Preds(x)
  BY <1>3
<1>5. ASSUME NEW y \in S, <<y, x>> \in R
      PROVE  FALSE
  <2>1. Preds(y) \subseteq Preds(x) /\ Preds(y) # Preds(x)
    BY <1>5 DEF TotalOrder
  <2>2. <<Preds(y), m>> \in Smaller
    BY <1>4, <2>1 DEF StrictSubsetOrdering
  <2> QED BY <1>3, <2>2
<1> QED BY <1>5 DEF TotalOrder

-----------------------------------------------------------------------------
(* Records and marks.                                                       *)

\* What a function makes of a finite set is finite and no larger.
LEMMA ImageIsNoLarger ==
  ASSUME NEW S, IsFiniteSet(S), NEW f, DOMAIN f = S, NEW T, T = {f[x] : x \in S}, f \in [S -> T]
  PROVE  IsFiniteSet(T) /\ Cardinality(T) <= Cardinality(S)
<1>1. f \in Surjection(S, T)
  BY DEF Surjection
<1> QED BY <1>1, FS_Surjection

LEMMA GeckoRecordsFinite ==
  ASSUME NEW S \in SUBSET Pools
  PROVE  LET T == {GeckoRecord(p) : p \in S}
         IN  IsFiniteSet(T) /\ Cardinality(T) <= Cardinality(S) /\ T \in SUBSET Records
<1> DEFINE f == [p \in S |-> GeckoRecord(p)]
           T == {GeckoRecord(p) : p \in S}
<1>1. IsFiniteSet(S)
  BY FS_Subset, DiscoveryAssumption
<1>2. T = {f[x] : x \in S} /\ DOMAIN f = S /\ f \in [S -> T]
  OBVIOUS
<1>3. IsFiniteSet(T) /\ Cardinality(T) <= Cardinality(S)
  <2> HIDE DEF f, T
  <2> QED BY <1>1, <1>2, ImageIsNoLarger
<1> QED BY <1>3 DEF Records

LEMMA RecordsAreFinite == IsFiniteSet(Records)
<1> DEFINE f == [p \in Pools |-> DexRecord(p)]
           T == {DexRecord(p) : p \in Pools}
<1>1. IsFiniteSet({GeckoRecord(p) : p \in Pools})
  BY GeckoRecordsFinite
<1>2. T = {f[x] : x \in Pools} /\ DOMAIN f = Pools /\ f \in [Pools -> T]
  OBVIOUS
<1>3. IsFiniteSet(T)
  <2> HIDE DEF f, T
  <2> QED BY <1>2, ImageIsNoLarger, DiscoveryAssumption
<1> QED BY <1>1, <1>3, FS_Union DEF Records

LEMMA MarksAreFinite == IsFiniteSet(MarksOf(Pools))
<1> DEFINE Q == {q \in Records : q.pool \in Pools}
           f == [r \in Q |-> MarkOf(r)]
           T == {MarkOf(r) : r \in Q}
<1>1. IsFiniteSet(Q)
  BY RecordsAreFinite, FS_Subset
<1>2. T = {f[x] : x \in Q} /\ DOMAIN f = Q /\ f \in [Q -> T]
  OBVIOUS
<1>3. IsFiniteSet(T)
  <2> HIDE DEF f, T, Q
  <2> QED BY <1>1, <1>2, ImageIsNoLarger
<1> QED BY <1>3 DEF MarksOf

LEMMA RecordFields ==
  ASSUME NEW r \in Records
  PROVE  /\ r \in [pool : Pools, at : Nat] /\ r.pool \in Nat
         /\ MarkOf(r) \in [at : Nat, address : Nat]
         /\ MarkOf(r).at = r.at
         /\ MarkOf(r) # NoMark
<1>1. r \in [pool : Pools, at : Nat]
  BY DiscoveryAssumption DEF Records, GeckoRecord, DexRecord
<1>2. Address[r.pool] \in Nat /\ r.pool \in Nat /\ r.at \in Nat
  BY <1>1, DiscoveryAssumption
<1>3. MarkOf(r) = [at |-> r.at, address |-> Address[r.pool]]
  BY DEF MarkOf
<1>4. MarkOf(r) \in [at : Nat, address : Nat] /\ MarkOf(r).at = r.at
  BY <1>2, <1>3
<1> QED BY <1>1, <1>2, <1>4, DiscoveryAssumption

LEMMA MarkFields ==
  ASSUME NEW m \in MarksOf(Pools)
  PROVE  m \in [at : Nat, address : Nat] /\ m # NoMark
  BY RecordFields DEF MarksOf

\* The marks of a set of records are marks of their pools.
LEMMA MarksOfRecords ==
  ASSUME NEW S \in SUBSET Records
  PROVE  /\ {MarkOf(r) : r \in S} \subseteq MarksOf(PoolsOf(S))
         /\ PoolsOf(S) \subseteq Pools
         /\ \A A, B : A \subseteq B => MarksOf(A) \subseteq MarksOf(B)
<1>1. \A r \in S : r \in Records /\ r.pool \in Pools
  BY RecordFields
<1> QED BY <1>1 DEF MarksOf, PoolsOf

-----------------------------------------------------------------------------
(* By age.                                                                  *)

LEMMA NewerIsAnOrder ==
  \A l, m, n \in MarksOf(Pools) :
    /\ ~ NewerThan(l, l)
    /\ NewerThan(l, m) /\ NewerThan(m, n) => NewerThan(l, n)
    /\ l = m \/ NewerThan(l, m) \/ NewerThan(m, l)
<1>1. \A m \in MarksOf(Pools) : m \in [at : Nat, address : Nat]
  BY MarkFields
<1> QED BY <1>1 DEF NewerThan

LEMMA NewestIsNewest ==
  ASSUME NEW S \in SUBSET MarksOf(Pools), S # {}
  PROVE  Newest(S) \in S /\ \A q \in S \ {Newest(S)} : NewerThan(Newest(S), q)
<1> DEFINE R == {e \in MarksOf(Pools) \X MarksOf(Pools) : NewerThan(e[1], e[2])}
<1>1. \A p, q \in S : <<p, q>> \in R <=> NewerThan(p, q)
  OBVIOUS
<1>2. TotalOrder(R, S)
  <2> HIDE DEF R
  <2> QED BY <1>1, NewerIsAnOrder DEF TotalOrder
<1>3. IsFiniteSet(S)
  BY FS_Subset, MarksAreFinite
<1>4. \E p \in S : \A q \in S \ {p} : <<p, q>> \in R
  <2> HIDE DEF R
  <2> QED BY <1>2, <1>3, FirstExists
<1>5. \E p \in S : \A q \in S \ {p} : NewerThan(p, q)
  <2> HIDE DEF R
  <2> QED BY <1>1, <1>4
<1> QED BY <1>5 DEF Newest

LEMMA PrecedesIsAnOrder ==
  \A p, q, r \in Records :
    /\ ~ Precedes(p, p)
    /\ Precedes(p, q) /\ Precedes(q, r) => Precedes(p, r)
    /\ p = q \/ Precedes(p, q) \/ Precedes(q, p)
<1>1. \A p \in Records : p \in [pool : Pools, at : Nat] /\ p.pool \in Nat
  BY RecordFields
<1> QED BY <1>1 DEF Precedes

LEMMA FirstRecord ==
  ASSUME NEW S \in SUBSET Records, S # {}
  PROVE  \E m \in S : \A q \in S \ {m} : Precedes(m, q)
<1> DEFINE R == {e \in Records \X Records : Precedes(e[1], e[2])}
<1>1. \A p, q \in S : <<p, q>> \in R <=> Precedes(p, q)
  OBVIOUS
<1>2. TotalOrder(R, S)
  <2> HIDE DEF R
  <2> QED BY <1>1, PrecedesIsAnOrder DEF TotalOrder
<1>3. IsFiniteSet(S)
  BY FS_Subset, RecordsAreFinite
<1>4. \E p \in S : \A q \in S \ {p} : <<p, q>> \in R
  <2> HIDE DEF R
  <2> QED BY <1>2, <1>3, FirstExists
<1> HIDE DEF R
<1> QED BY <1>1, <1>4

\* The records of S before p, and how many they are.
Above(p, S) == {q \in S : Precedes(q, p)}
Rank(p, S) == Cardinality(Above(p, S))

LEMMA AboveIsFinite ==
  ASSUME NEW S \in SUBSET Records, NEW p
  PROVE  IsFiniteSet(Above(p, S)) /\ Rank(p, S) \in Nat
<1>1. Above(p, S) \in SUBSET Records
  BY DEF Above
<1> QED BY <1>1, RecordsAreFinite, FS_Subset, FS_CardinalityType DEF Rank

LEMMA SliceMembers ==
  ASSUME NEW S \in SUBSET Records, NEW from \in Int, NEW to \in Int, NEW p
  PROVE  p \in Slice(S, from, to) <=> p \in S /\ from <= Rank(p, S) + 1 /\ Rank(p, S) + 1 <= to
<1>1. p \in Slice(S, from, to) <=> p \in S /\ Rank(p, S) + 1 \in from .. to
  BY DEF Slice, Rank, Above
<1> QED BY <1>1, AboveIsFinite

LEMMA RankGrows ==
  ASSUME NEW S \in SUBSET Records, NEW T \in SUBSET Records, S \subseteq T, NEW p
  PROVE  Rank(p, S) <= Rank(p, T)
<1>1. Above(p, S) \subseteq Above(p, T)
  BY DEF Above
<1> QED BY <1>1, AboveIsFinite, FS_Subset DEF Rank

\* K records of S that precede q put it below place K.
LEMMA EarlierOnesCount ==
  ASSUME NEW S \in SUBSET Records, NEW q \in S, NEW K \in SUBSET S, \A r \in K : Precedes(r, q)
  PROVE  IsFiniteSet(K) /\ Cardinality(K) \in Nat /\ Cardinality(K) <= Rank(q, S)
<1>1. K \subseteq Above(q, S)
  BY DEF Above
<1> QED BY <1>1, AboveIsFinite, FS_Subset, FS_CardinalityType DEF Rank

LEMMA RankOrder ==
  ASSUME NEW S \in SUBSET Records, NEW p \in S, NEW q \in S, Precedes(p, q)
  PROVE  Rank(p, S) < Rank(q, S)
<1> DEFINE K == Above(p, S) \union {p}
<1>1. K \subseteq S /\ \A r \in K : Precedes(r, q)
  BY PrecedesIsAnOrder DEF Above
<1>2. Cardinality(K) = Rank(p, S) + 1
  <2>1. p \notin Above(p, S)
    BY PrecedesIsAnOrder DEF Above
  <2> QED BY <2>1, AboveIsFinite, FS_AddElement DEF Rank
<1>3. Cardinality(K) <= Rank(q, S)
  <2> HIDE DEF K
  <2> QED BY <1>1, EarlierOnesCount
<1> QED BY <1>2, <1>3, AboveIsFinite

LEMMA Asymmetric ==
  ASSUME NEW p \in Records, NEW q \in Records, Precedes(p, q)
  PROVE  ~ Precedes(q, p) /\ p # q
  BY PrecedesIsAnOrder

\* A page of n pools is not cut by a cap of n or more.
LEMMA PageUncut ==
  ASSUME NEW S \in SUBSET Records, NEW a \in Nat, NEW n \in Nat, NEW c \in Nat, n <= c
  PROVE  Slice(Slice(S, a + 1, a + n), 1, c) = Slice(S, a + 1, a + n)
<1> DEFINE T == Slice(S, a + 1, a + n)
<1>1. T \in SUBSET S /\ T \in SUBSET Records
  BY DEF Slice
<1>2. ASSUME NEW p \in T
      PROVE  Rank(p, T) + 1 <= c
  <2>1. PICK g \in T : \A q \in T \ {g} : Precedes(g, q)
    BY <1>1, <1>2, FirstRecord
  <2>2. a <= Rank(g, S) /\ Rank(p, S) + 1 <= a + n
    <3>1. a + 1 \in Int /\ a + n \in Int
      OBVIOUS
    <3>2. a + 1 <= Rank(g, S) + 1 /\ Rank(p, S) + 1 <= a + n
      BY <1>2, <3>1, SliceMembers
    <3> QED BY <3>2, AboveIsFinite
  <2> DEFINE K == Above(g, S) \union Above(p, T)
  <2>3. K \subseteq S /\ \A r \in K : Precedes(r, p)
    <3>1. g = p \/ Precedes(g, p)
      BY <2>1
    <3>2. \A r \in Above(g, S) : r \in S /\ Precedes(r, p)
      BY <1>1, <2>1, <3>1, PrecedesIsAnOrder DEF Above
    <3>3. \A r \in Above(p, T) : r \in S /\ Precedes(r, p)
      BY <1>1 DEF Above
    <3> QED BY <3>2, <3>3
  <2>4. Above(g, S) \cap Above(p, T) = {}
    <3>1. ASSUME NEW r \in Above(g, S), r \in Above(p, T)
          PROVE  FALSE
      <4>1. r \in T /\ Precedes(r, g)
        BY <3>1 DEF Above
      <4> QED BY <1>1, <2>1, <4>1, Asymmetric
    <3> QED BY <3>1
  <2>5. Cardinality(K) = Rank(g, S) + Rank(p, T)
    <3>1. /\ IsFiniteSet(Above(g, S)) /\ IsFiniteSet(Above(p, T))
          /\ Rank(g, S) \in Nat /\ Rank(p, T) \in Nat
      <4> HIDE DEF T, K
      <4> QED BY <1>1, AboveIsFinite
    <3>2. Cardinality(Above(g, S) \cap Above(p, T)) = 0
      BY <2>4, FS_EmptySet
    <3>3. Cardinality(K) = Cardinality(Above(g, S)) + Cardinality(Above(p, T))
                           - Cardinality(Above(g, S) \cap Above(p, T))
      <4> HIDE DEF T
      <4> QED BY <3>1, FS_Union
    <3> HIDE DEF T, K
    <3> QED BY <3>1, <3>2, <3>3 DEF Rank
  <2>6. Cardinality(K) <= Rank(p, S)
    <3> HIDE DEF K, T
    <3> QED BY <1>1, <1>2, <2>3, EarlierOnesCount
  <2> QED BY <1>1, <2>2, <2>5, <2>6, AboveIsFinite
<1>3. \A p : p \in Slice(T, 1, c) <=> p \in T /\ 1 <= Rank(p, T) + 1 /\ Rank(p, T) + 1 <= c
  <2> HIDE DEF T
  <2> QED BY <1>1, SliceMembers
<1>4. \A p : p \in Slice(T, 1, c) <=> p \in T
  <2> HIDE DEF T
  <2> QED BY <1>1, <1>2, <1>3, AboveIsFinite
<1> HIDE DEF T
<1>5. Slice(T, 1, c) = T
  BY <1>4
<1> QED BY <1>5 DEF T

-----------------------------------------------------------------------------
(* What the merge keeps.                                                    *)

\* A record that is not on the first page has a full page before it.
LEMMA PageIsFull ==
  ASSUME NEW S \in SUBSET Records, NEW n \in Nat, NEW g \in S, g \notin Slice(S, 1, n)
  PROVE  \E A \in SUBSET Slice(S, 1, n) :
           IsFiniteSet(A) /\ n <= Cardinality(A) /\ \A r \in A : r.at >= g.at
<1> DEFINE T == Slice(S, 1, n)
           M == S \ T
<1>1. M \in SUBSET Records /\ g \in M
  OBVIOUS
<1> HIDE DEF M
<1>2. PICK m \in M : \A q \in M \ {m} : Precedes(m, q)
  BY <1>1, FirstRecord
<1>3. n <= Rank(m, S)
  <2>1. m \in S /\ m \notin T
    BY <1>2 DEF M
  <2>2. ~ (1 <= Rank(m, S) + 1 /\ Rank(m, S) + 1 <= n)
    BY <2>1, SliceMembers
  <2> QED BY <2>2, AboveIsFinite
<1>4. Above(m, S) \subseteq T
  <2>1. ASSUME NEW r \in Above(m, S), r \notin T
        PROVE  FALSE
    <3>1. r \in M /\ Precedes(r, m)
      BY <2>1 DEF Above, M
    <3> QED BY <1>1, <1>2, <3>1, Asymmetric
  <2> QED BY <2>1
<1>5. \A r \in Above(m, S) : r.at >= g.at
  <2> SUFFICES ASSUME NEW r \in Above(m, S) PROVE r.at >= g.at
    OBVIOUS
  <2>1. r \in Records /\ m \in Records /\ g \in Records /\ Precedes(r, m)
    BY <1>1 DEF Above
  <2>2. r.at \in Nat /\ m.at \in Nat /\ g.at \in Nat
    BY <2>1, RecordFields
  <2>3. m = g \/ Precedes(m, g)
    BY <1>1, <1>2
  <2> QED BY <2>1, <2>2, <2>3 DEF Precedes
<1> QED BY <1>3, <1>4, <1>5, AboveIsFinite DEF Rank

\* The first page holds whatever is listed and younger than a record that the
\* cap leaves in: the cap's part and DexScreener's do not fill it.
LEMMA PageReachesDown ==
  ASSUME NEW L \in SUBSET Pools, NEW dex \in SUBSET Pools,
         NEW n \in Nat, NEW c \in Nat, NEW h \in Nat, Cardinality(dex) <= h, c + h <= n,
         NEW w \in Slice(Union(dex, Slice({GeckoRecord(q) : q \in L}, 1, n)), 1, c),
         NEW p \in L, GeckoAt[p] > w.at
  PROVE  GeckoRecord(p) \in Slice({GeckoRecord(q) : q \in L}, 1, n)
<1> DEFINE G == {GeckoRecord(q) : q \in L}
           T == Slice(G, 1, n)
           U == Union(dex, T)
           g == GeckoRecord(p)
<1> SUFFICES ASSUME g \notin T PROVE FALSE
  OBVIOUS
<1>1. G \in SUBSET Records /\ g \in G /\ g.at = GeckoAt[p]
  BY DEF Records, GeckoRecord
<1>2. T \in SUBSET G /\ U \in SUBSET Records
  BY <1>1 DEF Slice, Union, Records
<1>3. PICK A \in SUBSET T : IsFiniteSet(A) /\ n <= Cardinality(A) /\ \A r \in A : r.at >= g.at
  <2> HIDE DEF G, g
  <2> QED BY <1>1, PageIsFull
<1>4. w \in U /\ Rank(w, U) + 1 <= c
  <2> HIDE DEF U
  <2>1. 1 \in Int /\ c \in Int
    OBVIOUS
  <2> QED BY <1>2, <2>1, SliceMembers DEF U, T, G
<1> DEFINE B == {r \in A : r.pool \in dex}
           C == A \ B
<1>5. Cardinality(C) <= Rank(w, U) /\ IsFiniteSet(C) /\ Cardinality(C) \in Nat
  <2>1. C \subseteq U
    BY DEF Union
  <2>2. \A r \in C : Precedes(r, w)
    <3> SUFFICES ASSUME NEW r \in C PROVE Precedes(r, w)
      OBVIOUS
    <3>1. r \in Records /\ w \in Records /\ r.at >= GeckoAt[p]
      BY <1>1, <1>2, <1>3, <1>4
    <3>2. r.at \in Nat /\ w.at \in Nat /\ GeckoAt[p] \in Nat
      BY <3>1, RecordFields, DiscoveryAssumption
    <3> QED BY <3>1, <3>2 DEF Precedes
  <2> HIDE DEF C, U
  <2> QED BY <1>2, <1>4, <2>1, <2>2, EarlierOnesCount
<1>6. Cardinality(B) <= h /\ IsFiniteSet(B) /\ Cardinality(B) \in Nat
  <2> DEFINE D == {GeckoRecord(q) : q \in dex}
  <2>1. IsFiniteSet(D) /\ Cardinality(D) <= Cardinality(dex)
    BY GeckoRecordsFinite
  <2>2. B \subseteq D
    <3> SUFFICES ASSUME NEW r \in B PROVE r \in D
      OBVIOUS
    <3>1. PICK q \in L : r = GeckoRecord(q)
      BY <1>2
    <3>2. r.pool = q
      BY <3>1 DEF GeckoRecord
    <3> QED BY <3>1, <3>2
  <2>3. IsFiniteSet(dex)
    BY FS_Subset, DiscoveryAssumption
  <2>4. /\ IsFiniteSet(B) /\ Cardinality(B) <= Cardinality(D)
        /\ Cardinality(B) \in Nat /\ Cardinality(D) \in Nat /\ Cardinality(dex) \in Nat
    <3> HIDE DEF B, D
    <3> QED BY <2>1, <2>2, <2>3, FS_Subset, FS_CardinalityType
  <2> HIDE DEF B, D
  <2> QED BY <2>1, <2>4
<1>7. Cardinality(A) = Cardinality(B) + Cardinality(C)
  <2>1. A = B \union C /\ B \cap C = {}
    OBVIOUS
  <2> HIDE DEF B, C
  <2> QED BY <1>5, <1>6, <2>1, FS_Union, FS_EmptySet
<1>8. Rank(w, U) \in Nat
  BY <1>2, AboveIsFinite
<1> HIDE DEF B, C, U
<1> QED BY <1>3, <1>4, <1>5, <1>6, <1>7, <1>8

-----------------------------------------------------------------------------
(* The inductive invariant.                                                 *)

\* What GeckoTerminal lists.
Feed == {GeckoRecord(p) : p \in listed}

RunIsTyped ==
    /\ setup \in Setups
    /\ listed \subseteq Pools
    /\ candidates \subseteq Pools
    /\ watermark \in MarksOf(candidates) \union {NoMark}
    /\ gap \in BOOLEAN
    /\ step \in {"idle", "fetch", "insert", "decide", "save", "gap"}
    /\ page \in 1 .. setup.maxPages
    /\ fetched \subseteq Records
    /\ next \in {0, page, page + 1}
    /\ newest \in MarksOf(Pools) \union {NoMark}
    /\ known \subseteq listed

\* What a run fetched it inserts before it decides.
Kept ==
    /\ newest \in MarksOf(candidates \union PoolsOf(fetched)) \union {NoMark}
    /\ step # "insert" => PoolsOf(fetched) \subseteq candidates
    /\ step \in {"idle", "fetch"} => fetched = {}
    /\ step = "idle" => page = 1 /\ newest = NoMark

NewestOfRun ==
    \A r \in fetched : newest # NoMark /\ (newest = MarkOf(r) \/ NewerThan(newest, MarkOf(r)))

Met == step = "save" /\ watermark # NoMark => \E r \in fetched : MarkOf(r) = watermark

\* No known pool that is younger than a record of the page is missing.
Dense == \A r \in fetched, p \in known : Younger(p, r) => p \in candidates \union PoolsOf(fetched)

\* With several pages, all that is on the pages so far.
Covered ==
    setup.maxPages > 1 => \A p \in known :
      /\ Rank(GeckoRecord(p), Feed) + 1 <= (page - 1) * PageSize => p \in candidates
      /\ step # "fetch" /\ Rank(GeckoRecord(p), Feed) + 1 <= page * PageSize =>
           p \in candidates \union PoolsOf(fetched)

\* With one page, fewer than the cap are younger than a record of it.
YoungerThan(r) == {p \in known : Younger(p, r)}
Short ==
    setup.maxPages = 1 => \A r \in fetched : Cardinality(YoungerThan(r)) + 1 <= setup.cap

IInv == RunIsTyped /\ Kept /\ NewestOfRun /\ Met /\ Dense /\ Covered /\ Short

LEMMA SetupTyped ==
  ASSUME RunIsTyped
  PROVE  /\ setup.maxPages \in Nat \ {0} /\ setup.cap \in Nat \ {0} /\ setup.hints \in Nat
         /\ PageSize \in Nat \ {0}
         /\ page \in Nat \ {0} /\ page <= setup.maxPages
         /\ \/ setup.maxPages = 1 /\ page = 1 /\ setup.cap + setup.hints <= PageSize
            \/ setup.hints = 0 /\ PageSize <= setup.cap
<1>1. /\ setup.maxPages \in Nat \ {0} /\ setup.cap \in Nat \ {0} /\ setup.hints \in Nat
      /\ PageSize \in Nat \ {0}
  BY DiscoveryAssumption DEF RunIsTyped
<1> QED BY <1>1, SetupAssumption DEF RunIsTyped

LEMMA FeedIsRecords ==
  ASSUME RunIsTyped
  PROVE  /\ Feed \in SUBSET Records
         /\ \A p \in listed : GeckoRecord(p) \in Feed
         /\ \A p \in Pools : GeckoRecord(p).pool = p /\ GeckoRecord(p).at = GeckoAt[p]
  BY DEF RunIsTyped, Feed, Records, GeckoRecord

\* Between runs there is nothing to say.
LEMMA IdleIsFine ==
  ASSUME fetched = {}, known = {}, newest = NoMark, step = "idle", page = 1
  PROVE  Kept /\ NewestOfRun /\ Met /\ Dense /\ Covered /\ Short
  BY DEF Kept, NewestOfRun, Met, Dense, Covered, Short, PoolsOf

LEMMA InitIInv == Init => IInv
<1> SUFFICES ASSUME Init PROVE IInv
  OBVIOUS
<1>1. RunIsTyped
  <2>1. setup \in Setups /\ setup.maxPages \in Nat \ {0}
    BY DiscoveryAssumption DEF Init
  <2>2. page = 1 /\ page \in 1 .. setup.maxPages
    BY <2>1 DEF Init, Idle
  <2> QED BY <2>1, <2>2 DEF Init, Idle, RunIsTyped
<1> QED BY <1>1, IdleIsFine DEF Init, Idle, IInv

-----------------------------------------------------------------------------
(* Steps.                                                                   *)

LEMMA EndStep ==
  ASSUME IInv, EndRun, setup' = setup, listed' = listed, candidates' = candidates, gap' \in BOOLEAN,
         watermark' \in MarksOf(candidates) \union {NoMark}
  PROVE  IInv'
<1>1. fetched' = {} /\ known' = {} /\ newest' = NoMark /\ step' = "idle" /\ page' = 1 /\ next' = 0
  BY DEF EndRun
<1>2. RunIsTyped'
  <2>1. page' \in 1 .. setup.maxPages
    BY <1>1, SetupTyped DEF IInv
  <2> QED BY <1>1, <2>1 DEF IInv, RunIsTyped
<1>3. (Kept /\ NewestOfRun /\ Met /\ Dense /\ Covered /\ Short)'
  BY <1>1 DEF Kept, NewestOfRun, Met, Dense, Covered, Short, PoolsOf
<1> QED BY <1>2, <1>3 DEF IInv

LEMMA PlacesOfPage ==
  ASSUME NEW n \in Nat \ {0}, NEW m \in Nat \ {0}
  PROVE  /\ (n - 1) * m \in Nat /\ n * m \in Nat
         /\ n * m = (n - 1) * m + m
         /\ n = 1 => (n - 1) * m = 0
<1>1. \A i, j \in Nat : i * j \in Nat
  OBVIOUS
<1>2. n - 1 \in Nat /\ m \in Nat /\ n \in Nat
  OBVIOUS
<1>3. (n - 1) * m \in Nat /\ n * m \in Nat
  BY <1>1, <1>2
<1>4. n * m = (n - 1) * m + m
  OBVIOUS
<1>5. n = 1 => (n - 1) * m = 0
  OBVIOUS
<1> QED BY <1>3, <1>4, <1>5

LEMMA StartStep ==
  ASSUME IInv, StartRun
  PROVE  IInv'
<1>1. /\ known' = listed /\ step' = "fetch" /\ step = "idle"
      /\ UNCHANGED <<setup, listed, candidates, watermark, gap, page, fetched, next, newest>>
  BY DEF StartRun
<1>2. page = 1 /\ fetched = {} /\ newest = NoMark
  BY <1>1 DEF IInv, Kept
<1>3. RunIsTyped'
  BY <1>1 DEF IInv, RunIsTyped
<1>4. (Kept /\ NewestOfRun /\ Met /\ Dense /\ Short)'
  BY <1>1, <1>2 DEF Kept, NewestOfRun, Met, Dense, Short, PoolsOf
<1>5. Covered'
  <2> SUFFICES ASSUME NEW p \in known', Rank(GeckoRecord(p), Feed) + 1 <= (page - 1) * PageSize
               PROVE  FALSE
    BY <1>1 DEF Covered, Feed
  <2>1. (page - 1) * PageSize = 0
    BY <1>2, SetupTyped, PlacesOfPage DEF IInv
  <2> QED BY <2>1, AboveIsFinite, FeedIsRecords DEF IInv
<1> QED BY <1>3, <1>4, <1>5 DEF IInv

\* The places of the current page.
LEMMA PageMembers ==
  ASSUME RunIsTyped
  PROVE  LET a == (page - 1) * PageSize
             b == page * PageSize
         IN  /\ a \in Nat /\ b \in Nat /\ b = a + PageSize /\ (page = 1 => a = 0)
             /\ GeckoPage(page) = Slice(Feed, a + 1, b)
             /\ \A r : r \in GeckoPage(page) <=>
                         r \in Feed /\ a + 1 <= Rank(r, Feed) + 1 /\ Rank(r, Feed) + 1 <= b
<1> DEFINE a == (page - 1) * PageSize
           b == page * PageSize
<1>1. a \in Nat /\ b \in Nat /\ b = a + PageSize /\ (page = 1 => a = 0)
  BY SetupTyped, PlacesOfPage
<1>2. GeckoPage(page) = Slice(Feed, a + 1, b)
  BY DEF GeckoPage, Feed
<1> HIDE DEF a, b
<1>3. a + 1 \in Int /\ b \in Int
  BY <1>1
<1>4. \A r : r \in Slice(Feed, a + 1, b) <=>
               r \in Feed /\ a + 1 <= Rank(r, Feed) + 1 /\ Rank(r, Feed) + 1 <= b
  BY <1>3, FeedIsRecords, SliceMembers
<1> QED BY <1>1, <1>2, <1>4 DEF a, b

\* What one page holds of what the run knows, before the merge.
LEMMA PageHolds ==
  ASSUME RunIsTyped, Covered, NEW r \in GeckoPage(page),
         NEW p \in known, GeckoAt[p] > r.at
  PROVE  \/ p \in candidates /\ setup.maxPages > 1
         \/ GeckoRecord(p) \in GeckoPage(page)
<1> DEFINE a == (page - 1) * PageSize
           b == page * PageSize
           g == GeckoRecord(p)
<1>1. /\ a \in Nat /\ b \in Nat /\ (page = 1 => a = 0)
      /\ \A q : q \in GeckoPage(page) <=>
                  q \in Feed /\ a + 1 <= Rank(q, Feed) + 1 /\ Rank(q, Feed) + 1 <= b
  BY PageMembers
<1>2. g \in Feed /\ g.at = GeckoAt[p] /\ Feed \in SUBSET Records
  BY FeedIsRecords DEF RunIsTyped
<1>3. r \in Feed /\ Precedes(g, r)
  BY <1>1, <1>2 DEF Precedes
<1>4. Rank(g, Feed) < Rank(r, Feed) /\ Rank(g, Feed) \in Nat /\ Rank(r, Feed) \in Nat
  BY <1>2, <1>3, RankOrder, AboveIsFinite
<1>5. setup.maxPages > 1 => (Rank(g, Feed) + 1 <= a => p \in candidates)
  BY DEF Covered
<1>6. page = 1 \/ setup.maxPages > 1
  BY SetupTyped
<1> HIDE DEF a, b, g
<1>7. CASE Rank(g, Feed) + 1 <= a
  BY <1>1, <1>4, <1>5, <1>6, <1>7
<1>8. CASE ~ (Rank(g, Feed) + 1 <= a)
  <2>1. Rank(r, Feed) + 1 <= b
    BY <1>1
  <2>2. g \in GeckoPage(page)
    BY <1>1, <1>2, <1>4, <1>8, <2>1
  <2> QED BY <2>2 DEF g
<1> QED BY <1>7, <1>8

\* What DexScreener resolves.
LEMMA HintsTyped ==
  ASSUME RunIsTyped, NEW dex \in Hints
  PROVE  /\ dex \in SUBSET Pools /\ IsFiniteSet(dex) /\ Cardinality(dex) \in Nat
         /\ Cardinality(dex) <= setup.hints
         /\ setup.hints = 0 => dex = {}
<1>1. dex \in SUBSET Pools /\ (dex = {} \/ Cardinality(dex) <= setup.hints)
  BY DEF Hints
<1>2. IsFiniteSet(dex) /\ Cardinality(dex) \in Nat /\ (Cardinality(dex) = 0 <=> dex = {})
  BY <1>1, FS_Subset, FS_CardinalityType, FS_EmptySet, DiscoveryAssumption
<1> QED BY <1>1, <1>2, SetupTyped

LEMMA UnionIsRecords ==
  ASSUME RunIsTyped, NEW dex \in SUBSET Pools
  PROVE  /\ GeckoPage(page) \in SUBSET Feed /\ GeckoPage(page) \in SUBSET Records
         /\ Union(dex, GeckoPage(page)) \in SUBSET Records
<1>1. GeckoPage(page) \in SUBSET Feed
  BY DEF GeckoPage, Feed, Slice
<1>2. GeckoPage(page) \in SUBSET Records
  BY <1>1, FeedIsRecords
<1> QED BY <1>1, <1>2 DEF Union, Records

LEMMA MergeMembers ==
  ASSUME RunIsTyped, NEW dex \in SUBSET Pools
  PROVE  LET U == Union(dex, GeckoPage(page))
         IN  \A r : r \in Merge(dex, GeckoPage(page)) <=> r \in U /\ Rank(r, U) + 1 <= setup.cap
<1> DEFINE U == Union(dex, GeckoPage(page))
<1>1. U \in SUBSET Records /\ setup.cap \in Int
  BY UnionIsRecords, SetupTyped
<1>2. Merge(dex, GeckoPage(page)) = Slice(U, 1, setup.cap)
  BY DEF Merge
<1> HIDE DEF U
<1>3. \A r : r \in Slice(U, 1, setup.cap) <=>
               r \in U /\ 1 <= Rank(r, U) + 1 /\ Rank(r, U) + 1 <= setup.cap
  BY <1>1, SliceMembers
<1>4. \A r : Rank(r, U) \in Nat
  BY <1>1, AboveIsFinite
<1>5. \A r : r \in Slice(U, 1, setup.cap) <=> r \in U /\ Rank(r, U) + 1 <= setup.cap
  BY <1>3, <1>4
<1> QED BY <1>2, <1>5 DEF U

\* The pages of one source are kept whole.
LEMMA OneSource ==
  ASSUME RunIsTyped, NEW dex \in Hints, setup.hints = 0, PageSize <= setup.cap
  PROVE  /\ Union(dex, GeckoPage(page)) = GeckoPage(page)
         /\ Merge(dex, GeckoPage(page)) = GeckoPage(page)
<1>1. dex = {}
  BY HintsTyped
<1>2. Union(dex, GeckoPage(page)) = GeckoPage(page)
  BY <1>1 DEF Union
<1> DEFINE a == (page - 1) * PageSize
           b == page * PageSize
<1>3. a \in Nat /\ b = a + PageSize /\ GeckoPage(page) = Slice(Feed, a + 1, b)
  BY PageMembers
<1> HIDE DEF a, b
<1>4. PageSize \in Nat /\ setup.cap \in Nat /\ Feed \in SUBSET Records
  BY SetupTyped, FeedIsRecords
<1>5. Slice(Slice(Feed, a + 1, a + PageSize), 1, setup.cap) = Slice(Feed, a + 1, a + PageSize)
  BY <1>3, <1>4, PageUncut
<1> QED BY <1>2, <1>3, <1>5 DEF Merge

\* With one page, a known pool younger than what the merge keeps is before it.
LEMMA YoungerPrecede ==
  ASSUME RunIsTyped, Covered, setup.maxPages = 1, NEW dex \in Hints,
         NEW r \in Merge(dex, GeckoPage(page)), NEW p \in known, Younger(p, r)
  PROVE  \E t \in Union(dex, GeckoPage(page)) : t.pool = p /\ Precedes(t, r)
<1> DEFINE U == Union(dex, GeckoPage(page))
           g == GeckoRecord(p)
<1>1. /\ p \in listed /\ listed \in SUBSET Pools /\ p \in Pools
      /\ dex \in SUBSET Pools /\ Cardinality(dex) <= setup.hints
  BY HintsTyped DEF RunIsTyped
<1>2. GeckoAt[p] > r.at /\ (setup.hints > 0 => DexAt[p] > r.at)
  BY DEF Younger
<1>3. g \in GeckoPage(page)
  <2>1. CASE setup.cap + setup.hints <= PageSize
    <3>1. page = 1 /\ (page - 1) * PageSize + 1 = 1 /\ page * PageSize = PageSize
      BY SetupTyped
    <3>2. /\ GeckoPage(page) = Slice({GeckoRecord(q) : q \in listed}, 1, PageSize)
          /\ Merge(dex, GeckoPage(page)) = Slice(Union(dex, GeckoPage(page)), 1, setup.cap)
      BY <3>1 DEF GeckoPage, Merge
    <3>3. r \in Slice(Union(dex, Slice({GeckoRecord(q) : q \in listed}, 1, PageSize)), 1, setup.cap)
      BY <3>2
    <3>4. PageSize \in Nat /\ setup.cap \in Nat /\ setup.hints \in Nat
      BY SetupTyped
    <3> QED BY <1>1, <1>2, <2>1, <3>2, <3>3, <3>4, PageReachesDown
  <2>2. CASE setup.hints = 0 /\ PageSize <= setup.cap
    <3>1. r \in GeckoPage(page)
      BY <2>2, OneSource
    <3> QED BY <1>2, <3>1, PageHolds, SetupTyped
  <2> QED BY <2>1, <2>2, SetupTyped
<1>4. CASE p \in dex
  <2>1. DexRecord(p) \in U
    BY <1>4 DEF Union
  <2>2. DexRecord(p).pool = p /\ DexRecord(p).at = DexAt[p]
    BY DEF DexRecord
  <2>3. setup.hints > 0
    BY <1>4, HintsTyped, SetupTyped
  <2> QED BY <1>2, <2>1, <2>2, <2>3 DEF Precedes
<1>5. CASE p \notin dex
  <2>1. g.pool = p /\ g.at = GeckoAt[p]
    BY DEF GeckoRecord
  <2>2. g \in U
    BY <1>3, <1>5, <2>1 DEF Union
  <2> QED BY <1>2, <2>1, <2>2 DEF Precedes
<1> QED BY <1>4, <1>5

\* So it is kept as well, and they are fewer than the cap.
LEMMA YoungerAreKept ==
  ASSUME RunIsTyped, Covered, setup.maxPages = 1, NEW dex \in Hints,
         NEW r \in Merge(dex, GeckoPage(page))
  PROVE  /\ YoungerThan(r) \subseteq PoolsOf(Merge(dex, GeckoPage(page)))
         /\ Cardinality(YoungerThan(r)) + 1 <= setup.cap
<1> DEFINE U == Union(dex, GeckoPage(page))
           K == Above(r, U)
           F == Merge(dex, GeckoPage(page))
<1>1. /\ U \in SUBSET Records /\ setup.cap \in Nat
      /\ \A t : t \in F <=> t \in U /\ Rank(t, U) + 1 <= setup.cap
  BY HintsTyped, UnionIsRecords, MergeMembers, SetupTyped
<1>2. \A p \in YoungerThan(r) : \E t \in K : t.pool = p
  BY YoungerPrecede DEF YoungerThan, Above
<1> HIDE DEF U
<1>3. r \in U /\ r \in F /\ Rank(r, U) + 1 <= setup.cap
  BY <1>1
<1> HIDE DEF F
<1>4. K \subseteq F
  <2> SUFFICES ASSUME NEW t \in K PROVE t \in F
    OBVIOUS
  <2>1. t \in U /\ Precedes(t, r)
    BY DEF Above
  <2>2. Rank(t, U) < Rank(r, U) /\ Rank(t, U) \in Nat /\ Rank(r, U) \in Nat
    BY <1>1, <1>3, <2>1, RankOrder, AboveIsFinite
  <2> QED BY <1>1, <1>3, <2>1, <2>2
<1>5. IsFiniteSet(K) /\ Cardinality(K) = Rank(r, U) /\ Rank(r, U) \in Nat
  BY <1>1, AboveIsFinite DEF Rank
<1> DEFINE f == [t \in K |-> t.pool]
           T == {t.pool : t \in K}
<1>6. T = {f[x] : x \in K} /\ DOMAIN f = K /\ f \in [K -> T]
  OBVIOUS
<1>7. YoungerThan(r) \subseteq T
  BY <1>2
<1>8. T \subseteq PoolsOf(F)
  BY <1>4 DEF PoolsOf
<1>9. IsFiniteSet(T) /\ Cardinality(T) <= Cardinality(K)
  <2> HIDE DEF f, T, K
  <2> QED BY <1>5, <1>6, ImageIsNoLarger
<1> HIDE DEF T, K, f
<1>10. /\ Cardinality(YoungerThan(r)) <= Cardinality(T)
       /\ Cardinality(YoungerThan(r)) \in Nat /\ Cardinality(T) \in Nat
  BY <1>7, <1>9, FS_Subset, FS_CardinalityType
<1> QED BY <1>1, <1>3, <1>5, <1>7, <1>8, <1>9, <1>10 DEF F

LEMMA FetchStep ==
  ASSUME IInv, NEW dex \in Hints, FetchPage(dex)
  PROVE  IInv'
<1>1. /\ step = "fetch" /\ step' = "insert"
      /\ fetched' = Merge(dex, GeckoPage(page))
      /\ next' \in {page, 0, page + 1}
      /\ UNCHANGED <<setup, listed, candidates, watermark, gap, page, known>>
  BY DEF FetchPage, NextPages
<1>2. /\ RunIsTyped /\ Kept /\ Covered /\ fetched = {}
      /\ listed \in SUBSET Pools /\ known \subseteq listed /\ candidates \subseteq Pools
  BY <1>1 DEF IInv, RunIsTyped, Kept
<1>3. fetched' \in SUBSET Records
  BY <1>1, <1>2, HintsTyped, UnionIsRecords, MergeMembers
<1>4. /\ newest' \in MarksOf(candidates \union PoolsOf(fetched')) \union {NoMark}
      /\ newest' \in MarksOf(Pools) \union {NoMark}
      /\ NewestOfRun'
  <2> DEFINE S == {MarkOf(r) : r \in fetched'} \union ({newest} \ {NoMark})
  <2>1. newest' = IF S = {} THEN NoMark ELSE Newest(S)
    BY DEF FetchPage
  <2>2. PoolsOf(fetched') \subseteq Pools /\ {MarkOf(r) : r \in fetched'} \subseteq MarksOf(PoolsOf(fetched'))
    BY <1>3, MarksOfRecords
  <2>3. newest \in MarksOf(candidates) \union {NoMark}
    BY <1>2 DEF Kept, PoolsOf
  <2>4. \A A, B : A \subseteq B => MarksOf(A) \subseteq MarksOf(B)
    BY DEF MarksOf
  <2>5. S \subseteq MarksOf(candidates \union PoolsOf(fetched'))
    <3>1. MarksOf(PoolsOf(fetched')) \subseteq MarksOf(candidates \union PoolsOf(fetched'))
      BY <2>4
    <3>2. MarksOf(candidates) \subseteq MarksOf(candidates \union PoolsOf(fetched'))
      BY <2>4
    <3> QED BY <2>2, <2>3, <3>1, <3>2
  <2>6. S \subseteq MarksOf(Pools)
    <3>1. MarksOf(candidates \union PoolsOf(fetched')) \subseteq MarksOf(Pools)
      BY <1>2, <2>2, <2>4
    <3> QED BY <2>5, <3>1
  <2>7. \A r \in fetched' : MarkOf(r) \in S
    OBVIOUS
  <2> HIDE DEF S
  <2>8. CASE S = {}
    BY <2>1, <2>7, <2>8 DEF NewestOfRun
  <2>9. CASE S # {}
    <3>1. newest' \in S /\ \A q \in S \ {newest'} : NewerThan(newest', q)
      BY <2>1, <2>6, <2>9, NewestIsNewest
    <3>2. newest' # NoMark
      BY <2>6, <3>1, MarkFields
    <3>3. NewestOfRun'
      BY <2>7, <3>1, <3>2 DEF NewestOfRun
    <3> QED BY <2>5, <2>6, <3>1, <3>3
  <2> QED BY <2>8, <2>9
<1>5. RunIsTyped'
  <2>1. next' \in {0, page', page' + 1}
    BY <1>1
  <2> QED BY <1>1, <1>2, <1>3, <1>4, <2>1 DEF RunIsTyped
<1>6. Kept' /\ Met'
  BY <1>1, <1>4 DEF Kept, Met
\* What a page of one source holds of the pools known.
<1>7. ASSUME setup.hints = 0, PageSize <= setup.cap, NEW p \in known,
             GeckoRecord(p) \in GeckoPage(page)
      PROVE  p \in PoolsOf(fetched')
  <2>1. GeckoRecord(p) \in fetched' /\ GeckoRecord(p).pool = p
    BY <1>1, <1>2, <1>7, OneSource DEF GeckoRecord
  <2> QED BY <2>1 DEF PoolsOf
<1>8. Dense'
  <2> SUFFICES ASSUME NEW r \in fetched', NEW p \in known, Younger(p, r)
               PROVE  p \in candidates \union PoolsOf(fetched')
    BY <1>1 DEF Dense, Younger
  <2>1. CASE setup.maxPages = 1
    BY <1>1, <1>2, <2>1, YoungerAreKept DEF YoungerThan
  <2>2. CASE setup.hints = 0 /\ PageSize <= setup.cap
    <3>1. r \in GeckoPage(page) /\ GeckoAt[p] > r.at
      BY <1>1, <1>2, <2>2, OneSource DEF Younger
    <3>2. p \in candidates \/ GeckoRecord(p) \in GeckoPage(page)
      BY <1>2, <3>1, PageHolds
    <3> QED BY <1>7, <2>2, <3>2
  <2> QED BY <1>2, <2>1, <2>2, SetupTyped
<1>9. Covered'
  <2> SUFFICES ASSUME setup.maxPages > 1, NEW p \in known
               PROVE  LET g == GeckoRecord(p)
                      IN  /\ Rank(g, Feed) + 1 <= (page - 1) * PageSize => p \in candidates
                          /\ Rank(g, Feed) + 1 <= page * PageSize =>
                               p \in candidates \union PoolsOf(fetched')
    BY <1>1 DEF Covered, Feed
  <2> DEFINE g == GeckoRecord(p)
             a == (page - 1) * PageSize
             b == page * PageSize
  <2>1. Rank(g, Feed) + 1 <= a => p \in candidates
    BY <1>2 DEF Covered
  <2>2. /\ a \in Nat /\ b \in Nat
        /\ \A r : r \in GeckoPage(page) <=>
                    r \in Feed /\ a + 1 <= Rank(r, Feed) + 1 /\ Rank(r, Feed) + 1 <= b
    BY <1>2, PageMembers
  <2>3. g \in Feed /\ Rank(g, Feed) \in Nat
    BY <1>2, FeedIsRecords, AboveIsFinite
  <2>4. setup.hints = 0 /\ PageSize <= setup.cap
    BY <1>2, SetupTyped
  <2>5. g \in GeckoPage(page) => p \in PoolsOf(fetched')
    BY <1>7, <2>4
  <2> HIDE DEF a, b, g
  <2>6. Rank(g, Feed) + 1 <= b => p \in candidates \union PoolsOf(fetched')
    BY <2>1, <2>2, <2>3, <2>5
  <2> QED BY <2>1, <2>6 DEF a, b, g
<1>10. Short'
  <2> SUFFICES ASSUME setup.maxPages = 1, NEW r \in fetched'
               PROVE  Cardinality(YoungerThan(r)) + 1 <= setup.cap
    BY <1>1 DEF Short, YoungerThan, Younger
  <2> QED BY <1>1, <1>2, YoungerAreKept
<1> QED BY <1>4, <1>5, <1>6, <1>8, <1>9, <1>10 DEF IInv

LEMMA InsertStep ==
  ASSUME IInv, InsertPage
  PROVE  IInv'
<1>1. /\ candidates' = candidates \union PoolsOf(fetched)
      /\ step = "insert" /\ step' = "decide"
      /\ UNCHANGED <<setup, listed, watermark, gap, page, fetched, next, newest, known>>
  BY DEF InsertPage
<1>2. PoolsOf(fetched) \subseteq Pools
  BY MarksOfRecords DEF IInv, RunIsTyped
<1>3. watermark \in MarksOf(candidates') \union {NoMark}
  BY <1>1 DEF IInv, RunIsTyped, MarksOf
<1>4. RunIsTyped'
  BY <1>1, <1>2, <1>3 DEF IInv, RunIsTyped
<1>5. Kept'
  <2>1. candidates' \union PoolsOf(fetched') = candidates \union PoolsOf(fetched)
    BY <1>1
  <2>2. PoolsOf(fetched') \subseteq candidates'
    BY <1>1
  <2> QED BY <1>1, <2>1, <2>2 DEF IInv, Kept
<1>6. (NewestOfRun /\ Met /\ Short)'
  BY <1>1 DEF IInv, NewestOfRun, Met, Short, YoungerThan, Younger
<1>7. Dense' /\ Covered'
  <2>1. Dense'
    BY <1>1 DEF IInv, Dense, Younger
  <2>2. Covered'
    BY <1>1 DEF IInv, Covered, Feed
  <2> QED BY <2>1, <2>2
<1> QED BY <1>4, <1>5, <1>6, <1>7 DEF IInv

LEMMA DecideStep ==
  ASSUME IInv, Meet \/ FirstScanEnds \/ FallShort
  PROVE  IInv'
<1>1. /\ step = "decide" /\ step' \in {"save", "gap"}
      /\ step' = "save" /\ watermark # NoMark => \E r \in fetched : MarkOf(r) = watermark
      /\ UNCHANGED <<setup, listed, candidates, watermark, gap, page, fetched, next, newest, known>>
  BY DEF Meet, FirstScanEnds, FallShort, Overlaps
<1>2. RunIsTyped' /\ Kept'
  BY <1>1 DEF IInv, RunIsTyped, Kept
<1>3. (NewestOfRun /\ Met /\ Dense /\ Short)'
  BY <1>1 DEF IInv, NewestOfRun, Met, Dense, Short, YoungerThan, Younger
<1>4. Covered'
  BY <1>1 DEF IInv, Covered, Feed
<1> QED BY <1>2, <1>3, <1>4 DEF IInv

LEMMA TurnStep ==
  ASSUME IInv, TurnPage
  PROVE  IInv'
<1>1. /\ step = "decide" /\ step' = "fetch"
      /\ page' = next /\ next \notin {0, page} /\ page < setup.maxPages
      /\ fetched' = {} /\ next' = 0
      /\ UNCHANGED <<setup, listed, candidates, watermark, gap, newest, known>>
  BY DEF TurnPage, MorePages
<1>2. page' = page + 1 /\ page' \in 1 .. setup.maxPages /\ page' - 1 = page /\ page \in Nat
  BY <1>1, SetupTyped DEF IInv, RunIsTyped
<1>3. RunIsTyped'
  BY <1>1, <1>2 DEF IInv, RunIsTyped
<1>4. PoolsOf(fetched) \subseteq candidates
  BY <1>1 DEF IInv, Kept
<1>5. Kept' /\ (NewestOfRun /\ Met /\ Dense /\ Short)'
  <2>1. candidates' \union PoolsOf(fetched') = candidates \union PoolsOf(fetched)
    BY <1>1, <1>4 DEF PoolsOf
  <2> QED BY <1>1, <2>1 DEF IInv, Kept, NewestOfRun, Met, Dense, Short
<1>6. Covered'
  <2> SUFFICES ASSUME setup.maxPages > 1, NEW p \in known,
                      Rank(GeckoRecord(p), Feed) + 1 <= page * PageSize
               PROVE  p \in candidates
    BY <1>1, <1>2 DEF Covered, Feed
  <2> QED BY <1>1, <1>4 DEF IInv, Covered
<1> QED BY <1>3, <1>5, <1>6 DEF IInv

\* A pool that is listed late moves the others down, never up.
LEMMA ListStep ==
  ASSUME IInv, NEW p \in Pools, List(p)
  PROVE  IInv'
<1>1. /\ listed' = listed \union {p}
      /\ UNCHANGED <<setup, candidates, watermark, gap, step, page, fetched, next, newest, known>>
  BY DEF List, run
<1>2. RunIsTyped' /\ Kept'
  BY <1>1 DEF IInv, RunIsTyped, Kept
<1>3. (NewestOfRun /\ Met /\ Dense /\ Short)'
  BY <1>1 DEF IInv, NewestOfRun, Met, Dense, Short, YoungerThan, Younger
<1>4. Covered'
  <2> SUFFICES ASSUME setup.maxPages > 1, NEW q \in known
               PROVE  LET g == GeckoRecord(q)
                      IN  /\ Rank(g, Feed') + 1 <= (page - 1) * PageSize => q \in candidates
                          /\ step # "fetch" /\ Rank(g, Feed') + 1 <= page * PageSize =>
                               q \in candidates \union PoolsOf(fetched)
    BY <1>1 DEF Covered
  <2> DEFINE g == GeckoRecord(q)
             a == (page - 1) * PageSize
             b == page * PageSize
  <2>1. Feed \in SUBSET Records /\ Feed' \in SUBSET Records /\ Feed \subseteq Feed'
    BY <1>1, <1>2, FeedIsRecords DEF IInv, Feed, Records, RunIsTyped
  <2>2. Rank(g, Feed) <= Rank(g, Feed') /\ Rank(g, Feed) \in Nat /\ Rank(g, Feed') \in Nat
    BY <2>1, RankGrows, AboveIsFinite
  <2>3. a \in Nat /\ b \in Nat
    BY SetupTyped, PlacesOfPage DEF IInv
  <2>4. /\ Rank(g, Feed) + 1 <= a => q \in candidates
        /\ step # "fetch" /\ Rank(g, Feed) + 1 <= b => q \in candidates \union PoolsOf(fetched)
    BY DEF IInv, Covered
  <2> HIDE DEF a, b, g
  <2>5. /\ Rank(g, Feed') + 1 <= a => q \in candidates
        /\ step # "fetch" /\ Rank(g, Feed') + 1 <= b => q \in candidates \union PoolsOf(fetched)
    BY <2>2, <2>3, <2>4
  <2> QED BY <2>5 DEF a, b, g
<1> QED BY <1>2, <1>3, <1>4 DEF IInv

LEMMA SaveStep ==
  ASSUME IInv, SaveWatermark
  PROVE  IInv'
<1>1. step = "save" /\ watermark' \in {watermark, newest}
  BY DEF SaveWatermark, Mark
<1>2. candidates \union PoolsOf(fetched) = candidates
  BY <1>1 DEF IInv, Kept
<1>3. watermark' \in MarksOf(candidates) \union {NoMark}
  BY <1>1, <1>2 DEF IInv, RunIsTyped, Kept
<1> QED BY <1>3, EndStep DEF SaveWatermark, IInv, RunIsTyped

LEMMA StepIInv == IInv /\ [Next]_vars => IInv'
<1> SUFFICES ASSUME IInv, [Next]_vars PROVE IInv'
  OBVIOUS
<1>1. CASE RecordCoverageGap \/ Abort
  BY <1>1, EndStep DEF RecordCoverageGap, Abort, IInv, RunIsTyped
<1>2. CASE UNCHANGED vars
  BY <1>2 DEF vars, IInv, RunIsTyped, Kept, NewestOfRun, Met, Dense, Covered, Short,
              YoungerThan, Younger, Feed
<1> QED
  BY <1>1, <1>2, StartStep, FetchStep, InsertStep, DecideStep, TurnStep, SaveStep, ListStep DEF Next

THEOREM InvHolds == Spec => []IInv
  BY InitIInv, StepIInv, PTL DEF Spec

-----------------------------------------------------------------------------
(* Theorems.                                                                *)

\* Every reachable state is of its type; the watermark is always a mark that
\* one of the sources gives a candidate.
THEOREM TypeCorrect == Spec => []TypeOK
<1>1. IInv => TypeOK
  <2> SUFFICES ASSUME IInv PROVE TypeOK
    OBVIOUS
  <2>1. next \in Nat
    BY SetupTyped DEF IInv, RunIsTyped
  <2> QED BY <2>1 DEF IInv, RunIsTyped, TypeOK
<1> QED BY <1>1, InvHolds, PTL

\* Only a run that met the watermark replaces it, by its newest pool.
LEMMA WatermarkChanges ==
  ASSUME IInv, [Next]_vars, watermark \notin {NoMark, watermark'}
  PROVE  /\ PoolsOf(fetched) \subseteq candidates
         /\ \E r \in fetched : watermark = MarkOf(r) /\ watermark.at = r.at
         /\ watermark' = newest /\ NewerThan(newest, watermark)
<1>1. SaveWatermark
  BY DEF Next, StartRun, FetchPage, InsertPage, Meet, FirstScanEnds, TurnPage, FallShort,
         RecordCoverageGap, Abort, List, vars
<1>2. step = "save" /\ watermark' = newest
  BY <1>1 DEF SaveWatermark, Mark
<1>3. PICK r \in fetched : watermark = MarkOf(r)
  BY <1>2 DEF IInv, Met
<1>4. watermark.at = r.at
  BY <1>3, RecordFields DEF IInv, RunIsTyped
<1>5. PoolsOf(fetched) \subseteq candidates
  BY <1>2 DEF IInv, Kept
<1>6. NewerThan(newest, watermark)
  BY <1>2, <1>3 DEF IInv, NewestOfRun
<1> QED BY <1>2, <1>3, <1>4, <1>5, <1>6

\* The watermark only ever moves to a younger mark, whichever source gave it.
THEOREM WatermarkAlwaysAdvances == Spec => WatermarkAdvances
<1>1. IInv /\ [Next]_vars => [watermark \notin {NoMark, watermark'} => NewerThan(watermark', watermark)]_vars
  BY WatermarkChanges
<1> QED BY <1>1, InvHolds, PTL DEF Spec, WatermarkAdvances

\* It never moves over a pool that GeckoTerminal listed when the run began,
\* that is younger by every account that counts, and that is not a candidate,
\* whatever else DexScreener put into the merge.
THEOREM NeverASilentHole == Spec => NoSilentHole
<1> DEFINE Sound == watermark \notin {NoMark, watermark'} =>
                      \A p \in known : Younger(p, watermark) => p \in candidates
<1>1. IInv /\ [Next]_vars => [Sound]_vars
  BY WatermarkChanges DEF IInv, Dense, Younger
<1> QED BY <1>1, InvHolds, PTL DEF Spec, NoSilentHole

\* With one page, it moves only when fewer younger pools were known than the
\* merge keeps, whatever DexScreener shows.
THEOREM OnePageFallsBehind == Spec => BehindForGood
<1> DEFINE Near == setup.maxPages = 1 /\ watermark \notin {NoMark, watermark'} =>
                     Cardinality({p \in known : Younger(p, watermark)}) < setup.cap
<1>1. IInv /\ [Next]_vars => [Near]_vars
  <2> SUFFICES ASSUME IInv, [Next]_vars, setup.maxPages = 1, watermark \notin {NoMark, watermark'}
               PROVE  Cardinality({p \in known : Younger(p, watermark)}) < setup.cap
    OBVIOUS
  <2> DEFINE K == {p \in known : Younger(p, watermark)}
  <2>1. PICK r \in fetched : watermark.at = r.at
    BY WatermarkChanges
  <2>2. K = YoungerThan(r)
    BY <2>1 DEF YoungerThan, Younger
  <2>3. Cardinality(YoungerThan(r)) + 1 <= setup.cap
    BY DEF IInv, Short
  <2>4. K \in SUBSET Pools
    BY DEF IInv, RunIsTyped
  <2>5. Cardinality(K) \in Nat
    BY <2>4, FS_Subset, FS_CardinalityType, DiscoveryAssumption
  <2> HIDE DEF K
  <2>6. Cardinality(K) < setup.cap
    BY <2>2, <2>3, <2>5, SetupTyped DEF IInv
  <2> QED BY <2>6 DEF K
<1> QED BY <1>1, InvHolds, PTL DEF Spec, BehindForGood
=============================================================================
