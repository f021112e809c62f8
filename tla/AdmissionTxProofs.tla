------------------------- MODULE AdmissionTxProofs -------------------------
(***************************************************************************)
(* Proofs about AdmissionTx for any number of callers, keys and days and     *)
(* any limits.                                                              *)
(***************************************************************************)
EXTENDS AdmissionTx, FiniteSetTheorems, SequenceTheorems, TLAPS

-----------------------------------------------------------------------------
(* What the counts of a ledger do when a row is appended, when a row changes  *)
(* state, and when an old copy is compared with the ledger of now.            *)

\* The sets a ledger is counted by are finite, so their counts are numbers.
LEMMA CountsAreNaturals ==
    ASSUME NEW K, NEW D, NEW l \in Seq(Row(K, D)), NEW d
    PROVE  /\ IsFiniteSet(ActiveRows(l)) /\ ActiveCount(l) \in Nat
           /\ IsFiniteSet(RowsOfDay(l, d)) /\ DayCount(l, d) \in Nat
<1>1. Len(l) \in Nat
  BY LenProperties
<1>2. IsFiniteSet(Rows(l))
  BY <1>1, FS_Interval DEF Rows
<1>3. IsFiniteSet(ActiveRows(l)) /\ IsFiniteSet(RowsOfDay(l, d))
  BY <1>2, FS_Subset DEF ActiveRows, RowsOfDay
<1> QED
  BY <1>3, FS_CardinalityType DEF ActiveCount, DayCount

\* m is l with row r appended.
Appends(l, m, r) == m = Append(l, r)

\* Appending keeps the old rows and puts the new one last.
LEMMA AppendRow ==
    ASSUME NEW K, NEW D, NEW l \in Seq(Row(K, D)), NEW r \in Row(K, D),
           NEW m, Appends(l, m, r)
    PROVE  /\ m \in Seq(Row(K, D))
           /\ Len(l) \in Nat
           /\ Len(m) = Len(l) + 1
           /\ Rows(m) = Rows(l) \union {Len(l) + 1}
           /\ Len(l) + 1 \notin Rows(l)
           /\ \A i \in Rows(l) : m[i] = l[i]
           /\ m[Len(l) + 1] = r
<1>1. Len(l) \in Nat
  BY LenProperties
<1>2. /\ m \in Seq(Row(K, D))
      /\ Len(m) = Len(l) + 1
      /\ \A i \in 1 .. Len(l) : m[i] = l[i]
      /\ m[Len(l) + 1] = r
  BY AppendProperties DEF Appends
<1> QED
  BY <1>1, <1>2 DEF Rows

\* The fields of a new row.
LEMMA PendingRowFields ==
    ASSUME NEW K, NEW D, NEW k \in K, NEW d \in D
    PROVE  /\ PendingRow(k, d) \in Row(K, D)
           /\ PendingRow(k, d).key = k
           /\ PendingRow(k, d).day = d
           /\ PendingRow(k, d).state \in ActiveStates
BY DEF PendingRow, Row, PositionStates, ActiveStates

\* An appended PENDING row costs one slot and one unit of its day's quota.
LEMMA AppendPendingCounts ==
    ASSUME NEW K, NEW D, NEW l \in Seq(Row(K, D)), NEW k \in K, NEW d \in D, NEW e \in D,
           NEW m, Appends(l, m, PendingRow(k, d))
    PROVE  /\ ActiveCount(m) = ActiveCount(l) + 1
           /\ DayCount(m, e) = IF e = d THEN DayCount(l, e) + 1 ELSE DayCount(l, e)
<1>1. /\ Rows(m) = Rows(l) \union {Len(l) + 1}
      /\ Len(l) + 1 \notin Rows(l)
      /\ \A i \in Rows(l) : m[i] = l[i]
      /\ m[Len(l) + 1] = PendingRow(k, d)
  BY PendingRowFields, AppendRow
<1>2. m[Len(l) + 1].state \in ActiveStates /\ m[Len(l) + 1].day = d
  BY <1>1, PendingRowFields
<1>3. IsFiniteSet(ActiveRows(l)) /\ IsFiniteSet(RowsOfDay(l, e))
  BY CountsAreNaturals
<1>4. ActiveRows(m) = ActiveRows(l) \union {Len(l) + 1} /\ Len(l) + 1 \notin ActiveRows(l)
  BY <1>1, <1>2 DEF ActiveRows
<1>5. ActiveCount(m) = ActiveCount(l) + 1
  BY <1>3, <1>4, FS_AddElement DEF ActiveCount
<1>6. CASE e = d
  <2>1. RowsOfDay(m, e) = RowsOfDay(l, e) \union {Len(l) + 1}
        /\ Len(l) + 1 \notin RowsOfDay(l, e)
    BY <1>1, <1>2, <1>6 DEF RowsOfDay
  <2>2. DayCount(m, e) = DayCount(l, e) + 1
    BY <2>1, <1>3, FS_AddElement DEF DayCount
  <2> QED
    BY <2>2, <1>5, <1>6
<1>7. CASE e # d
  <2>1. RowsOfDay(m, e) = RowsOfDay(l, e)
    BY <1>1, <1>2, <1>7 DEF RowsOfDay
  <2> QED
    BY <2>1, <1>5, <1>7 DEF DayCount
<1> QED
  BY <1>6, <1>7

\* An edition with no new row holds as many rows of a day and no more active
\* positions, so a decision taken on the old one is still sound.
LEMMA SameLength ==
    ASSUME NEW K, NEW D, NEW l \in Seq(Row(K, D)), NEW m \in Seq(Row(K, D)), NEW d,
           Extends(l, m), Len(l) = Len(m)
    PROVE  ActiveCount(m) <= ActiveCount(l) /\ DayCount(m, d) = DayCount(l, d)
<1>1. Rows(l) = Rows(m)
  BY DEF Rows
<1>2. ActiveRows(m) \subseteq ActiveRows(l) /\ RowsOfDay(m, d) = RowsOfDay(l, d)
  BY <1>1 DEF Extends, ActiveRows, RowsOfDay
<1>3. IsFiniteSet(ActiveRows(l))
  BY CountsAreNaturals
<1> QED
  BY <1>2, <1>3, FS_Subset DEF ActiveCount, DayCount

\* A change of one row's state that frees its slot or keeps it.
Moves(l, m, i, s) ==
    /\ m = [l EXCEPT ![i].state = s]
    /\ l[i].state \in ActiveStates
    /\ s \in PositionStates

LEMMA MovedRow ==
    ASSUME NEW K, NEW D, NEW l \in Seq(Row(K, D)), NEW m,
           NEW i \in Rows(l), NEW s, Moves(l, m, i, s)
    PROVE  /\ m \in Seq(Row(K, D))
           /\ Len(m) = Len(l)
           /\ Extends(l, m)
           /\ \A j \in Rows(l) : m[j].key = l[j].key /\ m[j].day = l[j].day
<1> DEFINE r == [l[i] EXCEPT !.state = s]
<1>1. l[i] \in Row(K, D)
  BY ElementOfSeq DEF Rows
<1>2. r \in Row(K, D) /\ r.key = l[i].key /\ r.day = l[i].day /\ r.state = s
  BY <1>1 DEF Row, Moves
<1>3. m = [l EXCEPT ![i] = r]
  BY DEF Moves
<1>4. i \in 1 .. Len(l) /\ Len(l) \in Nat
  BY LenProperties DEF Rows
<1>5. /\ m \in Seq(Row(K, D))
      /\ Len(m) = Len(l)
      /\ \A j \in 1 .. Len(l) : m[j] = IF j = i THEN r ELSE l[j]
  BY <1>2, <1>3, <1>4, ExceptSeq
<1> QED
  BY <1>2, <1>4, <1>5 DEF Extends, Rows, Moves

\* Editions compose.
LEMMA ExtendsTransitive ==
    ASSUME NEW K, NEW D, NEW l \in Seq(Row(K, D)), NEW m \in Seq(Row(K, D)),
           NEW n \in Seq(Row(K, D)), Extends(l, m), Extends(m, n)
    PROVE  Extends(l, n)
<1>1. Len(l) \in Nat /\ Len(m) \in Nat /\ Len(n) \in Nat
  BY LenProperties
<1>2. Rows(l) \subseteq Rows(m)
  BY <1>1 DEF Extends, Rows
<1> QED
  BY <1>1, <1>2 DEF Extends

LEMMA AppendExtends ==
    ASSUME NEW K, NEW D, NEW l \in Seq(Row(K, D)), NEW r \in Row(K, D),
           NEW m, Appends(l, m, r)
    PROVE  Extends(l, m)
<1>1. /\ Len(l) \in Nat
      /\ Len(m) = Len(l) + 1
      /\ \A i \in Rows(l) : m[i] = l[i]
  BY AppendRow
<1> QED
  BY <1>1 DEF Extends

LEMMA ExtendsItself ==
    ASSUME NEW K, NEW D, NEW l \in Seq(Row(K, D))
    PROVE  Extends(l, l)
BY LenProperties DEF Extends

-----------------------------------------------------------------------------
(* The inductive invariant.                                                 *)

InTransaction == {"reserve", "check", "insert"}
Reserved == {"check", "insert"}

\* What a caller may still rely on between two statements: its snapshot is an
\* earlier edition of the ledger and its date not in the future; once it has
\* reserved, nobody else moves its counter; once it has checked, its snapshot
\* shows a free slot.  Its lost attempts are paid for by the rows of the
\* snapshot and the reconciliations; one that it missed pays for the next.
CallerInv(c) ==
    /\ pc[c] = "idle" => call[c].attempt = 0
    /\ pc[c] = "begin" => call[c].attempt <= Len(ledger) + reconciled
    /\ pc[c] \in InTransaction =>
         /\ Extends(call[c].seen, ledger)
         /\ call[c].attempt <= Len(call[c].seen) + reconciled
         /\ call[c].seenCount = DayCount(call[c].seen, call[c].day)
         /\ call[c].day <= today
    /\ pc[c] = "reserve" /\ call[c].missed =>
         call[c].attempt + 1 <= Len(call[c].seen) + reconciled
    /\ pc[c] \in Reserved =>
         /\ rowLock[call[c].day] = c
         /\ quota[call[c].day] = call[c].seenCount
         /\ call[c].seenCount < MaxDaily
    /\ pc[c] = "insert" => ActiveCount(call[c].seen) < MaxOpen

IInv ==
    /\ TypeOK
    /\ QuotaAccounted
    /\ OpenPositionsCapped
    /\ AdmittedOnce
    /\ \A c \in Callers : CallerInv(c)

-----------------------------------------------------------------------------
(* Type correctness.                                                        *)

\* The part of the state that only the caller's own control moves.
ControlOK ==
    /\ rowLock \in [Days -> Callers \union {NoCaller}]
    /\ pc \in [Callers -> Statements]
    /\ call \in [Callers -> Locals]
    /\ \A c \in Callers : call[c].attempt < MaxAttempts
    /\ \A c \in Callers : pc[c] # "idle" => call[c].key \in Keys

LEMMA FreshLocals ==
    ASSUME NEW k \in Keys \union {NoKey}, NEW a \in Nat
    PROVE  /\ Fresh(k, a) \in Locals
           /\ Fresh(k, a).key = k
           /\ Fresh(k, a).attempt = a
<1>1. <<>> \in Seq(Row(Keys, Days))
  BY EmptySeq
<1>2. 0 \in Days
  BY LimitsAssumption DEF Days
<1> QED
  BY <1>1, <1>2 DEF Fresh, Locals

LEMMA ReturnKeepsControl ==
    ASSUME TypeOK, NEW c \in Callers, Return(c)
    PROVE  ControlOK'
<1>1. Fresh(NoKey, 0) \in Locals /\ Fresh(NoKey, 0).attempt = 0
  BY FreshLocals
<1>2. 0 < MaxAttempts
  BY LimitsAssumption
<1> QED
  BY <1>1, <1>2 DEF TypeOK, ControlOK, Return, Unlocked, Statements

LEMMA RetryKeepsControl ==
    ASSUME TypeOK, NEW c \in Callers, pc[c] # "idle", SerializationFailure(c)
    PROVE  ControlOK'
<1>1. CASE call[c].attempt + 1 < MaxAttempts
  <2>1. call[c].key \in Keys /\ call[c].attempt + 1 \in Nat
    BY DEF TypeOK, Locals
  <2>2. /\ Fresh(call[c].key, call[c].attempt + 1) \in Locals
        /\ Fresh(call[c].key, call[c].attempt + 1).key = call[c].key
        /\ Fresh(call[c].key, call[c].attempt + 1).attempt = call[c].attempt + 1
    BY <2>1, FreshLocals
  <2>3. call' = [call EXCEPT ![c] = Fresh(call[c].key, call[c].attempt + 1)]
    BY <1>1 DEF SerializationFailure, MoreAttempts
  <2> QED
    BY <1>1, <2>1, <2>2, <2>3
    DEF MoreAttempts, TypeOK, ControlOK, SerializationFailure, Unlocked, Statements
<1>2. CASE ~ (call[c].attempt + 1 < MaxAttempts)
  BY <1>2, ReturnKeepsControl DEF SerializationFailure, MoreAttempts
<1> QED
  BY <1>1, <1>2

LEMMA PersistKeepsRows ==
    ASSUME TypeOK, NEW c \in Callers, pc[c] = "insert", Persist(c)
    PROVE  quota' \in [Days -> Nat] /\ ledger' \in Seq(Row(Keys, Days))
<1>1. call[c].key \in Keys /\ call[c].day \in Days
  BY DEF TypeOK, Locals
<1>2. PendingRow(call[c].key, call[c].day) \in Row(Keys, Days)
  BY <1>1, PendingRowFields
<1>3. ledger' \in Seq(Row(Keys, Days))
  BY <1>2, AppendRow DEF TypeOK, Persist, Appends
<1>4. quota' \in [Days -> Nat]
  BY <1>1 DEF TypeOK, Persist
<1> QED
  BY <1>3, <1>4

LEMMA ProgressMoves ==
    ASSUME TypeOK, NEW i \in Rows(ledger), Progress(i)
    PROVE  \E s \in {"OPEN"} \union TerminalStates : Moves(ledger, ledger', i, s)
BY DEF Progress, Moves, TerminalStates, PositionStates, ActiveStates

\* A reconciliation changes what an attempt has missed and nothing else of it.
LEMMA ReconcileLocals ==
    ASSUME TypeOK, NEW d \in Days, Reconcile(d), NEW c \in Callers
    PROVE  /\ call'[c] \in Locals
           /\ call'[c].key = call[c].key
           /\ call'[c].attempt = call[c].attempt
           /\ call'[c].day = call[c].day
           /\ call'[c].seen = call[c].seen
           /\ call'[c].seenCount = call[c].seenCount
           /\ pc[c] # "reserve" => call'[c].missed = call[c].missed
<1>1. call[c] \in Locals
  BY DEF TypeOK
<1>2. call'[c] = IF c \in Reading(d) THEN [call[c] EXCEPT !.missed = TRUE] ELSE call[c]
  BY DEF Reconcile
<1> QED
  BY <1>1, <1>2 DEF Locals, Reading

LEMMA TypeStep == TypeOK /\ [Next]_vars => TypeOK'
<1> SUFFICES ASSUME TypeOK, [Next]_vars PROVE TypeOK'
  OBVIOUS
<1>1. ASSUME NEW c \in Callers, NEW k \in Keys, Call(c, k)
      PROVE  TypeOK'
  <2>1. Fresh(k, 0) \in Locals /\ Fresh(k, 0).key = k /\ Fresh(k, 0).attempt = 0
    BY FreshLocals
  <2>2. 0 < MaxAttempts
    BY LimitsAssumption
  <2> QED
    BY <1>1, <2>1, <2>2 DEF TypeOK, Call, Statements
<1>2. ASSUME NEW c \in Callers, Begin(c)
      PROVE  TypeOK'
  <2> DEFINE begun == [call[c] EXCEPT !.day = today, !.seen = ledger,
                              !.seenCount = quota[today], !.missed = FALSE]
  <2>1. call[c] \in Locals /\ call[c].attempt < MaxAttempts /\ call[c].key \in Keys
    BY <1>2 DEF TypeOK, Begin
  <2>2. today \in Days /\ ledger \in Seq(Row(Keys, Days)) /\ quota[today] \in Nat
    BY DEF TypeOK
  <2>3. begun \in Locals /\ begun.key = call[c].key /\ begun.attempt = call[c].attempt
    BY <2>1, <2>2 DEF Locals
  <2>4. call' = [call EXCEPT ![c] = begun]
    BY <1>2 DEF Begin
  <2> HIDE DEF begun
  <2>6. /\ UNCHANGED <<today, quota, ledger, reconciled, rowLock, granted>>
        /\ pc' = [pc EXCEPT ![c] = "reserve"] /\ pc' \in [Callers -> Statements]
    BY <1>2 DEF TypeOK, Begin, Statements
  <2>5. /\ call' \in [Callers -> Locals]
        /\ \A e \in Callers : call'[e].attempt < MaxAttempts
        /\ \A e \in Callers : pc'[e] # "idle" => call'[e].key \in Keys
    BY <2>1, <2>3, <2>4, <2>6 DEF TypeOK
  <2> QED
    BY <2>5, <2>6 DEF TypeOK
<1>3. ASSUME NEW c \in Callers, Reserve(c)
      PROVE  TypeOK'
  <2>1. CASE SerializationFailure(c)
    BY <1>3, <2>1, RetryKeepsControl DEF Reserve, SerializationFailure, ControlOK, TypeOK
  <2>2. CASE Return(c) /\ UNCHANGED <<today, quota, ledger, reconciled, granted>>
    BY <2>2, ReturnKeepsControl DEF ControlOK, TypeOK
  <2>3. CASE /\ pc[c] = "reserve"
             /\ pc' = [pc EXCEPT ![c] = "check"]
             /\ rowLock' = [rowLock EXCEPT ![call[c].day] = c]
             /\ UNCHANGED <<today, quota, ledger, reconciled, call, granted>>
    BY <2>3 DEF TypeOK, Statements
  <2> QED
    BY <1>3, <2>1, <2>2, <2>3 DEF Reserve
<1>4. ASSUME NEW c \in Callers, Check(c)
      PROVE  TypeOK'
  <2>1. CASE Return(c)
    BY <1>4, <2>1, ReturnKeepsControl DEF Check, ControlOK, TypeOK
  <2>2. CASE /\ pc' = [pc EXCEPT ![c] = "insert"]
             /\ UNCHANGED <<rowLock, call>>
    BY <1>4, <2>2 DEF Check, TypeOK, Statements
  <2> QED
    BY <1>4, <2>1, <2>2 DEF Check
<1>5. ASSUME NEW c \in Callers, Commit(c)
      PROVE  TypeOK'
  <2>1. CASE /\ Persist(c) /\ Return(c) /\ UNCHANGED <<today, reconciled>>
             /\ granted' = [granted EXCEPT ![call[c].key] = @ + 1]
    BY <1>5, <2>1, ReturnKeepsControl, PersistKeepsRows
    DEF Commit, ControlOK, TypeOK
  <2>2. CASE SerializationFailure(c)
    BY <1>5, <2>2, RetryKeepsControl DEF Commit, SerializationFailure, ControlOK, TypeOK
  <2>3. CASE Return(c) /\ UNCHANGED <<today, quota, ledger, reconciled, granted>>
    BY <2>3, ReturnKeepsControl DEF ControlOK, TypeOK
  <2> QED
    BY <1>5, <2>1, <2>2, <2>3 DEF Commit
<1>6. ASSUME NEW c \in Callers, CommitUnacknowledged(c)
      PROVE  TypeOK'
  BY <1>6, ReturnKeepsControl, PersistKeepsRows
  DEF CommitUnacknowledged, ControlOK, TypeOK
<1>7. ASSUME NEW c \in Callers, Fail(c)
      PROVE  TypeOK'
  BY <1>7, ReturnKeepsControl DEF Fail, ControlOK, TypeOK
<1>8. ASSUME NEW i \in Rows(ledger), Progress(i)
      PROVE  TypeOK'
  <2>1. ledger \in Seq(Row(Keys, Days))
    BY DEF TypeOK
  <2>2. ledger' \in Seq(Row(Keys, Days))
    BY <1>8, <2>1, ProgressMoves, MovedRow
  <2> QED
    BY <1>8, <2>2 DEF Progress, TypeOK
<1>11. ASSUME NEW d \in Days, Reconcile(d)
       PROVE  TypeOK'
  <2>1. ASSUME NEW c \in Callers
        PROVE  /\ call'[c] \in Locals
               /\ call'[c].attempt = call[c].attempt /\ call'[c].key = call[c].key
    BY <1>11, ReconcileLocals
  <2>2. call' \in [Callers -> Locals]
    BY <1>11, <2>1 DEF Reconcile
  <2> QED
    BY <1>11, <2>1, <2>2 DEF Reconcile, TypeOK
<1>9. CASE NextDay
  BY <1>9, LimitsAssumption DEF NextDay, TypeOK, Days
<1>10. CASE UNCHANGED vars
  BY <1>10 DEF vars, TypeOK
<1> QED
  BY <1>1, <1>2, <1>3, <1>4, <1>5, <1>6, <1>7, <1>8, <1>9, <1>10, <1>11
  DEF Next, Attempt

LEMMA TypeInit == Init => TypeOK
<1>1. 0 \in Days /\ 0 < MaxAttempts
  BY LimitsAssumption DEF Days
<1>2. <<>> \in Seq(Row(Keys, Days))
  BY EmptySeq
<1>3. Fresh(NoKey, 0) \in Locals /\ Fresh(NoKey, 0).attempt = 0
  BY FreshLocals
<1> QED
  BY <1>1, <1>2, <1>3 DEF Init, TypeOK, Statements

\* Every variable keeps its type, and no call outlives its retry limit, for
\* any number of callers, keys and days and any limits.
THEOREM TypeCorrect == Spec => []TypeOK
BY TypeInit, TypeStep, PTL DEF Spec

-----------------------------------------------------------------------------
(* The inductive invariant.                                                 *)

\* A step that leaves caller e's control alone, drops no lock of e's, moves
\* no counter e has locked, and lets the ledger only move forward, keeps
\* what e relies on.
LEMMA BystanderKeeps ==
    ASSUME TypeOK, TypeOK', NEW e \in Callers, CallerInv(e),
           pc'[e] = pc[e], call'[e] = call[e],
           Extends(ledger, ledger'), today <= today', reconciled <= reconciled',
           \A d \in Days : rowLock[d] = e => rowLock'[d] = e /\ quota'[d] = quota[d]
    PROVE  CallerInv(e)'
<1>1. /\ call[e].day \in Days
      /\ call[e].attempt \in Nat
      /\ call[e].seen \in Seq(Row(Keys, Days))
      /\ ledger \in Seq(Row(Keys, Days))
      /\ ledger' \in Seq(Row(Keys, Days))
      /\ reconciled \in Nat /\ reconciled' \in Nat
  BY DEF TypeOK, Locals
<1>2. /\ Len(ledger) \in Nat /\ Len(ledger') \in Nat /\ Len(ledger) <= Len(ledger')
      /\ Len(call[e].seen) \in Nat
  BY <1>1, LenProperties DEF Extends
<1>3. pc'[e] = "begin" => call'[e].attempt <= Len(ledger') + reconciled'
  BY <1>1, <1>2 DEF CallerInv
<1>7. pc'[e] \in InTransaction => call'[e].attempt <= Len(call'[e].seen) + reconciled'
  BY <1>1, <1>2 DEF CallerInv
<1>8. pc'[e] = "reserve" /\ call'[e].missed =>
        call'[e].attempt + 1 <= Len(call'[e].seen) + reconciled'
  BY <1>1, <1>2 DEF CallerInv
<1>4. pc'[e] \in InTransaction => Extends(call'[e].seen, ledger')
  BY <1>1, ExtendsTransitive DEF CallerInv
<1>5. pc'[e] \in Reserved => rowLock'[call'[e].day] = e
                           /\ quota'[call'[e].day] = call'[e].seenCount
  BY <1>1 DEF CallerInv
<1>6. pc'[e] \in InTransaction => call'[e].day <= today'
  <2>1. today \in Int /\ today' \in Int /\ call[e].day \in Int
    BY <1>1 DEF TypeOK, Days
  <2> QED
    BY <2>1 DEF CallerInv
<1> QED
  BY <1>3, <1>4, <1>5, <1>6, <1>7, <1>8 DEF CallerInv

\* Dropping c's locks leaves the others theirs.
LEMMA UnlockedKeeps ==
    ASSUME NEW c \in Callers, NEW e \in Callers, e # c, NEW d \in Days, rowLock[d] = e
    PROVE  Unlocked(c)[d] = e
BY DEF Unlocked

\* An answered call has nothing left to rely on.
LEMMA AnsweredIsIdle ==
    ASSUME TypeOK, NEW c \in Callers, Return(c)
    PROVE  CallerInv(c)'
<1>1. Fresh(NoKey, 0).attempt = 0
  BY FreshLocals
<1>2. pc'[c] = "idle" /\ call'[c] = Fresh(NoKey, 0)
  BY DEF Return, TypeOK
<1> QED
  BY <1>1, <1>2 DEF CallerInv, InTransaction, Reserved

\* Steps that write nothing keep what the ledger and counters satisfy.
LEMMA NoWriteKeeps ==
    ASSUME QuotaAccounted, OpenPositionsCapped, AdmittedOnce,
           UNCHANGED <<quota, ledger, granted>>
    PROVE  QuotaAccounted' /\ OpenPositionsCapped' /\ AdmittedOnce'
BY DEF QuotaAccounted, OpenPositionsCapped, AdmittedOnce

\* A lost attempt is paid for by a row the snapshot did not have or by a
\* reconciliation it missed.
LEMMA RetryStep ==
    ASSUME IInv, TypeOK', NEW c \in Callers, SerializationFailure(c),
           call[c].attempt + 1 <= Len(ledger) + reconciled
    PROVE  IInv'
<1>1. UNCHANGED <<today, quota, ledger, reconciled, granted>> /\ reconciled \in Nat
  BY DEF SerializationFailure, IInv, TypeOK
<1>2. ASSUME NEW e \in Callers \ {c}
      PROVE  CallerInv(e)'
  <2>1. pc'[e] = pc[e] /\ call'[e] = call[e] /\ rowLock' = Unlocked(c)
    BY DEF SerializationFailure, Return, IInv, TypeOK
  <2>2. Extends(ledger, ledger') /\ today <= today' /\ reconciled <= reconciled'
    BY <1>1, ExtendsItself DEF IInv, TypeOK, Days
  <2> QED
    BY <1>1, <2>1, <2>2, UnlockedKeeps, BystanderKeeps DEF IInv
<1>3. CallerInv(c)'
  <2>1. CASE call[c].attempt + 1 < MaxAttempts
    <3>1. call[c].key \in Keys \union {NoKey} /\ call[c].attempt + 1 \in Nat
      BY DEF IInv, TypeOK, Locals
    <3>4. Fresh(call[c].key, call[c].attempt + 1).attempt = call[c].attempt + 1
      BY <3>1, FreshLocals
    <3>5. pc'[c] = "begin" /\ call'[c] = Fresh(call[c].key, call[c].attempt + 1)
      BY <2>1 DEF SerializationFailure, MoreAttempts, IInv, TypeOK
    <3> QED
      BY <1>1, <3>4, <3>5 DEF CallerInv, InTransaction, Reserved
  <2>2. CASE ~ (call[c].attempt + 1 < MaxAttempts)
    BY <2>2, AnsweredIsIdle DEF SerializationFailure, MoreAttempts, IInv
  <2> QED
    BY <2>1, <2>2
<1> QED
  BY <1>1, <1>2, <1>3, NoWriteKeeps DEF IInv

\* Giving the caller an answer without writing.
LEMMA RefusalStep ==
    ASSUME IInv, TypeOK', NEW c \in Callers, Return(c),
           UNCHANGED <<today, quota, ledger, reconciled, granted>>
    PROVE  IInv'
<1>1. ASSUME NEW e \in Callers \ {c}
      PROVE  CallerInv(e)'
  <2>1. pc'[e] = pc[e] /\ call'[e] = call[e] /\ rowLock' = Unlocked(c)
    BY DEF Return, IInv, TypeOK
  <2>2. Extends(ledger, ledger') /\ today <= today' /\ reconciled <= reconciled'
    BY ExtendsItself DEF IInv, TypeOK, Days
  <2> QED
    BY <2>1, <2>2, UnlockedKeeps, BystanderKeeps DEF IInv
<1>2. CallerInv(c)'
  BY AnsweredIsIdle DEF IInv
<1> QED
  BY <1>1, <1>2, NoWriteKeeps DEF IInv

\* The one step that writes.  n is what the caller is told: granted either
\* counts the admission or, when the answer is lost, does not.
LEMMA PersistStep ==
    ASSUME IInv, TypeOK', NEW c \in Callers, pc[c] = "insert",
           ~ Overtaken(c), ~ KeyTaken(c), Persist(c), Return(c), UNCHANGED <<today, reconciled>>,
           \/ granted' = [granted EXCEPT ![call[c].key] = @ + 1]
           \/ UNCHANGED granted
    PROVE  IInv'
<1> DEFINE k == call[c].key
           d == call[c].day
<1>1. /\ k \in Keys /\ d \in Days
      /\ call[c].seen \in Seq(Row(Keys, Days)) /\ ledger \in Seq(Row(Keys, Days))
      /\ quota \in [Days -> Nat]
  BY DEF IInv, TypeOK, Locals
<1>2. /\ Extends(call[c].seen, ledger) /\ ActiveCount(call[c].seen) < MaxOpen
      /\ rowLock[d] = c /\ quota[d] < MaxDaily
  BY DEF IInv, CallerInv, InTransaction, Reserved
<1>3. Appends(ledger, ledger', PendingRow(k, d)) /\ quota' = [quota EXCEPT ![d] = @ + 1]
  BY DEF Persist, Appends
<1>4. OpenPositionsCapped'
  <2>1. ActiveCount(ledger') = ActiveCount(ledger) + 1
    BY <1>1, <1>3, AppendPendingCounts
  <2>2. ActiveCount(ledger) <= ActiveCount(call[c].seen)
    BY <1>1, <1>2, SameLength DEF Overtaken
  <2>3. ActiveCount(ledger) \in Nat /\ ActiveCount(call[c].seen) \in Nat /\ MaxOpen \in Nat
    BY <1>1, CountsAreNaturals, LimitsAssumption
  <2> QED
    BY <1>2, <2>1, <2>2, <2>3 DEF OpenPositionsCapped
<1>5. QuotaAccounted'
  <2>1. ASSUME NEW e \in Days
        PROVE  quota'[e] = DayCount(ledger', e) /\ quota'[e] <= MaxDaily
    <3>1. DayCount(ledger', e) = IF e = d THEN DayCount(ledger, e) + 1 ELSE DayCount(ledger, e)
      BY <1>1, <1>3, AppendPendingCounts
    <3>2. quota[e] = DayCount(ledger, e) /\ quota[e] <= MaxDaily /\ quota[e] \in Nat
      BY <1>1 DEF IInv, QuotaAccounted
    <3> QED
      BY <1>1, <1>2, <1>3, <3>1, <3>2, LimitsAssumption
  <2> QED
    BY <2>1 DEF QuotaAccounted
<1>6. /\ Rows(ledger') = Rows(ledger) \union {Len(ledger) + 1}
      /\ \A i \in Rows(ledger) : ledger'[i] = ledger[i]
      /\ ledger'[Len(ledger) + 1] = PendingRow(k, d)
      /\ PendingRow(k, d).key = k
  BY <1>1, <1>3, AppendRow, PendingRowFields
<1>7. AdmittedOnce'
  <2>1. \A i \in Rows(ledger) : ledger[i].key # k
    BY DEF KeyTaken, HasKey
  <2>2. \A i, j \in Rows(ledger') : ledger'[i].key = ledger'[j].key => i = j
    BY <1>6, <2>1 DEF IInv, AdmittedOnce
  <2>3. \A x \in Keys : HasKey(ledger, x) => HasKey(ledger', x)
    BY <1>6 DEF HasKey
  <2>4. HasKey(ledger', k) /\ ~ HasKey(ledger, k)
    BY <1>6, <2>1 DEF HasKey
  <2>5. \A x \in Keys : granted[x] > 0 => granted[x] = 1 /\ HasKey(ledger, x)
    BY DEF IInv, AdmittedOnce, HasKey
  <2>6. granted \in [Keys -> Nat]
    BY DEF IInv, TypeOK
  <2>7. granted[k] = 0
    BY <1>1, <2>4, <2>5, <2>6
  <2>8. \A x \in Keys : granted'[x] > 0 => granted'[x] = 1 /\ HasKey(ledger', x)
    <3> SUFFICES ASSUME NEW x \in Keys, granted'[x] > 0
                 PROVE  granted'[x] = 1 /\ HasKey(ledger', x)
      OBVIOUS
    <3>1. CASE x = k
      BY <1>1, <2>4, <2>6, <2>7, <3>1
    <3>2. CASE x # k
      BY <1>1, <2>3, <2>5, <2>6, <3>2
    <3> QED
      BY <3>1, <3>2
  <2> QED
    BY <2>2, <2>8 DEF AdmittedOnce, HasKey
<1>8. CallerInv(c)'
  BY AnsweredIsIdle DEF IInv
<1>9. ASSUME NEW e \in Callers \ {c}
      PROVE  CallerInv(e)'
  <2>1. pc'[e] = pc[e] /\ call'[e] = call[e] /\ rowLock' = Unlocked(c)
    BY DEF Return, IInv, TypeOK
  <2>2. Extends(ledger, ledger')
    BY <1>1, <1>3, AppendExtends, PendingRowFields
  <2>4. today <= today' /\ reconciled <= reconciled'
    BY DEF IInv, TypeOK, Days
  <2>3. \A x \in Days : rowLock[x] = e => quota'[x] = quota[x]
    BY <1>1, <1>2, <1>3
  <2> QED
    BY <2>1, <2>2, <2>3, <2>4, UnlockedKeeps, BystanderKeeps DEF IInv
<1> QED
  BY <1>4, <1>5, <1>7, <1>8, <1>9 DEF IInv

\* A position moving on frees slots or keeps them, and touches no counter.
LEMMA ProgressStep ==
    ASSUME IInv, TypeOK', NEW i \in Rows(ledger), Progress(i)
    PROVE  IInv'
<1>1. ledger \in Seq(Row(Keys, Days)) /\ UNCHANGED <<today, quota, reconciled, rowLock, pc, call, granted>>
  BY DEF IInv, TypeOK, Progress
<1>2. PICK s \in {"OPEN"} \union TerminalStates : Moves(ledger, ledger', i, s)
  BY ProgressMoves DEF IInv
<1>3. /\ ledger' \in Seq(Row(Keys, Days)) /\ Len(ledger') = Len(ledger)
      /\ Extends(ledger, ledger')
      /\ \A j \in Rows(ledger) : ledger'[j].key = ledger[j].key
  BY <1>1, <1>2, MovedRow
<1>4. Rows(ledger') = Rows(ledger)
  BY <1>3 DEF Rows
<1>5. /\ ActiveCount(ledger') <= ActiveCount(ledger)
      /\ \A d \in Days : DayCount(ledger', d) = DayCount(ledger, d)
  BY <1>1, <1>3, SameLength
<1>6. QuotaAccounted'
  BY <1>1, <1>5 DEF IInv, QuotaAccounted
<1>7. OpenPositionsCapped'
  <2>1. ActiveCount(ledger') \in Nat /\ ActiveCount(ledger) \in Nat /\ MaxOpen \in Nat
    BY <1>1, <1>3, CountsAreNaturals, LimitsAssumption
  <2> QED
    BY <1>5, <2>1 DEF IInv, OpenPositionsCapped
<1>8. AdmittedOnce'
  BY <1>1, <1>3, <1>4 DEF IInv, AdmittedOnce, HasKey
<1>9. today <= today' /\ reconciled <= reconciled'
  BY <1>1 DEF IInv, TypeOK, Days
<1>10. \A e \in Callers : CallerInv(e)'
  BY <1>1, <1>3, <1>9, BystanderKeeps DEF IInv
<1> QED
  BY <1>6, <1>7, <1>8, <1>10 DEF IInv

\* A row missing from the snapshot pays for one more attempt.
LEMMA NewRowPays ==
    ASSUME IInv, NEW c \in Callers, pc[c] \in InTransaction, Len(call[c].seen) # Len(ledger)
    PROVE  call[c].attempt + 1 <= Len(ledger) + reconciled
<1>1. /\ call[c].attempt \in Nat /\ reconciled \in Nat
      /\ call[c].seen \in Seq(Row(Keys, Days)) /\ ledger \in Seq(Row(Keys, Days))
  BY DEF IInv, TypeOK, Locals
<1>2. Len(call[c].seen) \in Nat /\ Len(ledger) \in Nat
  BY <1>1, LenProperties
<1> QED
  BY <1>1, <1>2 DEF IInv, CallerInv, Extends

\* A counter row that moved since the snapshot pays for one more attempt.
LEMMA MovedCounterPays ==
    ASSUME IInv, NEW c \in Callers, pc[c] = "reserve", CounterMoved(c)
    PROVE  call[c].attempt + 1 <= Len(ledger) + reconciled
<1>1. /\ call[c].day \in Days /\ call[c].attempt \in Nat /\ reconciled \in Nat
      /\ call[c].seen \in Seq(Row(Keys, Days)) /\ ledger \in Seq(Row(Keys, Days))
  BY DEF IInv, TypeOK, Locals
<1>2. Extends(call[c].seen, ledger) /\ call[c].seenCount = DayCount(call[c].seen, call[c].day)
  BY DEF IInv, CallerInv, InTransaction
<1>3. quota[call[c].day] = DayCount(ledger, call[c].day)
  BY <1>1 DEF IInv, QuotaAccounted
<1>4. CASE call[c].missed
  <2>1. Len(call[c].seen) \in Nat /\ Len(ledger) \in Nat
    BY <1>1, LenProperties
  <2> QED
    BY <1>1, <1>2, <1>4, <2>1 DEF IInv, CallerInv, Extends
<1>5. CASE ~ call[c].missed
  <2>1. Len(call[c].seen) # Len(ledger)
    BY <1>1, <1>2, <1>3, <1>5, SameLength DEF CounterMoved
  <2> QED
    BY <2>1, NewRowPays DEF InTransaction
<1> QED
  BY <1>4, <1>5

\* Steps of one caller that touch only its own control.
LEMMA OwnControlStep ==
    ASSUME IInv, TypeOK', NEW c \in Callers,
           UNCHANGED <<today, quota, ledger, reconciled, granted>>,
           \A e \in Callers \ {c} : pc'[e] = pc[e] /\ call'[e] = call[e],
           \A e \in Callers \ {c}, d \in Days : rowLock[d] = e => rowLock'[d] = e,
           CallerInv(c)'
    PROVE  IInv'
<1>1. Extends(ledger, ledger') /\ today <= today' /\ reconciled <= reconciled'
  BY ExtendsItself DEF IInv, TypeOK, Days
<1>2. \A e \in Callers \ {c} : CallerInv(e)'
  BY <1>1, BystanderKeeps DEF IInv
<1> QED
  BY <1>2, NoWriteKeeps DEF IInv

LEMMA CallStep ==
    ASSUME IInv, TypeOK', NEW c \in Callers, NEW k \in Keys, Call(c, k)
    PROVE  IInv'
<1>1. Fresh(k, 0).attempt = 0
  BY FreshLocals
<1>2. pc'[c] = "begin" /\ call'[c] = Fresh(k, 0) /\ UNCHANGED <<today, quota, ledger, reconciled, rowLock, granted>>
  BY DEF Call, IInv, TypeOK
<1>3. Len(ledger') \in Nat /\ reconciled' \in Nat
  BY LenProperties DEF TypeOK
<1>4. CallerInv(c)'
  BY <1>1, <1>2, <1>3 DEF CallerInv, InTransaction, Reserved
<1>5. \A e \in Callers \ {c} : pc'[e] = pc[e] /\ call'[e] = call[e]
  BY DEF Call, IInv, TypeOK
<1> QED
  BY <1>2, <1>4, <1>5, OwnControlStep

LEMMA BeginStep ==
    ASSUME IInv, TypeOK', NEW c \in Callers, Begin(c)
    PROVE  IInv'
<1>1. /\ pc'[c] = "reserve" /\ UNCHANGED <<today, quota, ledger, reconciled, rowLock, granted>>
      /\ call'[c] = [call[c] EXCEPT !.day = today, !.seen = ledger,
                                   !.seenCount = quota[today], !.missed = FALSE]
  BY DEF Begin, IInv, TypeOK
<1>2. call[c] \in Locals /\ today \in Days /\ ledger \in Seq(Row(Keys, Days))
  BY DEF IInv, TypeOK
<1>3. /\ call'[c].day = today /\ call'[c].seen = ledger
      /\ call'[c].seenCount = quota[today] /\ call'[c].attempt = call[c].attempt
      /\ call'[c].missed = FALSE
  BY <1>1, <1>2 DEF Locals
<1>4. CallerInv(c)'
  <2>1. Extends(ledger, ledger) /\ today <= today
    BY <1>2, ExtendsItself DEF Days
  <2>2. call[c].attempt <= Len(ledger) + reconciled /\ quota[today] = DayCount(ledger, today)
    BY <1>2 DEF IInv, CallerInv, Begin, QuotaAccounted
  <2> QED
    BY <1>1, <1>3, <2>1, <2>2 DEF CallerInv, InTransaction, Reserved
<1>5. \A e \in Callers \ {c} : pc'[e] = pc[e] /\ call'[e] = call[e]
  BY DEF Begin, IInv, TypeOK
<1> QED
  BY <1>1, <1>4, <1>5, OwnControlStep

LEMMA ReserveStep ==
    ASSUME IInv, TypeOK', NEW c \in Callers, Reserve(c)
    PROVE  IInv'
<1>1. CASE CounterMoved(c) /\ SerializationFailure(c)
  BY <1>1, MovedCounterPays, RetryStep DEF Reserve
<1>2. CASE Return(c) /\ UNCHANGED <<today, quota, ledger, reconciled, granted>>
  BY <1>2, RefusalStep
<1>3. CASE /\ rowLock[call[c].day] = NoCaller
           /\ ~ CounterMoved(c) /\ call[c].seenCount < MaxDaily
           /\ pc' = [pc EXCEPT ![c] = "check"]
           /\ rowLock' = [rowLock EXCEPT ![call[c].day] = c]
           /\ UNCHANGED <<today, quota, ledger, reconciled, call, granted>>
  <2>1. call[c].day \in Days /\ pc[c] = "reserve" /\ rowLock[call[c].day] = NoCaller
    BY <1>3 DEF IInv, TypeOK, Locals, Reserve
  <2>2. pc'[c] = "check" /\ rowLock'[call[c].day] = c
    BY <1>3, <2>1 DEF IInv, TypeOK
  <2>3. CallerInv(c)'
    BY <1>3, <2>1, <2>2 DEF IInv, CallerInv, CounterMoved, InTransaction, Reserved
  <2>4. \A e \in Callers \ {c} : pc'[e] = pc[e] /\ call'[e] = call[e]
    BY <1>3 DEF IInv, TypeOK
  <2>5. \A e \in Callers \ {c}, d \in Days : rowLock[d] = e => rowLock'[d] = e
    BY <1>3, <2>1, NullAssumption DEF IInv, TypeOK
  <2> QED
    BY <1>3, <2>3, <2>4, <2>5, OwnControlStep
<1>4. ~ DayFull(c) => call[c].seenCount < MaxDaily
  <2>1. call[c].seenCount \in Nat /\ MaxDaily \in Nat
    BY LimitsAssumption DEF IInv, TypeOK, Locals
  <2> QED
    BY <2>1 DEF DayFull
<1> QED
  BY <1>1, <1>2, <1>3, <1>4 DEF Reserve

LEMMA CheckStep ==
    ASSUME IInv, TypeOK', NEW c \in Callers, Check(c)
    PROVE  IInv'
<1>1. CASE Return(c)
  BY <1>1, RefusalStep DEF Check
<1>2. CASE /\ ActiveCount(call[c].seen) < MaxOpen
           /\ pc' = [pc EXCEPT ![c] = "insert"]
           /\ UNCHANGED <<today, quota, ledger, reconciled, granted, rowLock, call>>
  <2>1. pc[c] = "check" /\ pc'[c] = "insert"
    BY <1>2 DEF Check, IInv, TypeOK
  <2>2. CallerInv(c)'
    BY <1>2, <2>1 DEF IInv, CallerInv, InTransaction, Reserved
  <2>3. \A e \in Callers \ {c} : pc'[e] = pc[e] /\ call'[e] = call[e]
    BY <1>2 DEF IInv, TypeOK
  <2> QED
    BY <1>2, <2>2, <2>3, OwnControlStep
<1>3. ActiveCount(call[c].seen) \in Nat /\ MaxOpen \in Nat
  BY CountsAreNaturals, LimitsAssumption DEF IInv, TypeOK, Locals
<1> QED
  BY <1>1, <1>2, <1>3 DEF Check

LEMMA CommitStep ==
    ASSUME IInv, TypeOK', NEW c \in Callers, Commit(c)
    PROVE  IInv'
<1>1. CASE /\ ~ Overtaken(c) /\ ~ KeyTaken(c) /\ Persist(c) /\ Return(c)
           /\ granted' = [granted EXCEPT ![call[c].key] = @ + 1]
  BY <1>1, PersistStep DEF Commit
<1>2. CASE Overtaken(c) /\ SerializationFailure(c)
  BY <1>2, NewRowPays, RetryStep DEF Commit, InTransaction, Overtaken
<1>3. CASE Return(c) /\ UNCHANGED <<today, quota, ledger, reconciled, granted>>
  BY <1>3, RefusalStep
<1> QED
  BY <1>1, <1>2, <1>3 DEF Commit

\* A reconciliation pays for the attempts that it spoils.
LEMMA ReconcileStep ==
    ASSUME IInv, TypeOK', NEW d \in Days, Reconcile(d)
    PROVE  IInv'
<1>1. /\ reconciled' = reconciled + 1 /\ reconciled \in Nat
      /\ UNCHANGED <<today, quota, ledger, rowLock, pc, granted>>
  BY DEF Reconcile, IInv, TypeOK
<1>2. ASSUME NEW e \in Callers
      PROVE  CallerInv(e)'
  <2>1. /\ call'[e].attempt = call[e].attempt /\ call'[e].day = call[e].day
        /\ call'[e].seen = call[e].seen /\ call'[e].seenCount = call[e].seenCount
    BY ReconcileLocals DEF IInv
  <2>2. call[e].attempt \in Nat /\ Len(call[e].seen) \in Nat /\ Len(ledger) \in Nat
    BY LenProperties DEF IInv, TypeOK, Locals
  <2>3. pc[e] = "begin" => call'[e].attempt <= Len(ledger') + reconciled'
    BY <1>1, <1>2, <2>1, <2>2 DEF IInv, CallerInv
  <2>4. pc[e] \in InTransaction =>
          /\ call'[e].attempt <= Len(call'[e].seen) + reconciled'
          /\ call'[e].attempt + 1 <= Len(call'[e].seen) + reconciled'
    <3>1. pc[e] \in InTransaction => call[e].attempt <= Len(call[e].seen) + reconciled
      BY DEF IInv, CallerInv
    <3>2. Len(call'[e].seen) = Len(call[e].seen)
      BY <2>1
    <3> DEFINE n == Len(call[e].seen)
               a == call[e].attempt
    <3>3. n \in Nat /\ a \in Nat
      BY <2>2
    <3> HIDE DEF n, a
    <3>4. a <= n + reconciled => a <= n + reconciled' /\ a + 1 <= n + reconciled'
      BY <1>1, <3>3
    <3> QED
      BY <2>1, <3>1, <3>2, <3>4 DEF n, a
  <2> QED
    BY <1>1, <1>2, <2>1, <2>3, <2>4 DEF IInv, CallerInv, InTransaction
<1>3. QuotaAccounted' /\ OpenPositionsCapped' /\ AdmittedOnce'
  BY <1>1, NoWriteKeeps DEF IInv
<1> QED
  BY <1>2, <1>3 DEF IInv

LEMMA InvInit == Init => IInv
<1> SUFFICES ASSUME Init PROVE IInv
  OBVIOUS
<1>1. TypeOK
  BY TypeInit
<1>2. ledger = <<>> /\ Len(ledger) = 0 /\ Rows(ledger) = {} /\ MaxOpen \in Nat /\ MaxDaily \in Nat
  BY LimitsAssumption DEF Init, Rows
<1>3. ActiveRows(ledger) = {} /\ \A d : RowsOfDay(ledger, d) = {}
  BY <1>2 DEF ActiveRows, RowsOfDay
<1>4. OpenPositionsCapped /\ QuotaAccounted
  <2>1. ActiveCount(ledger) = 0 /\ \A d : DayCount(ledger, d) = 0
    BY <1>3, FS_EmptySet DEF ActiveCount, DayCount
  <2>2. \A d \in Days : quota[d] = 0
    BY DEF Init
  <2> QED
    BY <1>2, <2>1, <2>2 DEF OpenPositionsCapped, QuotaAccounted
<1>5. AdmittedOnce
  BY <1>2 DEF Init, AdmittedOnce
<1>6. Fresh(NoKey, 0).attempt = 0
  BY FreshLocals
<1>7. \A c \in Callers : CallerInv(c)
  BY <1>6 DEF Init, CallerInv, InTransaction, Reserved
<1> QED
  BY <1>1, <1>4, <1>5, <1>7 DEF IInv

LEMMA InvStep == IInv /\ [Next]_vars => IInv'
<1> SUFFICES ASSUME IInv, [Next]_vars PROVE IInv'
  OBVIOUS
<1>1. TypeOK'
  BY TypeStep DEF IInv
<1>2. ASSUME NEW c \in Callers, CommitUnacknowledged(c)
      PROVE  IInv'
  BY <1>1, <1>2, PersistStep DEF CommitUnacknowledged
<1>3. ASSUME NEW c \in Callers, Fail(c)
      PROVE  IInv'
  BY <1>1, <1>3, RefusalStep DEF Fail
<1>4. CASE NextDay
  <2>1. UNCHANGED <<quota, ledger, reconciled, rowLock, pc, call, granted>>
    BY <1>4 DEF NextDay
  <2>2. today <= today' /\ Extends(ledger, ledger') /\ reconciled <= reconciled'
    BY <1>4, <2>1, ExtendsItself DEF NextDay, IInv, TypeOK, Days
  <2>3. \A c \in Callers : CallerInv(c)'
    BY <1>1, <2>1, <2>2, BystanderKeeps DEF IInv
  <2> QED
    BY <1>1, <2>1, <2>3, NoWriteKeeps DEF IInv
<1>5. CASE UNCHANGED vars
  <2>1. UNCHANGED <<today, quota, ledger, reconciled, rowLock, pc, call, granted>>
    BY <1>5 DEF vars
  <2>2. \A c \in Callers : CallerInv(c)'
    BY <2>1 DEF IInv, CallerInv
  <2> QED
    BY <1>1, <2>1, <2>2, NoWriteKeeps DEF IInv
<1> QED
  BY <1>1, <1>2, <1>3, <1>4, <1>5, CallStep, BeginStep, ReserveStep, CheckStep,
     CommitStep, ProgressStep, ReconcileStep
  DEF Next, Attempt

LEMMA InvHolds == Spec => []IInv
BY InvInit, InvStep, PTL DEF Spec

-----------------------------------------------------------------------------
(* The theorems.                                                            *)

\* The daily counter is exactly the number of decisions committed that day
\* and never above the limit, however calls interleave, retry and fail.
THEOREM QuotaAlwaysAccounted == Spec => []QuotaAccounted
<1>1. IInv => QuotaAccounted
  BY DEF IInv
<1> QED
  BY <1>1, InvHolds, PTL

\* PENDING and OPEN positions never exceed MaxOpenPositions, also when the
\* admissions that fill the slots are paid from different days.
THEOREM SlotsNeverExceeded == Spec => []OpenPositionsCapped
<1>1. IInv => OpenPositionsCapped
  BY DEF IInv
<1> QED
  BY <1>1, InvHolds, PTL

\* One decision per idempotency key, and one Admitted answer at most.
THEOREM NeverAdmittedTwice == Spec => []AdmittedOnce
<1>1. IInv => AdmittedOnce
  BY DEF IInv
<1> QED
  BY <1>1, InvHolds, PTL

\* Every serialization failure a call has suffered is matched by an admission
\* or a reconciliation that committed, so the retry limit is reached only
\* under that much work of others.
THEOREM AttemptsAlwaysPaidFor == Spec => []AttemptsPaidFor
<1>1. IInv => AttemptsPaidFor
  <2> SUFFICES ASSUME IInv, NEW c \in Callers
               PROVE  call[c].attempt <= Len(ledger) + reconciled
    BY DEF AttemptsPaidFor
  <2>1. /\ call[c].attempt \in Nat /\ pc[c] \in Statements /\ reconciled \in Nat
        /\ call[c].seen \in Seq(Row(Keys, Days)) /\ ledger \in Seq(Row(Keys, Days))
    BY DEF IInv, TypeOK, Locals
  <2>2. Len(call[c].seen) \in Nat /\ Len(ledger) \in Nat
    BY <2>1, LenProperties
  <2> QED
    BY <2>1, <2>2 DEF IInv, CallerInv, InTransaction, Extends, Statements
<1> QED
  BY <1>1, InvHolds, PTL

\* A committed transaction is the abstract admission of its key on its day.
LEMMA PersistIsAdmit ==
    ASSUME IInv, NEW c \in Callers, pc[c] = "insert", ~ Overtaken(c), ~ KeyTaken(c),
           Persist(c), UNCHANGED today
    PROVE  /\ call[c].key \in Keys /\ call[c].day \in Days
           /\ Abstract!Admit(call[c].key, call[c].day)
<1>1. /\ call[c].key \in Keys /\ call[c].day \in Days
      /\ call[c].seen \in Seq(Row(Keys, Days)) /\ ledger \in Seq(Row(Keys, Days))
  BY DEF IInv, TypeOK, Locals
<1>2. /\ Extends(call[c].seen, ledger) /\ ActiveCount(call[c].seen) < MaxOpen
      /\ quota[call[c].day] < MaxDaily /\ call[c].day <= today
  BY DEF IInv, CallerInv, InTransaction, Reserved
<1>3. ActiveCount(ledger) < MaxOpen
  <2>1. ActiveCount(ledger) <= ActiveCount(call[c].seen)
    BY <1>1, <1>2, SameLength DEF Overtaken
  <2>2. ActiveCount(ledger) \in Nat /\ ActiveCount(call[c].seen) \in Nat /\ MaxOpen \in Nat
    BY <1>1, CountsAreNaturals, LimitsAssumption
  <2> QED
    BY <1>2, <2>1, <2>2
<1>4. call[c].day \in 0 .. today
  BY <1>1, <1>2 DEF IInv, TypeOK, Days
<1>5. Abstract!ActiveCount(ledger) = ActiveCount(ledger)
  <2>1. Abstract!ActiveRows(ledger) = ActiveRows(ledger)
    BY DEF ActiveRows, Rows, ActiveStates, Abstract!ActiveRows, Abstract!Rows,
           Abstract!ActiveStates
  <2> QED
    BY <2>1, Zenon DEF ActiveCount, Abstract!ActiveCount, Cardinality, Abstract!Cardinality
<1>6. Abstract!HasKey(ledger, call[c].key) <=> HasKey(ledger, call[c].key)
  BY DEF HasKey, Rows, Abstract!HasKey, Abstract!Rows
<1>7. Abstract!PendingRow(call[c].key, call[c].day) = PendingRow(call[c].key, call[c].day)
  BY DEF PendingRow, Abstract!PendingRow
<1> QED
  BY <1>1, <1>2, <1>3, <1>4, <1>5, <1>6, <1>7 DEF Abstract!Admit, Persist, KeyTaken

\* The transactional code implements the atomic admission of module Admission.
THEOREM ImplementsAdmission == Spec => AdmitsAtomically
<1>1. Init => Abstract!Init
  BY DEF Init, Abstract!Init, Days, Abstract!Days
<1>2. IInv /\ [Next]_vars => [Abstract!Next]_<<today, quota, ledger>>
  <2> SUFFICES ASSUME IInv, [Next]_vars
               PROVE  Abstract!Next \/ UNCHANGED <<today, quota, ledger>>
    OBVIOUS
  <2>1. ASSUME NEW c \in Callers, pc[c] = "insert", ~ Overtaken(c), ~ KeyTaken(c),
               Persist(c), UNCHANGED today
        PROVE  Abstract!Next
    BY <2>1, PersistIsAdmit DEF Abstract!Next, Abstract!Days, Days
  <2>2. ASSUME NEW i \in Rows(ledger), Progress(i)
        PROVE  Abstract!Next
    BY <2>2 DEF Progress, Rows, TerminalStates, Abstract!Next, Abstract!Progress,
                Abstract!Rows, Abstract!TerminalStates
  <2>3. ASSUME NextDay
        PROVE  Abstract!Next
    BY <2>3 DEF NextDay, Abstract!Next, Abstract!NextDay
  <2>7. ASSUME NEW d \in Days, Reconcile(d)
        PROVE  UNCHANGED <<today, quota, ledger>>
    BY <2>7 DEF Reconcile
  <2>4. ASSUME NEW c \in Callers, Commit(c) \/ CommitUnacknowledged(c)
        PROVE  Abstract!Next \/ UNCHANGED <<today, quota, ledger>>
    BY <2>1, <2>4 DEF Commit, CommitUnacknowledged, SerializationFailure
  <2>5. ASSUME NEW c \in Callers, Begin(c) \/ Reserve(c) \/ Check(c) \/ Fail(c)
        PROVE  UNCHANGED <<today, quota, ledger>>
    BY <2>5 DEF Begin, Reserve, Check, Fail, SerializationFailure
  <2>6. ASSUME NEW c \in Callers, NEW k \in Keys, Call(c, k)
        PROVE  UNCHANGED <<today, quota, ledger>>
    BY <2>6 DEF Call
  <2> QED
    BY <2>2, <2>3, <2>4, <2>5, <2>6, <2>7 DEF Next, Attempt, vars
<1> QED
  BY <1>1, <1>2, InvHolds, PTL DEF Spec, AdmitsAtomically, Abstract!Spec, Abstract!admissionVars
=============================================================================
