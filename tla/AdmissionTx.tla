---------------------------- MODULE AdmissionTx ----------------------------
(***************************************************************************)
(* AdmissionRepository.Admit (internal/adapters/postgres/                   *)
(* admission_repository.go) as concurrent callers run it: each attempt is a  *)
(* SERIALIZABLE PostgreSQL transaction that reads a snapshot, takes the       *)
(* daily counter's row lock, checks, inserts, and commits or rolls back;      *)
(* only error 40001 is tried again.  The database's part (snapshots, the row  *)
(* lock, the unique index, serialization failures) is modelled from how the   *)
(* repository relies on it.                                                  *)
(***************************************************************************)
EXTENDS PaperLedger

CONSTANTS
    Callers,      \* goroutines or processes that may call Admit at once
    Keys,         \* idempotency keys of the candidates
    MaxDay,       \* bound on the clock: days 0..MaxDay
    MaxOpen,      \* MaxOpenPositions
    MaxDaily,     \* MaxDailyAdmissions
    MaxAttempts,  \* MaxSerializationAttempts
    MaxReconciles,  \* bound on the reconciliations of a behaviour
    NoCaller,     \* the value of a free row lock
    NoKey         \* the key of a caller that has not called yet

\* NewAdmissionRepository refuses limits below 1.
ASSUME LimitsAssumption ==
    /\ MaxOpen \in Nat \ {0}
    /\ MaxDaily \in Nat \ {0}
    /\ MaxAttempts \in Nat \ {0}
    /\ MaxDay \in Nat
    /\ MaxReconciles \in Nat

ASSUME NullAssumption == NoCaller \notin Callers /\ NoKey \notin Keys

VARIABLES
    today,      \* options.Now() cut to a UTC date
    quota,      \* committed daily_admitted_count by date (no row: 0)
    ledger,     \* committed decisions and positions
    reconciled, \* how many committed reconciliations wrote a daily_results row
    rowLock,    \* who holds the write lock on a day's daily_results row
    pc,         \* the statement a caller is about to run
    call,       \* the caller's local variables: see Locals
    granted     \* per key, how many calls were answered Admitted: true

vars == <<today, quota, ledger, reconciled, rowLock, pc, call, granted>>

Days == 0 .. MaxDay
Statements == {"idle", "begin", "reserve", "check", "insert"}

\* key: the input's IdempotencyKey; attempt: the loop variable of Admit; day:
\* the date computed from Now(); seen and seenCount: the transaction's
\* snapshot of the positions and of the day's counter; missed: a
\* reconciliation wrote the day's row after that snapshot.
Locals == [key : Keys \union {NoKey}, attempt : Nat, day : Days,
           seen : Seq(Row(Keys, Days)), seenCount : Nat, missed : BOOLEAN]

\* The locals at the start of attempt a of a call for k.
Fresh(k, a) ==
    [key |-> k, attempt |-> a, day |-> 0, seen |-> <<>>, seenCount |-> 0,
     missed |-> FALSE]

\* MaxAttempts ends the loop, so a live attempt number is below it.
TypeOK ==
    /\ today \in Days
    /\ quota \in [Days -> Nat]
    /\ ledger \in Seq(Row(Keys, Days))
    /\ reconciled \in Nat
    /\ rowLock \in [Days -> Callers \union {NoCaller}]
    /\ pc \in [Callers -> Statements]
    /\ call \in [Callers -> Locals]
    /\ granted \in [Keys -> Nat]
    /\ \A c \in Callers : call[c].attempt < MaxAttempts
    /\ \A c \in Callers : pc[c] # "idle" => call[c].key \in Keys

Init ==
    /\ today = 0
    /\ quota = [d \in Days |-> 0]
    /\ ledger = <<>>
    /\ reconciled = 0
    /\ rowLock = [d \in Days |-> NoCaller]
    /\ pc = [c \in Callers |-> "idle"]
    /\ call = [c \in Callers |-> Fresh(NoKey, 0)]
    /\ granted = [k \in Keys |-> 0]

-----------------------------------------------------------------------------
(* How an attempt ends.  Rollback and commit both drop the row lock.         *)

Unlocked(c) == [d \in Days |-> IF rowLock[d] = c THEN NoCaller ELSE rowLock[d]]

\* Admit returns: the transaction is over.  An error and a refusal (the zero
\* result) leave the same state behind; granted keeps what was admitted.
Return(c) ==
    /\ pc' = [pc EXCEPT ![c] = "idle"]
    /\ rowLock' = Unlocked(c)
    /\ call' = [call EXCEPT ![c] = Fresh(NoKey, 0)]

\* The loop condition of Admit, after attempt++.
MoreAttempts(c) == call[c].attempt + 1 < MaxAttempts

\* Rollback, then either the next round of Admit's loop or its last line,
\* "exceeded serialization retry limit".
SerializationFailure(c) ==
    /\ IF MoreAttempts(c)
         THEN /\ pc' = [pc EXCEPT ![c] = "begin"]
              /\ call' = [call EXCEPT ![c] = Fresh(@.key, @.attempt + 1)]
              /\ rowLock' = Unlocked(c)
         ELSE Return(c)
    /\ UNCHANGED <<today, quota, ledger, reconciled, granted>>

-----------------------------------------------------------------------------
(* The statements of admitOnce.                                             *)

\* A caller enters Admit with a candidate; loop variable attempt = 0.
Call(c, k) ==
    /\ pc[c] = "idle"
    /\ pc' = [pc EXCEPT ![c] = "begin"]
    /\ call' = [call EXCEPT ![c] = Fresh(k, 0)]
    /\ UNCHANGED <<today, quota, ledger, reconciled, rowLock, granted>>

\* BeginTx, Now(), and the snapshot, which the first statement (the counter
\* row's insert-or-ignore) fixes before it waits for anybody.
Begin(c) ==
    /\ pc[c] = "begin"
    /\ pc' = [pc EXCEPT ![c] = "reserve"]
    /\ call' = [call EXCEPT ![c].day = today, ![c].seen = ledger,
                            ![c].seenCount = quota[today], ![c].missed = FALSE]
    /\ UNCHANGED <<today, quota, ledger, reconciled, rowLock, granted>>

\* A row that another transaction wrote since the snapshot, an admission of
\* that day or a reconciliation of it, can be neither inserted nor updated:
\* 40001.
CounterMoved(c) == quota[call[c].day] # call[c].seenCount \/ call[c].missed

\* Mutant: off by one in DailyAdmittedCountLT.
DayOverfull(c) == call[c].seenCount > MaxDaily

\* No row satisfies DailyAdmittedCountLT(MaxDailyAdmissions).
DayFull(c) == call[c].seenCount >= MaxDaily

\* The row's insert-or-ignore and load, then UPDATE daily_results SET count =
\* count + 1 WHERE count < MaxDaily.  A full day shows in the snapshot alone
\* (zero rows updated), so it may be refused even when the row moved after the
\* insert; everything else waits for the row lock.
Reserve(c) ==
    /\ pc[c] = "reserve"
    /\ \/ /\ DayFull(c)
          /\ Return(c)
          /\ UNCHANGED <<today, quota, ledger, reconciled, granted>>
       \/ /\ rowLock[call[c].day] = NoCaller
          /\ CounterMoved(c)
          /\ SerializationFailure(c)
       \/ /\ rowLock[call[c].day] = NoCaller
          /\ ~ CounterMoved(c)
          /\ ~ DayFull(c)
          /\ pc' = [pc EXCEPT ![c] = "check"]
          /\ rowLock' = [rowLock EXCEPT ![call[c].day] = c]
          /\ UNCHANGED <<today, quota, ledger, reconciled, call, granted>>

\* Mutant: a refusal commits the transaction that had reserved the quota.
CheckKeepingQuota(c) ==
    /\ pc[c] = "check"
    /\ IF HasKey(call[c].seen, call[c].key) \/ ActiveCount(call[c].seen) >= MaxOpen
         THEN /\ Return(c)
              /\ quota' = [quota EXCEPT ![call[c].day] = @ + 1]
         ELSE /\ pc' = [pc EXCEPT ![c] = "insert"]
              /\ UNCHANGED <<quota, rowLock, call>>
    /\ UNCHANGED <<today, ledger, reconciled, granted>>

\* The idempotency key and the active positions, both read off the snapshot.
\* A duplicate (errDuplicateAdmission) and a full book answer alike.
Check(c) ==
    /\ pc[c] = "check"
    /\ IF HasKey(call[c].seen, call[c].key) \/ ActiveCount(call[c].seen) >= MaxOpen
         THEN Return(c)
         ELSE /\ pc' = [pc EXCEPT ![c] = "insert"]
              /\ UNCHANGED <<rowLock, call>>
    /\ UNCHANGED <<today, quota, ledger, reconciled, granted>>

\* Mutant: a transaction below SERIALIZABLE.
NeverOvertaken(c) == FALSE

\* SERIALIZABLE: two admissions that each read the active positions and each
\* insert one conflict both ways, so the second to commit is refused.  Every
\* ledger entry is one such commit.
Overtaken(c) == Len(ledger) # Len(call[c].seen)

\* The unique index on trade_decisions.idempotency_key.
KeyTaken(c) == HasKey(ledger, call[c].key)

\* The three inserts and the commit take effect.
Persist(c) ==
    /\ quota' = [quota EXCEPT ![call[c].day] = @ + 1]
    /\ ledger' = Append(ledger, PendingRow(call[c].key, call[c].day))

\* Decision, position and event are inserted and committed.  A unique
\* violation is a duplicate; a conflict is 40001 (PostgreSQL may report
\* either of them for a key another transaction has just inserted).
Commit(c) ==
    /\ pc[c] = "insert"
    /\ \/ /\ ~ Overtaken(c)
          /\ ~ KeyTaken(c)
          /\ Persist(c)
          /\ Return(c)
          /\ granted' = [granted EXCEPT ![call[c].key] = @ + 1]
          /\ UNCHANGED <<today, reconciled>>
       \/ /\ Overtaken(c)
          /\ SerializationFailure(c)
       \/ /\ KeyTaken(c)
          /\ Return(c)
          /\ UNCHANGED <<today, quota, ledger, reconciled, granted>>

\* Commit reaches the database but its answer is lost (a cancelled context, a
\* dropped connection): the rows are there and the caller sees an error.
CommitUnacknowledged(c) ==
    /\ pc[c] = "insert"
    /\ ~ Overtaken(c)
    /\ ~ KeyTaken(c)
    /\ Persist(c)
    /\ Return(c)
    /\ UNCHANGED <<today, reconciled, granted>>

\* Mutant: isSerializationFailure accepts every error of the database.
FailRetried(c) ==
    /\ pc[c] # "idle"
    /\ SerializationFailure(c)

\* Any statement fails with an error that is not 40001: roll back, give up.
Fail(c) ==
    /\ pc[c] # "idle"
    /\ Return(c)
    /\ UNCHANGED <<today, quota, ledger, reconciled, granted>>

-----------------------------------------------------------------------------
(* The rest of the program, as far as it moves what admission reads.         *)

\* PositionRepository.Open, RecordMark and RecordNoRoute (module Positions).
Progress(i) ==
    /\ \/ /\ ledger[i].state = "PENDING"
          /\ ledger' = [ledger EXCEPT ![i].state = "OPEN"]
       \/ /\ ledger[i].state = "OPEN"
          /\ \E s \in TerminalStates : ledger' = [ledger EXCEPT ![i].state = s]
    /\ UNCHANGED <<today, quota, reconciled, rowLock, pc, call, granted>>

\* The attempts whose snapshot shows the row of day d, not yet locked.
Reading(d) == {c \in Callers : pc[c] = "reserve" /\ call[c].day = d}

\* DailyResultRepository.Reconcile of day d, a READ COMMITTED transaction: its
\* updates of the day's row wait for the lock of an admission and are a new
\* version of that row once committed; the count stays.  A day without a row
\* gets one when a position ended on it (no earlier than the day that paid for
\* it).  Without either, or rolled back, a reconciliation writes nothing.
Reconcile(d) ==
    /\ d <= today
    /\ rowLock[d] = NoCaller
    /\ reconciled < MaxReconciles
    /\ \/ quota[d] > 0
       \/ \E i \in Rows(ledger) : ledger[i].state \in TerminalStates /\ ledger[i].day <= d
    /\ reconciled' = reconciled + 1
    /\ call' = [c \in Callers |-> IF c \in Reading(d) THEN [call[c] EXCEPT !.missed = TRUE]
                                                     ELSE call[c]]
    /\ UNCHANGED <<today, quota, ledger, rowLock, pc, granted>>

NextDay ==
    /\ today < MaxDay
    /\ today' = today + 1
    /\ UNCHANGED <<quota, ledger, reconciled, rowLock, pc, call, granted>>

Attempt(c) == Begin(c) \/ Reserve(c) \/ Check(c) \/ Commit(c)

Next ==
    \/ \E c \in Callers : \/ \E k \in Keys : Call(c, k)
                          \/ Attempt(c)
                          \/ CommitUnacknowledged(c)
                          \/ Fail(c)
    \/ \E i \in Rows(ledger) : Progress(i)
    \/ \E d \in Days : Reconcile(d)
    \/ NextDay

Spec == Init /\ [][Next]_vars

-----------------------------------------------------------------------------
(* Properties.                                                              *)

\* The counter of a day is exactly the number of decisions committed for it,
\* and within the limit: a rejected, failed or retried admission never
\* consumes quota, and no interleaving pays once for two admissions.
\* (admission_repository.go:99-101)
QuotaAccounted ==
    \A d \in Days : quota[d] = DayCount(ledger, d) /\ quota[d] <= MaxDaily

\* However calls interleave, also across midnight, where two callers lock
\* different counter rows, PENDING and OPEN positions fit in the slots.
\* (context/architecture.md: "At most 3 open virtual positions")
OpenPositionsCapped == ActiveCount(ledger) <= MaxOpen

\* One decision per idempotency key, and at most one call is ever told that
\* it was the one admitted: the caller opens a position on that answer.
AdmittedOnce ==
    /\ \A i, j \in Rows(ledger) : ledger[i].key = ledger[j].key => i = j
    /\ \A k \in Keys : granted[k] > 0 =>
         granted[k] = 1 /\ \E i \in Rows(ledger) : ledger[i].key = k

\* An attempt is lost to 40001 only because another transaction committed
\* during it: an admission, or a reconciliation that wrote the day's row.  So
\* a call's lost attempts never outnumber the two together, and between two
\* reconciliations a retry limit above the number of free slots cannot be
\* reached (admission_repository_test.go runs 40 callers on 3 slots with
\* limit 5).
AttemptsPaidFor ==
    \A c \in Callers : call[c].attempt <= Len(ledger) + reconciled

\* The ledger, the counters and the clock behave as module Admission says.
Abstract == INSTANCE Admission WITH today <- today, quota <- quota, ledger <- ledger
AdmitsAtomically == Abstract!Spec
=============================================================================
