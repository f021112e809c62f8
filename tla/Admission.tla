----------------------------- MODULE Admission -----------------------------
(***************************************************************************)
(* What an admission promises, with no transaction in sight: a candidate    *)
(* is admitted in one atomic step, on a UTC day with quota left, while a     *)
(* slot is free, and never twice.  AdmissionTx implements this module.       *)
(***************************************************************************)
EXTENDS PaperLedger

CONSTANTS
    Keys,       \* idempotency keys: strategy, pool identity, creation time
    MaxDay,     \* bound on the clock: the days of a behaviour are 0..MaxDay
    MaxOpen,    \* AdmissionRepositoryOptions.MaxOpenPositions
    MaxDaily    \* AdmissionRepositoryOptions.MaxDailyAdmissions

VARIABLES
    today,      \* the repository clock's UTC date
    quota,      \* daily_results.daily_admitted_count by date (no row: 0)
    ledger      \* the committed decisions and positions

admissionVars == <<today, quota, ledger>>

Days == 0 .. MaxDay

Init ==
    /\ today = 0
    /\ quota = [d \in Days |-> 0]
    /\ ledger = <<>>

\* The whole of Admit when it answers Admitted.  d may be a day that has just
\* ended: the date is read before the transaction that uses it commits.
Admit(k, d) ==
    /\ d \in 0 .. today
    /\ quota[d] < MaxDaily
    /\ ~ HasKey(ledger, k)
    /\ ActiveCount(ledger) < MaxOpen
    /\ quota' = [quota EXCEPT ![d] = @ + 1]
    /\ ledger' = Append(ledger, PendingRow(k, d))
    /\ UNCHANGED today

\* The position repository moves a row along PENDING, OPEN, then a terminal
\* state; nothing brings a terminal position back.
Progress(i) ==
    /\ \/ /\ ledger[i].state = "PENDING"
          /\ ledger' = [ledger EXCEPT ![i].state = "OPEN"]
       \/ /\ ledger[i].state = "OPEN"
          /\ \E s \in TerminalStates : ledger' = [ledger EXCEPT ![i].state = s]
    /\ UNCHANGED <<today, quota>>

NextDay ==
    /\ today < MaxDay
    /\ today' = today + 1
    /\ UNCHANGED <<quota, ledger>>

Next ==
    \/ \E k \in Keys, d \in Days : Admit(k, d)
    \/ \E i \in Rows(ledger) : Progress(i)
    \/ NextDay

Spec == Init /\ [][Next]_admissionVars
=============================================================================
