-------------------------- MODULE AutomationProofs --------------------------
(***************************************************************************)
(* Whatever fails, restarts or sets the clock back: the activity log can be    *)
(* read back and pairs the monitor's records, a record is refused only for as  *)
(* long as the clock is behind, and every admission is paid for.              *)
(***************************************************************************)
EXTENDS Automation, FiniteSetTheorems, SequenceTheorems, TLAPS

-----------------------------------------------------------------------------
(* The inductive invariant: control, log and ledger.                        *)

ControlInv ==
    /\ now \in Times
    /\ back \in 0 .. MaxBack
    /\ job \in Jobs \union {"none"}
    /\ jobNow \in Times
    /\ stage \in {"loop", "fetch", "judge", "open", "report"}
    /\ candidate \subseteq Pools /\ Cardinality(candidate) <= 1
    /\ todo \subseteq Pools
    /\ stage = "report" => job = "SCAN"
    /\ job \notin {"SCAN", "RETRY"} => stage = "loop"

LogIsSound ==
    /\ log \in Seq(Activity)
    /\ Valid(log)
    /\ PassesArePaired

\* The newest record is no later than the clock once was, and the pass that runs has
\* the last word.
NewestIsPast ==
    /\ log # <<>> => log[1].at <= now + back
    /\ job # "none" => /\ jobNow <= now + back
                       /\ log # <<>> => log[1].at <= jobNow + back
    /\ job = "MONITOR" => log # <<>> /\ log[1] = Record("MONITOR", "STARTED")

LogInv == LogIsSound /\ NewestIsPast

AdmittedOn(d) == {p \in Pools : d \in admitted[p]}

\* Between Reserve and Fetch there is a request to send, and between Fetch and
\* Admit one that has paid for no position yet.
LedgerInv ==
    /\ spent \in [Days -> Nat]
    /\ sent \in [Days -> Nat]
    /\ admitted \in [Pools -> SUBSET Days]
    /\ \A p \in Pools : Cardinality(admitted[p]) <= 1
    /\ \A d \in Days : /\ Cardinality(AdmittedOn(d)) <= sent[d]
                       /\ sent[d] <= spent[d]
                       /\ spent[d] <= MaxRequests
    /\ stage = "fetch" => sent[Today] < spent[Today]
    /\ stage = "judge" => Cardinality(AdmittedOn(Today)) < sent[Today]

IInv == ControlInv /\ LogInv /\ LedgerInv

-----------------------------------------------------------------------------
(* The log.                                                                 *)

LEMMA PrependedProperties ==
  ASSUME NEW l \in Seq(Activity), NEW e \in Activity
  PROVE  /\ Prepended(l, e) \in Seq(Activity)
         /\ Len(Prepended(l, e)) \in 1 .. MaxItems
         /\ Len(Prepended(l, e)) <= Len(l) + 1
         /\ Prepended(l, e)[1] = e
         /\ \A i \in 1 .. Len(Prepended(l, e)) - 1 :
              i \in 1 .. Len(l) /\ Prepended(l, e)[i + 1] = l[i]
<1> DEFINE all == <<e>> \o l
           n == IF Len(l) < MaxItems THEN Len(l) + 1 ELSE MaxItems
<1>1. /\ all \in Seq(Activity) /\ Len(all) = Len(l) + 1 /\ all[1] = e
      /\ \A i \in 1 .. Len(l) : all[i + 1] = l[i]
  OBVIOUS
<1>2. n \in 1 .. MaxItems /\ n <= Len(l) + 1 /\ Len(l) \in Nat
  BY AutomationAssumption, LenProperties
<1>3. /\ SubSeq(all, 1, n) \in Seq(Activity) /\ Len(SubSeq(all, 1, n)) = n
      /\ \A i \in 1 .. n : SubSeq(all, 1, n)[i] = all[i]
  <2> HIDE DEF all, n
  <2> QED BY <1>1, <1>2
<1>4. Prepended(l, e) = SubSeq(all, 1, n)
  BY DEF Prepended
<1> HIDE DEF all, n
<1> QED BY <1>1, <1>2, <1>3, <1>4

\* A record is refused only for being older than the newest.
LEMMA RefusedIfOlder ==
  ASSUME NEW l \in Seq(Activity), Valid(l), NEW e \in Activity, ~ Valid(Prepended(l, e))
  PROVE  l # <<>> /\ e.at < l[1].at
<1> DEFINE r == Prepended(l, e)
<1>1. /\ Len(r) \in 1 .. MaxItems /\ r[1] = e /\ DOMAIN r = 1 .. Len(r)
      /\ \A i \in 1 .. Len(r) - 1 : i \in 1 .. Len(l) /\ r[i + 1] = l[i]
  BY PrependedProperties, LenProperties
<1>2. /\ Len(l) \in Nat /\ \A i \in 1 .. Len(l) : l[i] \in Activity
      /\ \A i, j \in 1 .. Len(l) : i < j => l[j].at <= l[i].at
  BY LenProperties, ElementOfSeq DEF Valid
<1>3. e.at \in Nat /\ \A i \in 1 .. Len(l) : l[i].at \in Nat
  BY <1>2 DEF Activity, Times
<1>4. PICK i, j \in 1 .. Len(r) : i < j /\ ~ (r[j].at <= r[i].at)
  BY <1>1, AutomationAssumption DEF Valid
<1>5. j - 1 \in 1 .. Len(r) - 1 /\ (j - 1) + 1 = j /\ Len(r) \in Nat
  BY <1>1, <1>4
<1>6. j - 1 \in 1 .. Len(l) /\ r[j] = l[j - 1]
  BY <1>1, <1>5
<1>7. CASE i = 1
  <2>1. l[j - 1].at <= l[1].at
    BY <1>2, <1>3, <1>6
  <2> QED BY <1>1, <1>2, <1>3, <1>4, <1>6, <1>7, <2>1
<1>8. CASE i # 1
  <2>1. i - 1 \in 1 .. Len(r) - 1 /\ (i - 1) + 1 = i /\ i - 1 < j - 1
    BY <1>4, <1>5, <1>8
  <2>2. i - 1 \in 1 .. Len(l) /\ r[i] = l[i - 1]
    BY <1>1, <2>1
  <2>3. l[j - 1].at <= l[i - 1].at
    BY <1>2, <1>6, <2>1, <2>2
  <2> QED BY <1>4, <1>6, <2>2, <2>3
<1> QED BY <1>7, <1>8

\* A record keeps the log sound, if it is of a scan or a start, or ends the
\* pass that the newest record began.
LEMMA AppendKeepsSound ==
  ASSUME LogIsSound, NEW e \in Activity, AppendActivity(e),
         \/ e.job = "SCAN" \/ e.outcome = "STARTED"
         \/ log # <<>> /\ log[1] = [e EXCEPT !.outcome = "STARTED"]
  PROVE  LogIsSound' /\ log' # <<>> /\ log'[1] = e
<1>1. /\ log \in Seq(Activity) /\ log' = Prepended(log, e) /\ Valid(log')
  BY DEF LogIsSound, AppendActivity, Valid
<1>2. /\ log' \in Seq(Activity) /\ Len(log') \in Nat /\ Len(log') >= 1 /\ log'[1] = e
      /\ Len(log') <= Len(log) + 1 /\ Len(log) \in Nat
      /\ DOMAIN log' = 1 .. Len(log') /\ DOMAIN log = 1 .. Len(log)
      /\ \A i \in 1 .. Len(log') - 1 : i \in 1 .. Len(log) /\ log'[i + 1] = log[i]
  <2>1. /\ log' \in Seq(Activity) /\ Len(log') \in 1 .. MaxItems
        /\ Len(log') <= Len(log) + 1 /\ log'[1] = e
        /\ \A i \in 1 .. Len(log') - 1 : i \in 1 .. Len(log) /\ log'[i + 1] = log[i]
    <3> DEFINE r == Prepended(log, e)
    <3>1. /\ r \in Seq(Activity) /\ Len(r) \in 1 .. MaxItems
          /\ Len(r) <= Len(log) + 1 /\ r[1] = e
          /\ \A i \in 1 .. Len(r) - 1 : i \in 1 .. Len(log) /\ r[i + 1] = log[i]
      BY <1>1, PrependedProperties
    <3>2. log' = r
      BY <1>1
    <3> HIDE DEF r
    <3> QED BY <3>1, <3>2
  <2> QED BY <1>1, <2>1, LenProperties
<1>3. ASSUME NEW i \in DOMAIN log',
             log'[i].job = "MONITOR", log'[i].outcome # "STARTED", i < Len(log')
      PROVE  log'[i + 1] = [log'[i] EXCEPT !.outcome = "STARTED"]
  <2>1. i \in 1 .. Len(log') - 1 /\ log'[i + 1] = log[i] /\ i \in 1 .. Len(log)
    BY <1>2, <1>3
  <2>2. CASE i = 1
    BY <1>2, <1>3, <2>1, <2>2
  <2>3. CASE i # 1
    <3>1. i - 1 \in 1 .. Len(log') - 1 /\ (i - 1) + 1 = i
      BY <1>2, <2>1, <2>3
    <3>2. log'[i] = log[i - 1] /\ i - 1 \in DOMAIN log /\ i - 1 < Len(log)
      BY <1>2, <2>1, <3>1
    <3>3. log[(i - 1) + 1] = [log[i - 1] EXCEPT !.outcome = "STARTED"]
      BY <1>3, <3>2 DEF LogIsSound, PassesArePaired
    <3> QED BY <2>1, <3>1, <3>2, <3>3
  <2> QED BY <2>2, <2>3
<1>4. PassesArePaired'
  BY <1>3 DEF PassesArePaired
<1> QED BY <1>1, <1>2, <1>4 DEF LogIsSound

LEMMA RecordsAreActivities ==
  ASSUME ControlInv
  PROVE  /\ \A t \in Times, j \in {"SCAN", "MONITOR"}, o \in Outcomes :
              [at |-> t, job |-> j, outcome |-> o] \in Activity
         /\ \A j \in {"SCAN", "MONITOR"}, o \in Outcomes :
              /\ Record(j, o) \in Activity
              /\ Record(j, o).at = jobNow /\ Record(j, o).job = j /\ Record(j, o).outcome = o
              /\ [Record(j, o) EXCEPT !.outcome = "STARTED"] = Record(j, "STARTED")
  BY DEF ControlInv, Activity, Record

LEMMA Numbers ==
  ASSUME ControlInv, log \in Seq(Activity)
  PROVE  /\ now \in Nat /\ back \in Nat /\ jobNow \in Nat
         /\ log # <<>> => log[1].at \in Nat
<1>1. log # <<>> => log[1] \in Activity
  BY LenProperties, EmptySeq, ElementOfSeq
<1> QED BY <1>1, AutomationAssumption DEF ControlInv, Activity, Times

-----------------------------------------------------------------------------
(* The log is kept by every step.                                           *)

\* Steps that leave the log alone, in a job or ending one, with the clock as is.
LEMMA QuietLog ==
  ASSUME LogInv, UNCHANGED <<clock, log>>,
         job' = "none" \/ (UNCHANGED <<job, jobNow>>)
  PROVE  LogInv'
<1>1. LogIsSound'
  BY DEF LogInv, LogIsSound, Valid, PassesArePaired
<1>2. NewestIsPast'
  BY DEF LogInv, NewestIsPast, clock, Record
<1> QED BY <1>1, <1>2 DEF LogInv

\* A record of the scan or the pass that runs.
LEMMA RecordLog ==
  ASSUME ControlInv, LogInv, UNCHANGED clock, NEW j \in {"SCAN", "MONITOR"}, job = j,
         NEW o \in Outcomes, TryAppend(Record(j, o)),
         \/ job' = "none"
         \/ j = "SCAN" /\ UNCHANGED <<job, jobNow>>
  PROVE  LogInv'
<1>1. CASE UNCHANGED log
  BY <1>1, QuietLog
<1>2. CASE AppendActivity(Record(j, o))
  <2>1. LogIsSound' /\ log' # <<>> /\ log'[1] = Record(j, o)
    <3>1. j = "MONITOR" => log # <<>> /\ log[1] = [Record(j, o) EXCEPT !.outcome = "STARTED"]
      BY RecordsAreActivities DEF LogInv, NewestIsPast
    <3>2. Record(j, o) \in Activity /\ Record(j, o).job = j
      BY RecordsAreActivities
    <3> QED BY <1>2, <3>1, <3>2, AppendKeepsSound DEF LogInv
  <2>2. log'[1].at = jobNow /\ now \in Nat /\ back \in Nat /\ jobNow \in Nat
    BY <2>1, RecordsAreActivities, Numbers DEF LogInv, LogIsSound
  <2>3. jobNow <= now + back /\ job' # "MONITOR"
    BY DEF LogInv, NewestIsPast
  <2>4. NewestIsPast'
    BY <2>1, <2>2, <2>3 DEF NewestIsPast, clock
  <2> QED BY <2>1, <2>4 DEF LogInv
<1> QED BY <1>1, <1>2 DEF TryAppend

LEMMA StartLog ==
  ASSUME ControlInv, LogInv, StartScan \/ StartRetry \/ StartMonitor
  PROVE  LogInv'
<1>1. job = "none" /\ jobNow' = now /\ UNCHANGED clock
  BY DEF StartScan, StartRetry, StartMonitor, Begin
<1>2. now \in Nat /\ back \in Nat /\ now \in Times
  BY Numbers DEF LogInv, LogIsSound, ControlInv
<1>3. CASE UNCHANGED log /\ job' # "MONITOR"
  <2>1. LogIsSound'
    BY <1>3 DEF LogInv, LogIsSound, Valid, PassesArePaired
  <2>2. NewestIsPast'
    BY <1>1, <1>2, <1>3 DEF LogInv, NewestIsPast, clock
  <2> QED BY <2>1, <2>2 DEF LogInv
<1>4. ASSUME NEW j \in {"SCAN", "MONITOR"}, job' = j,
             AppendActivity([at |-> now, job |-> j, outcome |-> "STARTED"])
      PROVE  LogInv'
  <2> DEFINE e == [at |-> now, job |-> j, outcome |-> "STARTED"]
  <2>1. e \in Activity /\ e.outcome = "STARTED" /\ e.at = now
    BY <1>2 DEF Activity, Outcomes
  <2>2. LogIsSound' /\ log' # <<>> /\ log'[1] = e
    <3> HIDE DEF e
    <3>1. AppendActivity(e)
      BY <1>4 DEF e
    <3> QED BY <2>1, <3>1, AppendKeepsSound DEF LogInv
  <2>3. NewestIsPast'
    BY <1>1, <1>2, <1>4, <2>2 DEF NewestIsPast, Record, clock
  <2> QED BY <2>2, <2>3 DEF LogInv
<1> QED BY <1>3, <1>4 DEF StartScan, StartRetry, StartMonitor, Begin, TryAppend, StartRecorded

LEMMA FailedLog ==
  ASSUME ControlInv, LogInv, Working, Failed, UNCHANGED clock
  PROVE  LogInv'
<1>1. job' = "none"
  BY DEF Failed, End
<1>2. CASE job = "SCAN"
  BY <1>1, <1>2, RecordLog DEF Failed, Outcomes
<1>3. CASE job # "SCAN"
  BY <1>1, <1>3, QuietLog DEF Failed
<1> QED BY <1>2, <1>3

LEMMA ClockLog ==
  ASSUME ControlInv, LogInv, Tick \/ SetBack
  PROVE  LogInv'
<1>1. job' = job /\ jobNow' = jobNow /\ log' = log
  BY DEF Tick, SetBack
<1>2. now \in Nat /\ back \in Nat /\ jobNow \in Nat /\ (log # <<>> => log[1].at \in Nat)
  BY Numbers DEF LogInv, LogIsSound
<1>3. /\ now' \in Nat /\ back' \in Nat
      /\ \/ now' = now + 1 /\ back' = back
         \/ now' = now - 1 /\ back' = back + 1
  <2>1. now \in Nat /\ back \in Nat
    BY <1>2
  <2>2. CASE Tick
    BY <2>1, <2>2 DEF Tick
  <2>3. CASE SetBack
    BY <2>1, <2>3 DEF SetBack
  <2> QED BY <2>2, <2>3
<1>4. LogIsSound'
  BY <1>1 DEF LogInv, LogIsSound, Valid, PassesArePaired
<1>5. /\ log' # <<>> => log'[1].at <= now' + back'
      /\ job' # "none" => jobNow' <= now' + back'
      /\ job' # "none" /\ log' # <<>> => log'[1].at <= jobNow' + back'
  <2> DEFINE newest == log[1].at
  <2>1. /\ log # <<>> => newest \in Nat /\ newest <= now + back
        /\ job # "none" => jobNow <= now + back
        /\ job # "none" /\ log # <<>> => newest <= jobNow + back
    BY <1>2 DEF LogInv, NewestIsPast
  <2>2. log' # <<>> => log # <<>> /\ log'[1].at = newest
    BY <1>1
  <2> HIDE DEF newest
  <2>3. ASSUME job # "none"
        PROVE  jobNow <= now' + back'
    <3>1. jobNow <= now + back
      BY <2>1, <2>3
    <3>2. CASE now' = now + 1 /\ back' = back
      BY <1>2, <3>1, <3>2
    <3>3. CASE now' = now - 1 /\ back' = back + 1
      BY <1>2, <3>1, <3>3
    <3> QED BY <1>3, <3>2, <3>3
  <2>4. log # <<>> => newest <= now' + back'
    BY <1>2, <1>3, <2>1
  <2>5. job # "none" /\ log # <<>> => newest <= jobNow + back'
    BY <1>2, <1>3, <2>1
  <2> QED BY <1>1, <2>2, <2>3, <2>4, <2>5
<1>6. job' = "MONITOR" => log' # <<>> /\ log'[1] = Record("MONITOR", "STARTED")'
  BY <1>1 DEF LogInv, NewestIsPast, Record
<1>7. NewestIsPast'
  BY <1>5, <1>6 DEF NewestIsPast
<1> QED BY <1>7, <1>4, <1>5 DEF LogInv

LEMMA NextLog == ControlInv /\ LogInv /\ [Next]_vars => LogInv'
<1> SUFFICES ASSUME ControlInv, LogInv, [Next]_vars PROVE LogInv'
  OBVIOUS
<1>1. CASE UNCHANGED vars
  BY <1>1, QuietLog DEF vars, clock
<1>2. CASE StartScan \/ StartRetry \/ StartMonitor
  BY <1>2, StartLog
<1>3. CASE EndMonitor
  BY <1>3, RecordLog DEF EndMonitor, End, Outcomes
<1>4. ASSUME NEW p \in Pools, TurnDown(p)
      PROVE  LogInv'
  BY <1>4, QuietLog DEF TurnDown
<1>5. ASSUME NEW p \in Pools, Reserve(p)
      PROVE  LogInv'
  BY <1>5, QuietLog, FailedLog DEF Reserve
<1>6. ASSUME NEW p \in Pools, Admit(p)
      PROVE  LogInv'
  BY <1>6, QuietLog, FailedLog DEF Admit
<1>7. CASE Fetch
  BY <1>7, QuietLog, FailedLog DEF Fetch
<1>8. CASE Reject \/ Open
  BY <1>8, QuietLog DEF Reject, Open
<1>9. CASE Fail
  BY <1>9, FailedLog DEF Fail
<1>10. CASE Finish
  <2>1. CASE job = "SCAN"
    BY <1>10, <2>1, RecordLog DEF Finish, Outcomes
  <2>2. CASE job # "SCAN"
    BY <1>10, <2>2, QuietLog DEF Finish, End
  <2> QED BY <2>1, <2>2
<1>11. CASE Report \/ Restart
  BY <1>11, QuietLog DEF Report, Restart, End
<1>12. CASE Tick \/ SetBack
  BY <1>12, ClockLog
<1> QED BY <1>1, <1>2, <1>3, <1>4, <1>5, <1>6, <1>7, <1>8, <1>9, <1>10, <1>11, <1>12 DEF Next
-----------------------------------------------------------------------------
(* The ledger is kept by every step.                                        *)

LEMMA AdmittedCounts ==
  \A d : IsFiniteSet(AdmittedOn(d)) /\ Cardinality(AdmittedOn(d)) \in Nat
<1> SUFFICES ASSUME NEW d
             PROVE  IsFiniteSet(AdmittedOn(d)) /\ Cardinality(AdmittedOn(d)) \in Nat
  OBVIOUS
<1>1. AdmittedOn(d) \subseteq Pools
  BY DEF AdmittedOn
<1> QED BY <1>1, FS_Subset, FS_CardinalityType, AutomationAssumption

LEMMA TodayIsADay == ControlInv => Today \in Days
  BY DEF ControlInv, Today, Days

\* Steps that pay nothing and are then before Reserve or after Admit.
LEMMA QuietLedger ==
  ASSUME LedgerInv, UNCHANGED ledger,
         stage' \in {"loop", "open", "report"} \/ (UNCHANGED <<stage, jobNow>>)
  PROVE  LedgerInv'
<1>1. spent' = spent /\ sent' = sent /\ admitted' = admitted
  BY DEF ledger
<1>2. \A d : AdmittedOn(d)' = AdmittedOn(d)
  BY <1>1 DEF AdmittedOn
<1>3. /\ stage' = "fetch" => sent'[Today'] < spent'[Today']
      /\ stage' = "judge" => Cardinality(AdmittedOn(Today)') < sent'[Today']
  BY <1>1, <1>2 DEF LedgerInv, Today, AdmittedOn
<1> QED BY <1>1, <1>2, <1>3 DEF LedgerInv

LEMMA ReserveLedger ==
  ASSUME ControlInv, LedgerInv, NEW p \in Pools, Reserve(p)
  PROVE  LedgerInv'
<1>1. /\ spent' = [spent EXCEPT ![Today] = @ + 1] /\ sent' = sent /\ admitted' = admitted
      /\ spent[Today] < MaxRequests
      /\ (stage' = "fetch" /\ jobNow' = jobNow) \/ stage' = "loop"
  BY DEF Reserve, BudgetLeft, Failed, End
<1>2. Today \in Days /\ spent \in [Days -> Nat] /\ sent \in [Days -> Nat] /\ MaxRequests \in Nat
  BY TodayIsADay, AutomationAssumption DEF LedgerInv
<1>3. \A d : AdmittedOn(d)' = AdmittedOn(d)
  BY <1>1 DEF AdmittedOn
<1>4. /\ spent' \in [Days -> Nat] /\ spent'[Today] = spent[Today] + 1
      /\ \A d \in Days : spent[d] <= spent'[d] /\ spent'[d] <= MaxRequests
  BY <1>1, <1>2 DEF LedgerInv
<1>5. \A d \in Days : sent'[d] <= spent'[d]
  BY <1>1, <1>2, <1>4 DEF LedgerInv
<1>6. stage' = "fetch" => sent'[Today'] < spent'[Today']
  BY <1>1, <1>2, <1>4 DEF LedgerInv, Today
<1>7. stage' # "judge"
  BY <1>1
<1> QED BY <1>1, <1>2, <1>3, <1>4, <1>5, <1>6, <1>7 DEF LedgerInv

LEMMA FetchLedger ==
  ASSUME ControlInv, LedgerInv, Fetch
  PROVE  LedgerInv'
<1>1. /\ sent' = [sent EXCEPT ![Today] = @ + 1] /\ spent' = spent /\ admitted' = admitted
      /\ stage = "fetch"
      /\ (stage' = "judge" /\ jobNow' = jobNow) \/ stage' = "loop"
  BY DEF Fetch, NextCandidate, Failed, End
<1>2. Today \in Days /\ spent \in [Days -> Nat] /\ sent \in [Days -> Nat]
  BY TodayIsADay DEF LedgerInv
<1>3. \A d : AdmittedOn(d)' = AdmittedOn(d) /\ Cardinality(AdmittedOn(d)) \in Nat
  BY <1>1, AdmittedCounts DEF AdmittedOn
<1>4. /\ sent' \in [Days -> Nat] /\ sent'[Today] = sent[Today] + 1
      /\ \A d \in Days : sent[d] <= sent'[d] /\ sent'[d] <= spent'[d]
  BY <1>1, <1>2 DEF LedgerInv
<1>5. \A d \in Days : Cardinality(AdmittedOn(d)') <= sent'[d]
  BY <1>2, <1>3, <1>4 DEF LedgerInv
<1>6. stage' = "judge" => Cardinality(AdmittedOn(Today)') < sent'[Today']
  <2> SUFFICES ASSUME stage' = "judge"
               PROVE  Cardinality(AdmittedOn(Today)') < sent'[Today']
    OBVIOUS
  <2>1. Today' = Today
    BY <1>1 DEF Today
  <2>2. AdmittedOn(Today)' = AdmittedOn(Today)
    BY <1>1, <2>1 DEF AdmittedOn
  <2>3. Cardinality(AdmittedOn(Today)) <= sent[Today]
    BY <1>2 DEF LedgerInv
  <2> QED BY <1>2, <1>3, <1>4, <2>1, <2>2, <2>3
<1>7. stage' # "fetch"
  BY <1>1
<1> QED BY <1>1, <1>2, <1>3, <1>4, <1>5, <1>6, <1>7 DEF LedgerInv

LEMMA AdmitLedger ==
  ASSUME ControlInv, LedgerInv, NEW p \in Pools, Admit(p)
  PROVE  LedgerInv'
<1>1. /\ admitted' = [admitted EXCEPT ![p] = @ \union {Today}] /\ admitted[p] = {}
      /\ spent' = spent /\ sent' = sent
      /\ stage = "judge" /\ stage' \in {"open", "loop"}
  BY DEF Admit, KeyIsFree, Failed, End
<1>2. Today \in Days /\ sent \in [Days -> Nat] /\ admitted \in [Pools -> SUBSET Days]
  BY TodayIsADay DEF LedgerInv
<1>3. admitted' \in [Pools -> SUBSET Days] /\ \A q \in Pools : Cardinality(admitted'[q]) <= 1
  <2>1. admitted'[p] = {Today} /\ Cardinality({Today}) = 1
    BY <1>1, <1>2, FS_Singleton
  <2>2. \A q \in Pools \ {p} : admitted'[q] = admitted[q]
    BY <1>1, <1>2
  <2>3. ASSUME NEW q \in Pools
        PROVE  Cardinality(admitted'[q]) <= 1
    <3>1. CASE q = p
      BY <2>1, <3>1
    <3>2. CASE q # p
      BY <2>2, <3>2 DEF LedgerInv
    <3> QED BY <3>1, <3>2
  <2> QED BY <1>1, <1>2, <2>3
<1>4. ASSUME NEW d \in Days
      PROVE  Cardinality(AdmittedOn(d)') <= sent'[d]
  <2>1. CASE d # Today
    <3>1. AdmittedOn(d)' = AdmittedOn(d)
      BY <1>1, <1>2, <2>1 DEF AdmittedOn
    <3> QED BY <1>1, <3>1 DEF LedgerInv
  <2>2. CASE d = Today
    <3>1. AdmittedOn(d)' = AdmittedOn(d) \union {p}
      BY <1>1, <1>2, <2>2 DEF AdmittedOn
    <3>2. \/ Cardinality(AdmittedOn(d) \union {p}) = Cardinality(AdmittedOn(d))
          \/ Cardinality(AdmittedOn(d) \union {p}) = Cardinality(AdmittedOn(d)) + 1
      BY AdmittedCounts, FS_AddElement
    <3>3. /\ Cardinality(AdmittedOn(d)) < sent[d] /\ sent[d] \in Nat
          /\ Cardinality(AdmittedOn(d)) \in Nat /\ Cardinality(AdmittedOn(d) \union {p}) \in Nat
      BY <1>1, <1>2, <2>2, AdmittedCounts, FS_AddElement, FS_CardinalityType DEF LedgerInv
    <3> QED BY <1>1, <3>1, <3>2, <3>3
  <2> QED BY <2>1, <2>2
<1> QED BY <1>1, <1>3, <1>4 DEF LedgerInv

LEMMA NextLedger == ControlInv /\ LedgerInv /\ [Next]_vars => LedgerInv'
<1> SUFFICES ASSUME ControlInv, LedgerInv, [Next]_vars PROVE LedgerInv'
  OBVIOUS
<1>1. CASE UNCHANGED vars
  BY <1>1, QuietLedger DEF vars, ledger
<1>2. CASE StartScan \/ StartRetry \/ StartMonitor
  BY <1>2, QuietLedger DEF StartScan, StartRetry, StartMonitor, Begin
<1>3. CASE EndMonitor \/ Report \/ Restart
  BY <1>3, QuietLedger DEF EndMonitor, Report, Restart, End
<1>4. ASSUME NEW p \in Pools, TurnDown(p)
      PROVE  LedgerInv'
  BY <1>4, QuietLedger DEF TurnDown, NextCandidate
<1>5. CASE Reject \/ Open
  BY <1>5, QuietLedger DEF Reject, Open, NextCandidate
<1>6. CASE Fail
  BY <1>6, QuietLedger DEF Fail, Failed, End
<1>7. CASE Finish
  BY <1>7, QuietLedger DEF Finish, End
<1>8. CASE Tick \/ SetBack
  BY <1>8, QuietLedger DEF Tick, SetBack
<1> QED BY <1>1, <1>2, <1>3, <1>4, <1>5, <1>6, <1>7, <1>8,
          ReserveLedger, FetchLedger, AdmitLedger DEF Next

-----------------------------------------------------------------------------
(* Control, and the invariant.                                              *)

LEMMA NextControl == ControlInv /\ [Next]_vars => ControlInv'
<1> SUFFICES ASSUME ControlInv, [Next]_vars PROVE ControlInv'
  OBVIOUS
<1>1. 0 \in Times /\ Cardinality({}) = 0
  BY AutomationAssumption, FS_EmptySet DEF Times
<1>2. ASSUME End, UNCHANGED clock
      PROVE  ControlInv'
  BY <1>1, <1>2 DEF End, ControlInv, clock
<1>3. ASSUME Working, UNCHANGED <<clock, job, jobNow>>, todo' \subseteq todo,
             \/ stage' = "loop" /\ candidate' = {}
             \/ stage' \in {"judge", "open"} /\ candidate' = candidate
      PROVE  ControlInv'
  BY <1>1, <1>3 DEF ControlInv, clock, Working
<1>4. CASE StartScan \/ StartRetry \/ StartMonitor
  <2>1. /\ job' \in Jobs /\ jobNow' = now /\ stage' = "loop" /\ candidate' = {}
        /\ todo' \subseteq Pools /\ UNCHANGED clock
    BY <1>4 DEF StartScan, StartRetry, StartMonitor, Begin, Jobs
  <2> QED BY <1>1, <2>1 DEF ControlInv, clock
<1>5. CASE EndMonitor \/ Report \/ Restart
  BY <1>2, <1>5 DEF EndMonitor, Report, Restart
<1>6. ASSUME NEW p \in Pools, TurnDown(p)
      PROVE  ControlInv'
  BY <1>3, <1>6 DEF TurnDown, NextCandidate
<1>7. ASSUME NEW p \in Pools, Reserve(p)
      PROVE  ControlInv'
  <2>1. CASE End
    BY <1>2, <1>7, <2>1 DEF Reserve
  <2>2. CASE stage' = "fetch" /\ candidate' = {p} /\ todo' = todo \ {p} /\ UNCHANGED <<job, jobNow>>
    <3>1. Working /\ now' = now /\ back' = back
      BY <1>7 DEF Reserve, clock
    <3>2. Cardinality({p}) = 1
      BY FS_Singleton
    <3>3. Cardinality(candidate') <= 1 /\ candidate' \subseteq Pools
      BY <1>7, <2>2, <3>2
    <3> QED BY <2>2, <3>1, <3>3 DEF ControlInv, Working
  <2> QED BY <1>7, <2>1, <2>2 DEF Reserve, Failed
<1>8. CASE Fetch
  BY <1>2, <1>3, <1>8 DEF Fetch, Failed, NextCandidate
<1>9. ASSUME NEW p \in Pools, Admit(p)
      PROVE  ControlInv'
  BY <1>2, <1>3, <1>9 DEF Admit, Failed
<1>10. CASE Reject \/ Open
  BY <1>3, <1>10 DEF Reject, Open, NextCandidate
<1>11. CASE Fail
  BY <1>2, <1>11 DEF Fail, Failed
<1>12. CASE Finish
  <2>1. CASE job = "SCAN"
    BY <1>12, <2>1 DEF Finish, ControlInv, clock
  <2>2. CASE job # "SCAN"
    BY <1>2, <1>12, <2>2 DEF Finish
  <2> QED BY <2>1, <2>2
<1>13. CASE Tick \/ SetBack
  <2>1. now' \in Times /\ back' \in 0 .. MaxBack
    BY <1>13, AutomationAssumption DEF Tick, SetBack, ControlInv, Times
  <2> QED BY <1>13, <2>1 DEF Tick, SetBack, ControlInv
<1>14. CASE UNCHANGED vars
  BY <1>14 DEF vars, ControlInv
<1> QED BY <1>4, <1>5, <1>6, <1>7, <1>8, <1>9, <1>10, <1>11, <1>12, <1>13, <1>14 DEF Next

LEMMA InitInv == Init => IInv
<1> SUFFICES ASSUME Init PROVE IInv
  OBVIOUS
<1>1. ControlInv
  BY AutomationAssumption, FS_EmptySet DEF Init, ControlInv, Times
<1>2. LogInv
  BY AutomationAssumption DEF Init, LogInv, LogIsSound, NewestIsPast, Valid, PassesArePaired
<1>3. LedgerInv
  <2>1. \A d : AdmittedOn(d) = {}
    BY DEF Init, AdmittedOn
  <2>2. Cardinality({}) = 0
    BY FS_EmptySet
  <2>3. /\ spent = [d \in Days |-> 0] /\ sent = [d \in Days |-> 0]
        /\ admitted = [p \in Pools |-> {}] /\ stage = "loop"
    BY DEF Init
  <2>4. MaxRequests \in Nat
    BY AutomationAssumption
  <2>5. \A d \in Days : /\ Cardinality(AdmittedOn(d)) <= sent[d]
                       /\ sent[d] <= spent[d] /\ spent[d] <= MaxRequests
    BY <2>1, <2>2, <2>3, <2>4
  <2>6. /\ spent \in [Days -> Nat] /\ sent \in [Days -> Nat]
        /\ admitted \in [Pools -> SUBSET Days]
        /\ \A p \in Pools : Cardinality(admitted[p]) <= 1
    BY <2>2, <2>3
  <2> QED BY <2>3, <2>5, <2>6 DEF LedgerInv
<1> QED BY <1>1, <1>2, <1>3 DEF IInv

LEMMA InvHolds == Spec => []IInv
<1>1. IInv /\ [Next]_vars => IInv'
  BY NextControl, NextLog, NextLedger DEF IInv
<1> QED BY InitInv, <1>1, PTL DEF Spec

-----------------------------------------------------------------------------
(* The theorems.                                                            *)

\* Every reachable state of the automation is of its type; a pool is admitted
\* at most once in all.
THEOREM TypeCorrect == Spec => []TypeOK
<1>1. IInv => TypeOK
  BY DEF IInv, ControlInv, LogInv, LogIsSound, LedgerInv, Valid, TypeOK
<1> QED BY <1>1, InvHolds, PTL

\* The stored log can always be read back, for any number of entries and
\* however often the clock is set back.
THEOREM LogAlwaysReadable == Spec => []LogStaysReadable
<1>1. IInv => LogStaysReadable
  BY DEF IInv, LogInv, LogIsSound, LogStaysReadable
<1> QED BY <1>1, InvHolds, PTL

\* A pass on record as ended is on record as started, next to it.
THEOREM PassesAlwaysPaired == Spec => []PassesArePaired
<1>1. IInv => PassesArePaired
  BY DEF IInv, LogInv, LogIsSound
<1> QED BY <1>1, InvHolds, PTL

\* A record is refused only while the clock is behind the newest one, and never
\* by more than the clock was set back.
THEOREM RefusalsAlwaysEnd == Spec => []RefusalsEnd
<1>1. IInv => RefusalsEnd
  <2> SUFFICES ASSUME IInv, job # "none", ~ Valid(Prepended(log, Record("MONITOR", "STARTED")))
               PROVE  jobNow < log[1].at /\ log[1].at <= jobNow + back
    BY DEF RefusalsEnd
  <2>1. LET e == Record("MONITOR", "STARTED") IN e \in Activity /\ e.at = jobNow
    BY RecordsAreActivities DEF IInv, Outcomes
  <2>2. log # <<>> /\ jobNow < log[1].at
    BY <2>1, RefusedIfOlder DEF IInv, LogInv, LogIsSound
  <2> QED BY <2>2 DEF IInv, LogInv, NewestIsPast
<1> QED BY <1>1, InvHolds, PTL

\* However calls fail and jobs end, requests stay within what was reserved and
\* the daily limit, and admissions within the requests.
THEOREM BudgetAlwaysPays == Spec => []BudgetPaysForAll
<1>1. IInv => BudgetPaysForAll
  BY DEF IInv, LedgerInv, AdmittedOn, BudgetPaysForAll
<1> QED BY <1>1, InvHolds, PTL
=============================================================================
