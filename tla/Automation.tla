----------------------------- MODULE Automation -----------------------------
(***************************************************************************)
(* What the automation goroutine leaves behind: the activity log that the      *)
(* dashboard shows, the daily budget of social requests and the positions it    *)
(* admits (automation.go, production_scan_job.go, social_analyzer.go, *)
(* dashboard_activity_repository.go, social_evidence_repository.go).  Scans,     *)
(* retries and monitor passes run one at a time; everything a job stores bears  *)
(* the time at which the job began.  Any call may fail, a commit may go         *)
(* unacknowledged, the process may restart and the clock may be set back.      *)
(***************************************************************************)
EXTENDS Integers, Sequences, FiniteSets

CONSTANTS
    Pools,          \* candidates
    MaxItems,       \* domain.MaxDashboardItems
    MaxRequests,    \* MaxDailyRequests of the social analyzer
    DayLength,
    MaxTime,        \* bound: the clock stops here
    MaxBack         \* bound: how far the clock is set back in all

ASSUME AutomationAssumption ==
    /\ IsFiniteSet(Pools)
    /\ {MaxItems, MaxRequests, DayLength} \subseteq Nat \ {0}
    /\ {MaxTime, MaxBack} \subseteq Nat

VARIABLES
    now,        \* the clock
    back,       \* by how much it was set back in all
    job,        \* the job that runs
    jobNow,     \* its Now; 0 between jobs
    stage,      \* how far it is with a candidate
    candidate,  \* the candidate at hand, a set of one; none between candidates
    todo,       \* the candidates still to come
    log,        \* dashboard:automation-activity, newest first
    spent,      \* api_usage.request_count per UTC day
    sent,       \* requests the provider was really sent, by the job's UTC day
    admitted    \* positions admitted, by pool: the job's UTC day

vars == <<now, back, job, jobNow, stage, candidate, todo, log, spent, sent, admitted>>
clock == <<now, back>>
ledger == <<spent, sent, admitted>>

Times == 0 .. MaxTime
Day(t) == t \div DayLength
Days == {Day(t) : t \in Times}
Jobs == {"SCAN", "RETRY", "MONITOR"}
Outcomes == {"STARTED", "COMPLETED", "FAILED"}
Activity == [at : Times, job : {"SCAN", "MONITOR"}, outcome : Outcomes]
Record(j, o) == [at |-> jobNow, job |-> j, outcome |-> o]

TypeOK ==
    /\ now \in Times
    /\ back \in 0 .. MaxBack
    /\ job \in Jobs \union {"none"}
    /\ jobNow \in Times
    /\ stage \in {"loop", "fetch", "judge", "open", "report"}
    /\ candidate \subseteq Pools /\ Cardinality(candidate) <= 1
    /\ todo \subseteq Pools
    /\ log \in Seq(Activity) /\ Len(log) <= MaxItems
    /\ spent \in [Days -> Nat]
    /\ sent \in [Days -> Nat]
    /\ admitted \in [Pools -> SUBSET Days]
    /\ \A p \in Pools : Cardinality(admitted[p]) <= 1

Init ==
    /\ now = 0
    /\ back = 0
    /\ job = "none"
    /\ jobNow = 0
    /\ stage = "loop"
    /\ candidate = {}
    /\ todo = {}
    /\ log = <<>>
    /\ spent = [d \in Days |-> 0]
    /\ sent = [d \in Days |-> 0]
    /\ admitted = [p \in Pools |-> {}]

-----------------------------------------------------------------------------
(* The activity log.                                                        *)

\* Mutant: nothing is dropped at the end.
PrependedUntrimmed(l, e) == <<e>> \o l

\* prependBounded
Prepended(l, e) == SubSeq(<<e>> \o l, 1, IF Len(l) < MaxItems THEN Len(l) + 1 ELSE MaxItems)

\* ValidateDashboardActivity
Valid(l) == Len(l) <= MaxItems /\ \A i, j \in DOMAIN l : i < j => l[j].at <= l[i].at

\* Mutant: what was read is checked, what is written is not.
AppendUnchecked(e) == Valid(log) /\ log' = Prepended(log, e)

\* DashboardActivityRepository.Append, when it succeeds: the list as read and
\* the list to be written are both checked.
AppendActivity(e) ==
    /\ Valid(log)
    /\ Valid(Prepended(log, e))
    /\ log' = Prepended(log, e)

\* A record whose failure is ignored: refused, or its context has ended.
TryAppend(e) == AppendActivity(e) \/ UNCHANGED log

-----------------------------------------------------------------------------
(* Jobs.                                                                    *)

Begin(j) ==
    /\ job = "none"
    /\ job' = j
    /\ jobNow' = now
    /\ stage' = "loop"
    /\ candidate' = {}
    /\ UNCHANGED <<clock, ledger>>

End ==
    /\ job' = "none"
    /\ jobNow' = 0
    /\ stage' = "loop"
    /\ candidate' = {}
    /\ todo' = {}

\* What TakeDue and discovery bring is not known beforehand.
StartScan ==
    /\ Begin("SCAN")
    /\ todo' \in SUBSET Pools
    /\ TryAppend([at |-> now, job |-> "SCAN", outcome |-> "STARTED"])

\* MarketRetryDiscovery brings one pool; a retry has no activity records.
StartRetry ==
    /\ Begin("RETRY")
    /\ \E p \in Pools : todo' = {p}
    /\ UNCHANGED log

\* Mutant: as a scan, a pass does not mind that its start is not on record.
TryStart(e) == TryAppend(e)

\* A pass whose start cannot be recorded is not run.
StartRecorded(e) == AppendActivity(e)

StartMonitor ==
    /\ Begin("MONITOR")
    /\ todo' = {}
    /\ StartRecorded([at |-> now, job |-> "MONITOR", outcome |-> "STARTED"])

\* The pass succeeds or fails; its result is recorded even when its own time is
\* up, unless the database fails.
EndMonitor ==
    /\ job = "MONITOR"
    /\ \E o \in {"COMPLETED", "FAILED"} : TryAppend(Record("MONITOR", o))
    /\ End
    /\ UNCHANGED <<clock, ledger>>

\* An error ends a scan or a retry; candidates still to come are dropped.
Failed ==
    /\ IF job = "SCAN" THEN TryAppend(Record("SCAN", "FAILED")) ELSE UNCHANGED log
    /\ End

-----------------------------------------------------------------------------
(* evaluateAndMaybeOpen.                                                    *)

Working == job \in {"SCAN", "RETRY"}
Today == Day(jobNow)

NextCandidate == stage' = "loop" /\ candidate' = {}

\* Market evidence missing, a rule failed, too old, or not yet launched.
TurnDown(p) ==
    /\ Working
    /\ stage = "loop"
    /\ p \in todo
    /\ todo' = todo \ {p}
    /\ NextCandidate
    /\ UNCHANGED <<clock, job, jobNow, log, ledger>>

\* Mutant: the last request is the one beyond the limit.
OneMoreLeft == spent[Today] <= MaxRequests

BudgetLeft == spent[Today] < MaxRequests

\* Reserve, before anything is sent.
Reserve(p) ==
    /\ Working
    /\ stage = "loop"
    /\ p \in todo
    /\ BudgetLeft
    /\ spent' = [spent EXCEPT ![Today] = @ + 1]
    /\ \/ /\ stage' = "fetch"
          /\ candidate' = {p}
          /\ todo' = todo \ {p}
          /\ UNCHANGED <<job, jobNow, log>>
       \/ Failed            \* reserved, and not acknowledged
    /\ UNCHANGED <<clock, sent, admitted>>

\* The request is sent, whatever becomes of it.  Without posts, or with posts
\* of low quality, the candidate is done with.
Fetch ==
    /\ Working
    /\ stage = "fetch"
    /\ sent' = [sent EXCEPT ![Today] = @ + 1]
    /\ \/ /\ stage' = "judge"
          /\ UNCHANGED <<job, jobNow, candidate, todo, log>>
       \/ NextCandidate /\ UNCHANGED <<job, jobNow, todo, log>>
       \/ Failed
    /\ UNCHANGED <<clock, spent, admitted>>

\* The verdict is not good enough, or the repository does not admit.
Reject ==
    /\ Working
    /\ stage = "judge"
    /\ NextCandidate
    /\ UNCHANGED <<clock, job, jobNow, todo, log, ledger>>

KeyIsFree(p) == admitted[p] = {}

\* Admit commits; AdmissionTx has its detail.
Admit(p) ==
    /\ Working
    /\ stage = "judge"
    /\ candidate = {p}
    /\ KeyIsFree(p)
    /\ admitted' = [admitted EXCEPT ![p] = @ \union {Today}]
    /\ \/ stage' = "open" /\ UNCHANGED <<job, jobNow, candidate, todo, log>>
       \/ Failed            \* the commit is not acknowledged
    /\ UNCHANGED <<clock, spent, sent>>

\* PaperBroker.Open; PositionMonitor has what becomes of the position.
Open ==
    /\ Working
    /\ stage = "open"
    /\ NextCandidate
    /\ UNCHANGED <<clock, job, jobNow, todo, log, ledger>>

\* Any call fails or the job's time is up; an exhausted budget is an error too.
Fail ==
    /\ Working
    /\ stage # "report"
    /\ Failed
    /\ UNCHANGED <<clock, ledger>>

\* All candidates are handled.  A scan is COMPLETED before its report.
Finish ==
    /\ Working
    /\ stage = "loop"
    /\ todo = {}
    /\ IF job = "SCAN"
         THEN /\ TryAppend(Record("SCAN", "COMPLETED"))
              /\ stage' = "report"
              /\ UNCHANGED <<job, jobNow, candidate, todo>>
         ELSE End /\ UNCHANGED log
    /\ UNCHANGED <<clock, ledger>>

\* The daily report is written or fails: module DailyResults.
Report ==
    /\ stage = "report"
    /\ End
    /\ UNCHANGED <<clock, log, ledger>>

-----------------------------------------------------------------------------
Restart ==
    /\ job # "none"
    /\ End
    /\ UNCHANGED <<clock, log, ledger>>

Tick ==
    /\ now < MaxTime
    /\ now' = now + 1
    /\ UNCHANGED <<back, job, jobNow, stage, candidate, todo, log, ledger>>

SetBack ==
    /\ now > 0
    /\ back < MaxBack
    /\ now' = now - 1
    /\ back' = back + 1
    /\ UNCHANGED <<job, jobNow, stage, candidate, todo, log, ledger>>

Next ==
    \/ StartScan \/ StartRetry \/ StartMonitor \/ EndMonitor
    \/ \E p \in Pools : TurnDown(p) \/ Reserve(p) \/ Admit(p)
    \/ Fetch \/ Reject \/ Open
    \/ Fail \/ Finish \/ Report
    \/ Restart
    \/ Tick \/ SetBack

Spec == Init /\ [][Next]_vars

-----------------------------------------------------------------------------
(* Properties.                                                              *)

\* Whatever the clock does, the stored log stays one that the repository can
\* read back.  A log it rejects would reject every later record, and no monitor
\* pass could start again.  (dashboard_activity_repository.go:43-46, 92-94)
LogStaysReadable == Valid(log)

\* A monitor pass on record as ended is on record as started, immediately
\* before and at the same time, as far as the log reaches back.
\* (automation.go:406-421)
PassesArePaired ==
    \A i \in DOMAIN log :
      log[i].job = "MONITOR" /\ log[i].outcome # "STARTED" /\ i < Len(log) =>
        log[i + 1] = [log[i] EXCEPT !.outcome = "STARTED"]

\* A record of the job that runs is refused only when the clock was set back
\* since the newest one, and by no more than that: records, and with them
\* monitor passes, go on once the clock is where it was.
RefusalsEnd ==
    job # "none" /\ ~ Valid(Prepended(log, Record("MONITOR", "STARTED"))) =>
      /\ jobNow < log[1].at
      /\ log[1].at <= jobNow + back

\* On each UTC day the provider is asked no more often than was reserved, and
\* never more than MaxRequests times; every admission was paid for by a request
\* of the same day, whatever failed in between.
\* (social_evidence_repository.go:31-55, social_analyzer.go:61-68)
BudgetPaysForAll ==
    \A d \in Days :
      /\ Cardinality({p \in Pools : d \in admitted[p]}) <= sent[d]
      /\ sent[d] <= spent[d]
      /\ spent[d] <= MaxRequests
=============================================================================
