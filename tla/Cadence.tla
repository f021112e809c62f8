------------------------------ MODULE Cadence ------------------------------
(***************************************************************************)
(* SplitCadence.Run (internal/application/split_cadence.go): one goroutine     *)
(* runs scan, monitor and retry one after another, driven by two tickers.  A    *)
(* ticker's channel holds one tick; a tick that finds it full is dropped.  The  *)
(* time a job takes is free up to its timeout.  One step of Elapse is one unit   *)
(* of time; everything else takes none.                                      *)
(***************************************************************************)
EXTENDS Integers

CONSTANTS
    ScanInterval, MonitorInterval,
    Limits,             \* per workload: the longest that each job takes, up
                        \* to its timeout, and for the monitor the time it
                        \* may still take to record its result
    PersistTimeout,     \* automationPersistTimeout
    MaxWait             \* bound: a longer wait is not measured

ASSUME CadenceAssumption ==
    /\ {ScanInterval, MonitorInterval} \subseteq Nat \ {0}
    /\ Limits \subseteq [{"scan", "monitor", "retry"} -> Nat \ {0}]
    /\ PersistTimeout \in Nat /\ \A l \in Limits : PersistTimeout <= l["monitor"]
    /\ MaxWait \in Nat

VARIABLES
    current,    \* the job that runs, "select" between two, "stopped" in the end
    left,       \* what is left of the running job's time
    ticking,    \* the tickers exist: the initial round is over
    scanIn, monitorIn,      \* time to the next tick
    scanTick, monitorTick,  \* a tick waits in the channel
    between,    \* a monitor pass was run since the last scan began
    waited,     \* time since the last monitor pass began, no further than
                \* MaxWait + 1
    longest,    \* the workload: it does not change
    dying       \* time since the context was cancelled, no further than
                \* PersistTimeout + 1; -1 before

tickers == <<scanIn, monitorIn, scanTick, monitorTick>>
cadenceVars == <<current, left, ticking, scanIn, monitorIn, scanTick, monitorTick, between, waited, longest, dying>>

Jobs == {"scan", "monitor", "retry"}
Cancelled == dying >= 0

CadenceTypeOK ==
    /\ current \in Jobs \union {"select", "stopped"}
    /\ left \in Nat
    /\ current \in Jobs => left <= longest[current]
    /\ longest \in Limits
    /\ ticking \in BOOLEAN /\ scanTick \in BOOLEAN /\ monitorTick \in BOOLEAN /\ between \in BOOLEAN
    /\ scanIn \in 1 .. ScanInterval
    /\ monitorIn \in 1 .. MonitorInterval
    /\ waited \in 0 .. MaxWait + 1
    /\ dying \in -1 .. PersistTimeout + 1

CadenceInit ==
    /\ current = "scan"
    /\ longest \in Limits
    /\ left = longest["scan"]
    /\ ticking = FALSE
    /\ scanIn = ScanInterval
    /\ monitorIn = MonitorInterval
    /\ scanTick = FALSE
    /\ monitorTick = FALSE
    /\ between = TRUE
    /\ waited = 0
    /\ dying = -1

\* A job under a cancelled context returns at once.
Begin(j) ==
    /\ current' = j
    /\ left' = IF Cancelled THEN 0 ELSE longest[j]
    /\ waited' = IF j = "monitor" THEN 0 ELSE waited
    /\ between' = (j # "scan" /\ (between \/ j = "monitor"))

-----------------------------------------------------------------------------
(* The end of a job: at any time within its limit.                          *)

\* The initial round goes on to the monitor; later scans go back to select.
FinishScan ==
    /\ current = "scan"
    /\ IF ticking THEN current' = "select" /\ UNCHANGED <<left, between, waited>>
                  ELSE Begin("monitor")
    /\ UNCHANGED <<ticking, tickers, dying, longest>>

FinishMonitor ==
    /\ current = "monitor"
    /\ Begin("retry")
    /\ UNCHANGED <<ticking, tickers, dying, longest>>

\* The first time, the tickers are created now.
FinishRetry ==
    /\ current = "retry"
    /\ current' = "select"
    /\ ticking' = TRUE
    /\ UNCHANGED <<left, tickers, between, waited, dying, longest>>

-----------------------------------------------------------------------------
(* The select statement: of several ready cases, any.                       *)

\* Mutant: the tick stays in the channel.
LeaveTick == UNCHANGED scanTick

TakeScanTick == scanTick' = FALSE

SelectScan ==
    /\ current = "select"
    /\ scanTick
    /\ TakeScanTick
    /\ Begin("scan")
    /\ UNCHANGED <<ticking, scanIn, monitorIn, monitorTick, dying, longest>>

\* Mutant: scans have priority.
NoScanReady == monitorTick /\ ~ scanTick

MonitorReady == monitorTick

SelectMonitor ==
    /\ current = "select"
    /\ MonitorReady
    /\ monitorTick' = FALSE
    /\ Begin("monitor")
    /\ UNCHANGED <<ticking, scanIn, monitorIn, scanTick, dying, longest>>

\* Mutant: cancellation is looked at when the loop begins only.
DoneAtBoot == Cancelled /\ ~ ticking

Done == Cancelled

SelectDone ==
    /\ current = "select"
    /\ Done
    /\ current' = "stopped"
    /\ UNCHANGED <<left, ticking, tickers, between, waited, dying, longest>>

-----------------------------------------------------------------------------
(* Time and cancellation.                                                   *)

\* Mutant: a tick that nobody waits for is lost.
LoseTick(waiting, now) == now /\ current = "select"

\* The channel holds one tick.
Buffer(waiting, now) == waiting \/ now

\* Mutant: the monitor ticker is never reset.
AdvancePast ==
    /\ scanIn' = IF scanIn = 1 THEN ScanInterval ELSE scanIn - 1
    /\ monitorIn' = monitorIn - 1
    /\ scanTick' = Buffer(scanTick, scanIn = 1)
    /\ monitorTick' = Buffer(monitorTick, monitorIn = 1)

Advance ==
    /\ scanIn' = IF scanIn = 1 THEN ScanInterval ELSE scanIn - 1
    /\ monitorIn' = IF monitorIn = 1 THEN MonitorInterval ELSE monitorIn - 1
    /\ scanTick' = Buffer(scanTick, scanIn = 1)
    /\ monitorTick' = Buffer(monitorTick, monitorIn = 1)

\* A job runs for a unit of time, or select waits because nothing is ready.
Elapse ==
    /\ \/ current \in Jobs /\ left > 0 /\ left' = left - 1
       \/ /\ current = "select"
          /\ ~ scanTick /\ ~ monitorTick /\ ~ Done
          /\ UNCHANGED left
    /\ IF ticking THEN Advance ELSE UNCHANGED tickers
    /\ waited' = IF waited <= MaxWait THEN waited + 1 ELSE waited
    /\ dying' = IF Cancelled /\ dying <= PersistTimeout THEN dying + 1 ELSE dying
    /\ UNCHANGED <<current, ticking, between, longest>>

\* Mutant: the running job does not see the cancellation.
Unaware == left

\* A cancelled job returns at once, the monitor after it has recorded the
\* result of its pass under a context of its own.
CutShort ==
    IF current = "monitor" /\ left > PersistTimeout THEN PersistTimeout
    ELSE IF current = "monitor" THEN left ELSE 0

\* SIGTERM, or the HTTP server fails.
Cancel ==
    /\ ~ Cancelled
    /\ dying' = 0
    /\ left' = CutShort
    /\ UNCHANGED <<current, ticking, tickers, between, waited, longest>>

Stopped == current = "stopped" /\ UNCHANGED cadenceVars

CadenceNext ==
    \/ FinishScan \/ FinishMonitor \/ FinishRetry
    \/ SelectScan \/ SelectMonitor \/ SelectDone
    \/ Elapse
    \/ Cancel
    \/ Stopped

\* Time passes, a job ends when its time is up, and select, which chooses among
\* the ready cases at random, does not pass one over for ever.
CadenceFairness ==
    /\ WF_cadenceVars(Elapse \/ FinishScan \/ FinishMonitor \/ FinishRetry)
    /\ SF_cadenceVars(SelectScan)
    /\ SF_cadenceVars(SelectMonitor)
    /\ SF_cadenceVars(SelectDone)

CadenceSpec == CadenceInit /\ [][CadenceNext]_cadenceVars
FairCadence == CadenceSpec /\ CadenceFairness

-----------------------------------------------------------------------------
(* Properties.                                                              *)

\* Monitor and retry together take at most half their interval, and a scan
\* leaves two of these intervals of its own.
Brisk ==
    /\ 2 * (longest["monitor"] + longest["retry"]) <= MonitorInterval
    /\ longest["scan"] + 2 * MonitorInterval < ScanInterval

\* Under such a workload open positions are looked at between any two scans,
\* although select may always prefer the scan.  Slower jobs need not let it be
\* so: passes that follow each other without a break hold up a scan until the
\* next one's tick is there.  (split_cadence.go:48-62)
MonitorBetweenScans ==
    [][Brisk /\ current # "scan" /\ current' = "scan" => between]_cadenceVars

\* And then a pass is never further away than a monitor interval and the longest
\* scan: a slow scan delays a tick, it does not lose it.  After a shorter scan
\* than that the first pass is the longest away from the next, because the
\* tickers are only created when its round is over.  (split_cadence.go:43-62)
MonitorIsPrompt ==
    Brisk => \/ waited <= MonitorInterval + longest["scan"]
             \/ waited <= MonitorInterval + longest["monitor"] + longest["retry"]

\* The process stops within the time that the last result may take to record.
StopsPromptly == dying <= PersistTimeout

\* Whatever time scans take, passes go on until the process stops.
MonitorKeepsRunning == []<>(current \in {"monitor", "stopped"})

\* A cancelled process stops.
CancelledStops == Cancelled ~> current = "stopped"
=============================================================================
