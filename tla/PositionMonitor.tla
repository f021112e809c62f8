-------------------------- MODULE PositionMonitor --------------------------
(***************************************************************************)
(* The life of paper positions under the one goroutine that trades            *)
(* (SplitCadence): a scan or a retry admits a position and has the paper        *)
(* broker fill it, and a monitor pass asks for a liquidation quote for each      *)
(* open position in turn and marks or closes it.  Only one of these runs at a   *)
(* time.  The repository's transactions are single steps here: PositionTx       *)
(* shows that they are.  A scan that admits nothing is a stuttering step.       *)
(***************************************************************************)
EXTENDS ExitPolicy, FiniteSets, Sequences

CONSTANTS
    Ids,            \* positions that may be admitted, one candidate each
    MaxOpen,        \* admission's cap on active positions
    MaxNoRoutes,    \* domain.MaxConsecutiveNoRoutes
    EntryCost,      \* entry input plus entry fees of a position
    ExitFees,       \* network and priority fee estimates of an exit
    Quotes,         \* per position: output amounts its market may quote
    Routeless,      \* positions whose market may have no executable route
    MaxCrashes      \* bound: how often the process restarts

ASSUME MonitorAssumption ==
    /\ IsFiniteSet(Ids)
    /\ MaxOpen \in Nat \ {0}
    /\ MaxNoRoutes \in Nat \ {0}
    /\ EntryCost \in Nat \ {0}
    /\ ExitFees \in Nat
    /\ Quotes \in [Ids -> SUBSET (Nat \ {0})]
    /\ Routeless \subseteq Ids
    /\ MaxCrashes \in Nat

VARIABLES
    row,        \* paper_positions: state and no_route_count
    opened,     \* positions in the order of their opened_at
    held,       \* time since opened_at, no further than MaxHoldDuration
    job,        \* what the goroutine is doing
    cand,       \* the admitted position the broker is about to fill
    todo,       \* monitor pass: positions still to be asked about
    heldAt,     \* monitor pass: held of the listed positions at its Now
    marked,     \* monitor pass: positions marked so far
    crashes

rows == <<row, opened, held>>
pass == <<todo, heldAt, marked>>
vars == <<row, opened, held, job, cand, todo, heldAt, marked, crashes>>

TerminalStates == {"CLOSED", "UNSELLABLE"}
States == {"NONE", "PENDING", "OPEN"} \union TerminalStates
NoCand == {}
NoPass == <<>>

TypeOK ==
    /\ row \in [Ids -> [state : States, count : 0 .. MaxNoRoutes]]
    /\ opened \in Seq(Ids)
    /\ held \in [Ids -> 0 .. MaxHoldDuration]
    /\ job \in {"select", "broker", "monitor"}
    /\ cand \in {NoCand} \union {{p} : p \in Ids}
    /\ todo \in Seq(Ids)
    /\ DOMAIN heldAt \subseteq Ids
    /\ marked \subseteq DOMAIN heldAt
    /\ crashes \in 0 .. MaxCrashes

In(states) == {p \in Ids : row[p].state \in states}
Active == In({"PENDING", "OPEN"})

Init ==
    /\ row = [p \in Ids |-> [state |-> "NONE", count |-> 0]]
    /\ opened = <<>>
    /\ held = [p \in Ids |-> 0]
    /\ job = "select"
    /\ cand = NoCand
    /\ todo = <<>>
    /\ heldAt = NoPass
    /\ marked = {}
    /\ crashes = 0

-----------------------------------------------------------------------------
(* Scan and retry: admission, then the broker.                              *)

\* Admissions.Admit on an eligible candidate.
Admit(p) ==
    /\ job = "select"
    /\ row[p].state = "NONE"
    /\ Cardinality(Active) < MaxOpen
    /\ row' = [row EXCEPT ![p].state = "PENDING"]
    /\ job' = "broker"
    /\ cand' = {p}
    /\ UNCHANGED <<opened, held, pass, crashes>>

\* PaperBroker.Open: the second quote is good and the fill is persisted.
Fill(p) ==
    /\ job = "broker"
    /\ cand = {p}
    /\ row' = [row EXCEPT ![p].state = "OPEN"]
    /\ opened' = Append(opened, p)
    /\ job' = "select"
    /\ cand' = NoCand
    /\ UNCHANGED <<held, pass, crashes>>

\* The wait, the quote or the transaction fails, or the job's time is up:
\* the scan returns the error and nobody comes back to the position.
FillFails ==
    /\ job = "broker"
    /\ job' = "select"
    /\ cand' = NoCand
    /\ UNCHANGED <<rows, pass, crashes>>

-----------------------------------------------------------------------------
(* A monitor pass.                                                          *)

OpenedBefore(p, q) ==
    \E k, l \in DOMAIN opened : k < l /\ opened[k] = p /\ opened[l] = q

\* The lists of the positions P in which Goes(p, q) whenever p comes before q.
Lists(P, Goes(_, _)) ==
    {t \in [1 .. Cardinality(P) -> P] : \A i, j \in DOMAIN t : i < j => Goes(t[i], t[j])}

\* Mutant: the newest position comes first.
ListNewest == Lists(In({"OPEN"}), LAMBDA p, q : OpenedBefore(q, p))

\* ORDER BY opened_at: there is one such list.
ListOpen == Lists(In({"OPEN"}), OpenedBefore)

\* Mutant: the manager's Now is that of the start of the process.
HeldOnBoot(p) == 0

\* How long p is held at the manager's Now, the start of the pass.
HeldNow(p) == held[p]

StartPass ==
    /\ job = "select"
    /\ job' = "monitor"
    /\ todo' \in ListOpen
    /\ heldAt' = [p \in In({"OPEN"}) |-> HeldNow(p)]
    /\ marked' = {}
    /\ UNCHANGED <<rows, cand, crashes>>

Over ==
    /\ job' = "select"
    /\ todo' = <<>>
    /\ heldAt' = NoPass
    /\ marked' = {}

\* Mutant: an error about one position does not end the pass.
SkipIt ==
    /\ todo' = Tail(todo)
    /\ UNCHANGED <<job, heldAt, marked>>

\* RunOnce returns an error: the rest of the list waits for the next pass.
Abort == Over

\* Position p has a new mark: go on with the next one, or, when the
\* acknowledgement of the commit is lost, give up the pass.
Marked(p) ==
    \/ /\ todo' = Tail(todo)
       /\ marked' = marked \union {p}
       /\ UNCHANGED <<job, heldAt>>
    \/ Abort

Asking(p) == job = "monitor" /\ todo # <<>> /\ Head(todo) = p

ExitReason(p, out) ==
    Decide(ReturnBPS(NetOutput(out, ExitFees), EntryCost), heldAt[p])

\* A liquidation quote, marked by RecordMark and closed if the policy says so.
\* RecordMark refuses a mark without net output, whatever the decision.
Observe(p, out) ==
    /\ Asking(p)
    /\ IF NetOutput(out, ExitFees) = 0
         THEN Abort /\ UNCHANGED row
         ELSE /\ row' = [row EXCEPT ![p] =
                     [state |-> IF ExitReason(p, out) = "HOLD" THEN "OPEN" ELSE "CLOSED",
                      count |-> 0]]
              /\ Marked(p)
    /\ UNCHANGED <<opened, held, cand, crashes>>

\* Mutant: one more quote without a route is tolerated.
GivesUpLate(n) == n > MaxNoRoutes

GivesUp(n) == n = MaxNoRoutes

\* ErrNoExecutableRoute: RecordNoRoute gives the position up at the limit.
Miss(p) ==
    /\ Asking(p)
    /\ p \in Routeless
    /\ LET n == row[p].count + 1 IN
       row' = [row EXCEPT ![p] =
                 [state |-> IF GivesUp(n) THEN "UNSELLABLE" ELSE "OPEN", count |-> n]]
    /\ Marked(p)
    /\ UNCHANGED <<opened, held, cand, crashes>>

\* Any other failure: of the provider, of the transaction, or of time.
QuoteFails ==
    /\ job = "monitor"
    /\ todo # <<>>
    /\ Abort
    /\ UNCHANGED <<rows, cand, crashes>>

EndPass ==
    /\ job = "monitor"
    /\ todo = <<>>
    /\ Over
    /\ UNCHANGED <<rows, cand, crashes>>

-----------------------------------------------------------------------------
(* The process and the clock.                                               *)

\* The process restarts between two steps.  Nothing looks for PENDING rows.
Crash ==
    /\ crashes < MaxCrashes
    /\ crashes' = crashes + 1
    /\ Over
    /\ cand' = NoCand
    /\ UNCHANGED rows

Tick ==
    /\ \E p \in In({"OPEN"}) : held[p] < MaxHoldDuration
    /\ held' = [p \in Ids |-> IF row[p].state = "OPEN" /\ held[p] < MaxHoldDuration
                              THEN held[p] + 1 ELSE held[p]]
    /\ UNCHANGED <<row, opened, job, cand, pass, crashes>>

Next ==
    \/ \E p \in Ids : \/ Admit(p)
                      \/ Fill(p)
                      \/ \E out \in Quotes[p] : Observe(p, out)
                      \/ Miss(p)
    \/ FillFails
    \/ StartPass
    \/ QuoteFails
    \/ EndPass
    \/ Crash
    \/ Tick

\* Asked again and again, the provider answers about a position some time, and
\* the database takes what it said.
Answered(p) == (\E out \in Quotes[p] : Observe(p, out)) \/ Miss(p)

\* Time passes, a job that runs comes to an end, and monitor passes start (module
\* Cadence bounds the time between two).  Nothing makes a candidate eligible.
Fairness ==
    /\ WF_vars(Tick)
    /\ WF_vars(StartPass)
    /\ WF_vars(EndPass)
    /\ WF_vars(FillFails \/ \E p \in Ids : Fill(p))
    /\ \A p \in Ids : SF_vars(Answered(p))

Spec == Init /\ [][Next]_vars
FairSpec == Spec /\ Fairness

-----------------------------------------------------------------------------
(* Properties.                                                              *)

\* A pass that ends without an error has marked every position that was open
\* when it began, and has closed each one whose time was up then, unless it had
\* no route: no position slips through, whatever happened to the ones before it.
\* (position_manager.go:57-83)
PassesAreThorough ==
    [][EndPass => \A p \in DOMAIN heldAt :
         /\ p \in marked
         /\ heldAt[p] = MaxHoldDuration => row[p].state \in TerminalStates \/ row[p].count > 0]_vars

\* Asking goes by age: while a pass runs, what is still to be asked about is open
\* and in the order of opened_at, so a younger position never delays an older.
OldestFirst ==
    /\ \A i \in 1 .. Len(todo) : row[todo[i]].state = "OPEN"
    /\ \A i, j \in 1 .. Len(todo) : i < j => OpenedBefore(todo[i], todo[j])

\* Every open position is closed or given up in the end, at the latest when its
\* time is up.  It holds where every market quotes more than the exit fees or
\* has no route; the run with a collapsed market shows what happens otherwise.
EveryPositionExits ==
    \A p \in Ids : row[p].state = "OPEN" ~> row[p].state \in TerminalStates

\* An admitted position does not stay PENDING: it is filled, or its pending state
\* is replayed after the failure that left it behind.
PendingReplayed ==
    \A p \in Ids : row[p].state = "PENDING" ~> row[p].state # "PENDING"
=============================================================================
