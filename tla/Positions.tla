----------------------------- MODULE Positions -----------------------------
(***************************************************************************)
(* The life of an admitted position, one atomic step per observation: it is   *)
(* filled once, marked while it is open, and ended once, by an exit or by the  *)
(* MaxNoRoutes-th quote in a row without a route.  PositionTx implements this  *)
(* module with concurrent transactions.                                      *)
(***************************************************************************)
EXTENDS PositionRows

VARIABLES
    position,   \* paper_positions: state and no_route_count
    marks,      \* position_marks of each position, in commit order
    events      \* position_events of each position, counted by type

positionVars == <<position, marks, events>>

Init ==
    /\ position = [p \in Ids |-> Admitted]
    /\ marks = [p \in Ids |-> <<>>]
    /\ events = [p \in Ids |-> AdmittedEvents]

Fill(p) ==
    /\ position[p].state = "PENDING"
    /\ position' = [position EXCEPT ![p].state = "OPEN"]
    /\ events' = [events EXCEPT ![p]["OPEN"] = @ + 1]
    /\ UNCHANGED marks

\* An executable quote at return r ends a streak of missing routes.
Hold(p, r) ==
    /\ position[p].state = "OPEN"
    /\ position' = [position EXCEPT ![p].count = 0]
    /\ marks' = [marks EXCEPT ![p] = Append(@, Executable(r))]
    /\ UNCHANGED events

\* An executable quote on which the exit policy closes.
Close(p, r) ==
    /\ position[p].state = "OPEN"
    /\ position' = [position EXCEPT ![p] = [state |-> "CLOSED", count |-> 0]]
    /\ marks' = [marks EXCEPT ![p] = Append(@, Executable(r))]
    /\ events' = [events EXCEPT ![p]["CLOSED"] = @ + 1]

MissRoute(p) ==
    /\ position[p].state = "OPEN"
    /\ position[p].count + 1 < MaxNoRoutes
    /\ position' = [position EXCEPT ![p].count = @ + 1]
    /\ marks' = [marks EXCEPT ![p] = Append(@, NoRoute(position[p].count + 1))]
    /\ UNCHANGED events

GiveUp(p) ==
    /\ position[p].state = "OPEN"
    /\ position[p].count + 1 = MaxNoRoutes
    /\ position' = [position EXCEPT ![p] = [state |-> "UNSELLABLE", count |-> MaxNoRoutes]]
    /\ marks' = [marks EXCEPT ![p] = Append(@, NoRoute(MaxNoRoutes))]
    /\ events' = [events EXCEPT ![p]["UNSELLABLE"] = @ + 1]

Next ==
    \E p \in Ids : \/ Fill(p)
                   \/ \E r \in Returns : Hold(p, r) \/ Close(p, r)
                   \/ MissRoute(p)
                   \/ GiveUp(p)

Spec == Init /\ [][Next]_positionVars
=============================================================================
