---------------------------- MODULE PositionRows ----------------------------
(***************************************************************************)
(* The rows the position repository keeps beside a decision: the position     *)
(* itself, its marks and its events.  Prices, hashes, fees and mints are left  *)
(* out; a mark keeps its route state and its return.                         *)
(***************************************************************************)
EXTENDS PaperLedger

CONSTANTS
    Ids,                \* paper_positions.id of the admitted positions
    Returns,            \* return_bps an executable quote can yield
    UnsellableReturn,   \* domain.UnsellableReturnBPS: a total loss
    NoReturn,           \* the null return_bps of a non-terminal NO_ROUTE mark
    MaxNoRoutes         \* domain.MaxConsecutiveNoRoutes

ASSUME RowsAssumption ==
    /\ MaxNoRoutes \in Nat \ {0}
    /\ Returns \subseteq Int
    /\ UnsellableReturn \in Int
    /\ NoReturn \notin Int

PositionRow == [state : PositionStates, count : Nat]
Mark == [route : {"EXECUTABLE", "NO_ROUTE"},
         ret : Returns \union {UnsellableReturn, NoReturn}]

Admitted == [state |-> "PENDING", count |-> 0]

\* The events of a position that has just been admitted, counted by type.
AdmittedEvents == [s \in PositionStates |-> IF s = "PENDING" THEN 1 ELSE 0]

Executable(r) == [route |-> "EXECUTABLE", ret |-> r]

\* The n-th NO_ROUTE mark in a row; only the last one tolerated has a return.
NoRoute(n) ==
    [route |-> "NO_ROUTE", ret |-> IF n = MaxNoRoutes THEN UnsellableReturn ELSE NoReturn]
=============================================================================
