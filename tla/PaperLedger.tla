---------------------------- MODULE PaperLedger ----------------------------
(***************************************************************************)
(* The rows an admission writes, and what the code reads off them.         *)
(*                                                                         *)
(* ent/schema keeps a trade_decision and a paper_position row per           *)
(* admission, in a one-to-one edge; they are inserted by one transaction    *)
(* and neither is ever deleted.  A ledger is the sequence of those row      *)
(* pairs in commit order, so an index into it is a position id.             *)
(***************************************************************************)
EXTENDS Integers, Sequences, FiniteSets

\* ent/schema/paperposition.go: the values of the "state" enum.  CLOSING is
\* declared and counted as active, but no code of the repository assigns it.
ActiveStates == {"PENDING", "OPEN", "CLOSING"}
TerminalStates == {"CLOSED", "UNSELLABLE"}
PositionStates == ActiveStates \union TerminalStates

Row(K, D) == [key : K, day : D, state : PositionStates]

\* SetState(PENDING) with the decision's idempotency key.
PendingRow(k, d) == [key |-> k, day |-> d, state |-> "PENDING"]

Rows(l) == 1 .. Len(l)

\* Mutant: only the decisions of live positions are looked at.
HasLiveKey(l, k) == \E i \in Rows(l) : l[i].key = k /\ l[i].state \in ActiveStates

\* TradeDecision.Query().Where(IdempotencyKeyEQ(k)).Exist
HasKey(l, k) == \E i \in Rows(l) : l[i].key = k

\* The positions that occupy one of the MaxOpenPositions slots.
ActiveRows(l) == {i \in Rows(l) : l[i].state \in ActiveStates}
ActiveCount(l) == Cardinality(ActiveRows(l))

\* The admissions a UTC day's quota has to pay for.
RowsOfDay(l, d) == {i \in Rows(l) : l[i].day = d}
DayCount(l, d) == Cardinality(RowsOfDay(l, d))

\* m is a later (or the same) edition of l: the old rows are still there, and
\* those that are active now were active then.
Extends(l, m) ==
    /\ Len(l) <= Len(m)
    /\ \A i \in Rows(l) :
         /\ l[i].key = m[i].key
         /\ l[i].day = m[i].day
         /\ m[i].state \in ActiveStates => l[i].state \in ActiveStates
=============================================================================
