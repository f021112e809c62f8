----------------------------- MODULE ExitPolicy -----------------------------
(***************************************************************************)
(* What a liquidation quote is worth and what the exit policy makes of it      *)
(* (internal/domain/exit.go).  Amounts are atomic units of the entry quote     *)
(* mint; the fee estimates count in the same units, as they do in the code.   *)
(***************************************************************************)
EXTENDS FixedPoint

CONSTANTS
    TakeProfitBPS,      \* ExitPolicy.TakeProfitBPS
    StopLossBPS,        \* ExitPolicy.StopLossBPS
    MaxHoldDuration     \* ExitPolicy.MaxHoldDuration

ASSUME PolicyAssumption ==
    /\ TakeProfitBPS \in Nat \ {0}
    /\ StopLossBPS \in Nat \ {0}
    /\ MaxHoldDuration \in Nat \ {0}

Reasons == {"HOLD", "TAKE_PROFIT", "STOP_LOSS", "TIMEOUT"}

NetOutput(out, fees) == IF out > fees THEN out - fees ELSE 0

ReturnBPS(net, cost) == Quo((net - cost) * Scale, cost)

\* The reason to close a position held that long at that return.
Decide(ret, held) ==
    IF ret >= TakeProfitBPS THEN "TAKE_PROFIT"
    ELSE IF ret <= -StopLossBPS THEN "STOP_LOSS"
    ELSE IF held >= MaxHoldDuration THEN "TIMEOUT"
    ELSE "HOLD"
=============================================================================
