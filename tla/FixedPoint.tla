----------------------------- MODULE FixedPoint -----------------------------
(***************************************************************************)
(* The integer arithmetic of internal/domain: amounts in micros or atomic     *)
(* units, ratios in basis points.  The code computes with big.Int and big.Rat  *)
(* where a product may not fit, so the integers here are unbounded too.       *)
(***************************************************************************)
EXTENDS Integers

\* 100% in basis points.
Scale == 10000

\* Mutant: division rounds down.
FloorQuo(a, b) == a \div b

\* big.Int.Quo: division that truncates toward zero, for b > 0.
Quo(a, b) == IF a >= 0 THEN a \div b ELSE -((-a) \div b)

\* roundedBasisPoints of n / d, for d > 0: midpoints go away from zero.
Rounded(n, d) == Quo(2 * n + (IF n < 0 THEN -d ELSE d), 2 * d)

\* RealizedPNLMicros: what a return means for a notional.
RealizedPNL(notional, ret) == Quo(notional * ret, Scale)
=============================================================================
