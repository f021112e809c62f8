-------------------------- MODULE CandidatePolicy --------------------------
(***************************************************************************)
(* The deterministic rules a candidate has to pass (CandidatePolicy.Evaluate  *)
(* of internal/domain/policy.go), and what admission checks again before it   *)
(* commits (validateAdmissionInput of internal/application/admission.go).     *)
(* Evidence is a record; a quote is reduced to its price impact and whether   *)
(* its mints, amounts and legs make it an executable route.                   *)
(***************************************************************************)
EXTENDS FixedPoint, FiniteSets

CONSTANTS
    MaxPoolAge, MinLiquidity, MinTransactions,
    MinBuyShareBPS, MinTurnoverBPS,                 \* 0 disables the rule
    MinPriceChangeBPS, MaxPriceChangeBPS,           \* both 0: disabled
    MaxEntryPriceImpactBPS,
    AllowedExtensions,
    MaxInt                                          \* the largest int

ASSUME CandidateAssumption ==
    /\ {MaxPoolAge, MinLiquidity, MinTransactions, MinBuyShareBPS, MinTurnoverBPS,
        MaxEntryPriceImpactBPS, MaxInt} \subseteq Nat
    /\ {MinPriceChangeBPS, MaxPriceChangeBPS} \subseteq Int

\* Mutant: a ratio is rounded to the nearest basis point.
RatioRounded(n, d) == Rounded(n * Scale, d)

RatioBPS(n, d) == Quo(n * Scale, d)

\* ratioBPS says whether there is a ratio at all.
HasRatio(n, d) == n >= 0 /\ d > 0

AtLeast(n, d, limit) == limit <= 0 \/ (HasRatio(n, d) /\ RatioBPS(n, d) >= limit)

MomentumEnabled ==
    \/ MinBuyShareBPS > 0
    \/ MinTurnoverBPS > 0
    \/ MinPriceChangeBPS # 0
    \/ MaxPriceChangeBPS # 0

CountsValid(e) == e.buys >= 0 /\ e.sells >= 0 /\ e.buys <= MaxInt - e.sells

Computed(e) == IF CountsValid(e) THEN e.buys + e.sells ELSE 0

\* Rounded to basis points where it is parsed (ParsePercentageBPS).
PriceChangeBPS(e) == Rounded(e.change[1], e.change[2])

PoolAge(e) == e.dated /\ e.age <= MaxPoolAge
Liquidity(e) == e.liquidity >= MinLiquidity
Activity(e) ==
    /\ MomentumEnabled => CountsValid(e) /\ e.transactions = Computed(e)
    /\ e.transactions >= MinTransactions
BuyShare(e) == AtLeast(e.buys, Computed(e), MinBuyShareBPS)
Turnover(e) == AtLeast(e.volume, e.liquidity, MinTurnoverBPS)
PriceChange(e) ==
    MinPriceChangeBPS # 0 \/ MaxPriceChangeBPS # 0 =>
      MinPriceChangeBPS <= PriceChangeBPS(e) /\ PriceChangeBPS(e) <= MaxPriceChangeBPS
ImpactWithin(quote) == quote.impact \in 0 .. MaxEntryPriceImpactBPS
EntryPriceImpact(e) == e.entry.route /\ ImpactWithin(e.entry)
Authorities(e) == e.mintRevoked /\ e.freezeRevoked
TokenProgram(e) ==
    CASE e.program = "spl_token" -> e.extensions = {}
      [] e.program = "token_2022" -> e.extensions \subseteq AllowedExtensions
      [] OTHER -> FALSE

\* The exit route has to sell exactly what the entry route buys.
Eligible(e) ==
    /\ PoolAge(e) /\ Liquidity(e)
    /\ Activity(e) /\ BuyShare(e) /\ Turnover(e) /\ PriceChange(e)
    /\ EntryPriceImpact(e) /\ e.exit.route
    /\ Authorities(e)
    /\ TokenProgram(e)

\* The re-check of the evaluation, the verdict and the second entry quote.  The
\* age of the evidence is not in it: the scan says it was observed now.
Admissible(eligible, accepted, second) ==
    eligible /\ accepted /\ second.route /\ ImpactWithin(second)
=============================================================================
