------------------------------ MODULE Policies ------------------------------
(***************************************************************************)
(* What the pure policies promise together: decisions are taken on truncated   *)
(* and rounded basis points, and mean what the exact ratios mean.  MCPolicies  *)
(* walks through bounded inputs, FixedPointProofs takes any.                  *)
(***************************************************************************)
EXTENDS ExitPolicy, CandidatePolicy, SocialPolicy

VARIABLES
    input   \* what one of the policies is asked: of kind "exit", "candidate" or
            \* "social"

\* Rounding to basis points never moves an exit: take-profit and stop-loss are
\* taken exactly when profit over cost, as an exact ratio, is at or beyond the
\* limit, and the timeout when neither is and the time is up.  A position never
\* loses more than it cost, and all of it only when the fees leave nothing.
\* (exit.go:54-114)
ExitsAreExact ==
    input.kind = "exit" =>
      LET net == NetOutput(input.out, input.fees)
          cost == input.cost
          ret == ReturnBPS(net, cost)
          decision == Decide(ret, input.held)
      IN  /\ decision = "TAKE_PROFIT" <=> (net - cost) * Scale >= TakeProfitBPS * cost
          /\ decision = "STOP_LOSS" <=> (net - cost) * Scale <= -StopLossBPS * cost
          /\ decision = "HOLD" => input.held < MaxHoldDuration
          /\ ret >= -Scale
          /\ ret = -Scale <=> net = 0

\* A price change in basis points is the nearest one, and of two equally near
\* ones that which is further from zero.
Nearest(r, n, d) ==
    LET off(k) == IF n >= k * d THEN n - k * d ELSE k * d - n
        size(k) == IF k >= 0 THEN k ELSE -k
    IN  \A k \in r - 1 .. r + 1 :
          off(r) < off(k) \/ (off(r) = off(k) /\ size(r) >= size(k))

\* Truncating and rounding never move a rule: the momentum rules hold exactly
\* when the ratios, as exact fractions, reach their limits, and a ratio over
\* nothing never does.  With momentum rules, evidence that is eligible has its
\* trades add up, and admission does not refuse it for an unchanged quote.
\* (policy.go:125-175; percentage.go:24-39; admission.go:60-88)
RulesAreExact ==
    input.kind = "candidate" =>
      LET e == input.evidence
      IN  /\ MinBuyShareBPS > 0 =>
               (BuyShare(e) <=> /\ CountsValid(e) /\ e.buys + e.sells > 0
                                /\ e.buys * Scale >= MinBuyShareBPS * (e.buys + e.sells))
          /\ MinTurnoverBPS > 0 =>
               (Turnover(e) <=> e.liquidity > 0 /\ e.volume * Scale >= MinTurnoverBPS * e.liquidity)
          /\ Nearest(PriceChangeBPS(e), e.change[1], e.change[2])
          /\ Eligible(e) =>
               /\ MomentumEnabled => e.buys + e.sells = e.transactions
               /\ e.transactions >= MinTransactions
               /\ Admissible(TRUE, TRUE, e.entry)

\* The sanity check of the metrics never turns down what was really counted:
\* posts that meet every threshold are eligible, however a post is at once a
\* reply, a repost, late or repeated.  A copied text is counted once.
\* (social.go:48-110, 144-154; social_policy.go:30-49)
MetricsAreConsistent ==
    input.kind = "social" =>
      LET m == AnalyzeSocial(input.posts)
      IN  /\ MeetsThresholds(m) => SocialEligible(m)
          /\ ScoreSocial(m) \in 0 .. 100
          /\ 2 * m.repeated <= m.posts /\ m.simultaneous <= m.posts
          /\ m.mentionBPS <= Scale
=============================================================================
