----------------------------- MODULE MCPolicies -----------------------------
(***************************************************************************)
(* The pure policies over bounded inputs.  A state is one input of one of     *)
(* them, a step the next input: a quote that is a little better, one more      *)
(* trade of a token, one more post about it.                                  *)
(***************************************************************************)
EXTENDS Policies

CONSTANTS
    Costs, Fees, MaxOut,        \* exit: costs, fee estimates, best output
    MaxTrades, MaxVolume,       \* candidate: trades of a side, traded volume
    MaxPosts                    \* social: posts about a candidate

LargestFall == -2

vars == <<input>>

\* Evidence that passes every rule, but for one defect.
Evidence(liquidity, per, impact, defect) ==
    [dated |-> defect # "undated", age |-> IF defect = "old" THEN MaxPoolAge + 1 ELSE 0,
     liquidity |-> liquidity, volume |-> 0,
     buys |-> 0, sells |-> 0, transactions |-> IF defect = "miscounted" THEN 1 ELSE 0,
     change |-> <<(MinPriceChangeBPS - 1) * per, per>>,
     entry |-> [route |-> TRUE, impact |-> impact],
     exit |-> [route |-> defect # "unsellable", impact |-> impact],
     mintRevoked |-> TRUE, freezeRevoked |-> defect # "freezable",
     program |-> "token_2022",
     extensions |-> IF defect = "extended" THEN {"transfer_hook"} ELSE AllowedExtensions]

Texts == {"mint", "rug mint", "late"}

Posts == [author : {"alice", "bob"}, minute : {1, 2}, text : Texts, reply : BOOLEAN, repost : BOOLEAN]

Post(p) ==
    [author |-> p.author, minute |-> p.minute, text |-> p.text, reply |-> p.reply, repost |-> p.repost,
     inWindow |-> p.text # "late", mention |-> TRUE, warning |-> p.text = "rug mint",
     engagement |-> IF p.author = "alice" THEN 7 ELSE 0,
     followers |-> IF p.minute = 1 THEN 300 ELSE 0]

Init ==
    \/ \E c \in Costs, f \in Fees : input = [kind |-> "exit", cost |-> c, fees |-> f, out |-> 1, held |-> 0]
    \/ \E liquidity \in {0, MinLiquidity}, per \in {2, 3}, impact \in {-1, MaxEntryPriceImpactBPS, MaxEntryPriceImpactBPS + 1},
          defect \in {"none", "undated", "old", "miscounted", "unsellable", "freezable", "extended"} :
            input = [kind |-> "candidate", evidence |-> Evidence(liquidity, per, impact, defect)]
    \/ input = [kind |-> "social", posts |-> <<>>]

BetterQuote ==
    /\ input.kind = "exit" /\ input.out < MaxOut
    /\ input' = [input EXCEPT !.out = @ + 1]

Hold ==
    /\ input.kind = "exit" /\ input.held < MaxHoldDuration
    /\ input' = [input EXCEPT !.held = @ + 1]

Buy ==
    /\ input.kind = "candidate" /\ input.evidence.buys < MaxTrades
    /\ input' = [input EXCEPT !.evidence.buys = @ + 1, !.evidence.transactions = @ + 1]

Sell ==
    /\ input.kind = "candidate" /\ input.evidence.sells < MaxTrades
    /\ input' = [input EXCEPT !.evidence.sells = @ + 1, !.evidence.transactions = @ + 1]

Volume ==
    /\ input.kind = "candidate" /\ input.evidence.volume < MaxVolume
    /\ input' = [input EXCEPT !.evidence.volume = @ + 1]

PriceMoves ==
    /\ input.kind = "candidate"
    /\ LET change == input.evidence.change
       IN  /\ change[1] <= (MaxPriceChangeBPS + 1) * change[2]
           /\ input' = [input EXCEPT !.evidence.change[1] = @ + 1]

NextPost ==
    /\ input.kind = "social" /\ Len(input.posts) < MaxPosts
    /\ \E p \in Posts : input' = [input EXCEPT !.posts = Append(@, Post(p))]

Next == BetterQuote \/ Hold \/ Buy \/ Sell \/ Volume \/ PriceMoves \/ NextPost

Spec == Init /\ [][Next]_vars
=============================================================================
