---------------------------- MODULE SocialPolicy ----------------------------
(***************************************************************************)
(* What posts about a candidate amount to (AnalyzeSocial and ScoreSocial of   *)
(* internal/domain/social.go) and what is asked of them (SocialPolicy.Evaluate *)
(* of social_policy.go).  A post is a record; whether its text names the mint  *)
(* and whether it warns are fields of it.                                     *)
(***************************************************************************)
EXTENDS FixedPoint, FiniteSets, Sequences, Functions

CONSTANTS
    MinScore, MinUniqueAuthors, MinOriginalPosts, MinExactMintMentions, MaxWarningPosts

ASSUME SocialAssumption ==
    /\ MinScore \in 1 .. 100
    /\ {MinUniqueAuthors, MinOriginalPosts, MinExactMintMentions} \subseteq Nat \ {0}
    /\ MaxWarningPosts \in Nat

\* Posts with an id and an author, created within the window.
Counted(posts) == {i \in DOMAIN posts : posts[i].inWindow}

Count(posts, Test(_)) == Cardinality({i \in Counted(posts) : Test(posts[i])})

\* Mutant: a repost that answers is a reply as well.
RepliesOfAll(posts) == Count(posts, LAMBDA p : p.reply)

\* A repost that is also a reply counts as a repost.
Replies(posts) == Count(posts, LAMBDA p : p.reply /\ ~ p.repost)

\* Texts found in more than one post; and the posts of minutes that have several.
Repeated(posts) ==
    {t \in {posts[i].text : i \in Counted(posts)} : Count(posts, LAMBDA p : p.text = t) > 1}
Simultaneous(posts) == Count(posts, LAMBDA p : Count(posts, LAMBDA q : q.minute = p.minute) > 1)

Clamp(n, low, high) == IF n < low THEN low ELSE IF n > high THEN high ELSE n

\* Engagement per follower of a post, in basis points; none counts as one.
Engagement(p) == (p.engagement * Scale) \div Clamp(p.followers, 1, p.followers + 1)

AnalyzeSocial(posts) ==
    LET n == Cardinality(Counted(posts))
        mentions == Count(posts, LAMBDA p : p.mention)
        total == SumFunction([i \in Counted(posts) |-> Engagement(posts[i])])
    IN  [posts |-> n,
         authors |-> Cardinality({posts[i].author : i \in Counted(posts)}),
         mentions |-> mentions,
         originals |-> Count(posts, LAMBDA p : ~ p.repost /\ ~ p.reply),
         reposts |-> Count(posts, LAMBDA p : p.repost),
         replies |-> Replies(posts),
         warnings |-> Count(posts, LAMBDA p : p.warning),
         repeated |-> Cardinality(Repeated(posts)),
         simultaneous |-> Simultaneous(posts),
         mentionBPS |-> IF n = 0 THEN 0 ELSE (mentions * Scale) \div n,
         engagementBPS |-> IF n = 0 THEN 0 ELSE total \div n]

ScoreSocial(m) ==
    Clamp(m.authors * 10 + m.mentionBPS \div 1000 + Clamp(m.engagementBPS \div 100, 0, 20)
            - (m.repeated * 10 + m.warnings * 25 + m.simultaneous * 2), 0, 100)

ValidMetrics(m) ==
    /\ m.posts > 0
    /\ m.authors <= m.posts /\ m.mentions <= m.posts /\ m.warnings <= m.posts
    /\ m.originals + m.reposts + m.replies = m.posts

\* The thresholds alone, and with the check of the metrics that precedes them.
MeetsThresholds(m) ==
    /\ ScoreSocial(m) >= MinScore
    /\ m.authors >= MinUniqueAuthors
    /\ m.originals >= MinOriginalPosts
    /\ m.mentions >= MinExactMintMentions
    /\ m.warnings <= MaxWarningPosts

SocialEligible(m) == ValidMetrics(m) /\ MeetsThresholds(m)
=============================================================================
