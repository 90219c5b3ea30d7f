-------------------------- MODULE MCReplyPipeline --------------------------
(* Small instances of ReplyPipeline for TLC. *)
EXTENDS ReplyPipeline, TLC

CONSTANTS r1, r2, c1, c2, p1, p2, w1, w2

(* Two campaigns of the organization; each is polled once and both see p1. *)
MCRuns == {r1, r2}
MCCampaigns == {c1, c2}
MCPosts == {p1, p2}
MCWorkers == {w1, w2}
MCCampaignOf == (r1 :> c1 @@ r2 :> c2)
MCFeed == (r1 :> {p1, p2} @@ r2 :> {p1})
MCRelevant == (c1 :> {p1, p2} @@ c2 :> {p1})
MCDailyCap == (c1 :> 2 @@ c2 :> 1)

(* One poll that two workers may execute at the same time; the scout may   *)
(* select its one post twice.                                              *)
MCRunsOne == {r1}
MCPostsOne == {p1}
MCCampaignsOne == {c1}
MCCampaignOfOne == (r1 :> c1)
MCFeedOne == (r1 :> {p1})
MCRelevantOne == (c1 :> {p1})
MCDailyCapOne == (c1 :> 2)

MCSymmetry == Permutations(MCWorkers)

=============================================================================
