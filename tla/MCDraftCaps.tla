---------------------------- MODULE MCDraftCaps ----------------------------
(* Small instances of DraftCaps for TLC. *)
EXTENDS DraftCaps, TLC

CONSTANTS r1, r2, r3, r4, p1, p2, p3, p4, c1, c2, kc1, kc2, ks

MCPosts == {p1, p2, p3, p4}
MCCampaigns == {c1, c2}
MCKeys == {kc1, kc2, ks}

(* Two Reddit campaigns share one subreddit counter.  r1 and r2 are two    *)
(* polls of one campaign that overlap in a post; r3 has more drafts than   *)
(* kc2 may grant when Redis loses it once: 2 * 1 + 1.                      *)
MCRuns == {r1, r2, r3}
MCCampaignOf == (r1 :> c1 @@ r2 :> c1 @@ r3 :> c2)
MCDraftsOf == (r1 :> <<p1>> @@ r2 :> <<p1, p2>> @@ r3 :> <<p1, p2, p3, p4>>)
MCKeysOf == (r1 :> <<kc1, ks>> @@ r2 :> <<kc1, ks>> @@ r3 :> <<kc2, ks>>)
MCCap == (kc1 :> 2 @@ kc2 :> 1 @@ ks :> 2)

(* r1, r2 and r3 have room for all rows, so they can come to wait for each *)
(* other, in a circle of three too; r4 has a cap of zero in its second     *)
(* counter.                                                                *)
MCPostsEnd == {p1, p2, p3}
MCRunsEnd == {r1, r2, r3, r4}
MCCampaignOfEnd == (r1 :> c1 @@ r2 :> c1 @@ r3 :> c1 @@ r4 :> c2)
MCDraftsOfEnd == (r1 :> <<p1, p2>> @@ r2 :> <<p2, p3>> @@ r3 :> <<p3, p1>> @@ r4 :> <<p1>>)
MCKeysOfEnd == (r1 :> <<kc1>> @@ r2 :> <<kc1>> @@ r3 :> <<kc1>> @@ r4 :> <<kc2, ks>>)
MCCapEnd == (kc1 :> 6 @@ kc2 :> 1 @@ ks :> 0)

=============================================================================
