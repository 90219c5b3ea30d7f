\* Two polls of two campaigns on two workers, a death or exception.
SPECIFICATION Spec
CONSTANTS
    r1 = r1
    r2 = r2
    c1 = c1
    c2 = c2
    p1 = p1
    p2 = p2
    w1 = w1
    w2 = w2
    Runs <- MCRuns
    Campaigns <- MCCampaigns
    Posts <- MCPosts
    Workers <- MCWorkers
    CampaignOf <- MCCampaignOf
    Feed <- MCFeed
    Relevant <- MCRelevant
    DailyCap <- MCDailyCap
    HookIsSet = FALSE
    BatchSize = 2
    MaxSelections = 2
    MaxFaults = 1
    MaxRedeliveries = 0
SYMMETRY MCSymmetry
CHECK_DEADLOCK FALSE
INVARIANTS
    PostedIsLeftAlone
    DedupAcrossPolls
    OnlyPolledPostsAreDrafted
