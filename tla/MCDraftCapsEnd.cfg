\* Every run ends, Postgres deadlocks and a crash included.
SPECIFICATION FairSpec
CONSTANTS
    r1 = r1
    r2 = r2
    r3 = r3
    r4 = r4
    p1 = p1
    p2 = p2
    p3 = p3
    p4 = p4
    c1 = c1
    c2 = c2
    kc1 = kc1
    kc2 = kc2
    ks = ks
    NoKey = NoKey
    Runs <- MCRunsEnd
    Posts <- MCPostsEnd
    Campaigns <- MCCampaigns
    Keys <- MCKeys
    CampaignOf <- MCCampaignOfEnd
    DraftsOf <- MCDraftsOfEnd
    KeysOf <- MCKeysOfEnd
    Cap <- MCCapEnd
    MaxFaults = 1
    MaxLosses = 0
CHECK_DEADLOCK FALSE
INVARIANT WaitingIsResolved
PROPERTIES
    StepsUseUpWork
    RunsEnd
    ImplementsQuota
