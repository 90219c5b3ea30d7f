\* Three runs, two counters each, a crash or an exception, a loss of Redis.
SPECIFICATION Spec
CONSTANTS
    r1 = r1
    r2 = r2
    r3 = r3
    r4 = r4
    p1 = p1
    p2 = p2
    p3 = p3
    p4 = p4
    c1 = c1
    c2 = c2
    kc1 = kc1
    kc2 = kc2
    ks = ks
    NoKey = NoKey
    Runs <- MCRuns
    Posts <- MCPosts
    Campaigns <- MCCampaigns
    Keys <- MCKeys
    CampaignOf <- MCCampaignOf
    DraftsOf <- MCDraftsOf
    KeysOf <- MCKeysOf
    Cap <- MCCap
    MaxFaults = 1
    MaxLosses = 1
CHECK_DEADLOCK FALSE
INVARIANTS
    CountersCoverRows
    CapRespected
    NoPhantomSlot
    LossIsBounded
