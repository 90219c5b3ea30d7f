\* One poll: a worker death or an exception, a delivery to two workers at once.
SPECIFICATION FairSpec
CONSTANTS
    r1 = r1
    r2 = r2
    c1 = c1
    c2 = c2
    p1 = p1
    p2 = p2
    w1 = w1
    w2 = w2
    Runs <- MCRunsOne
    Campaigns <- MCCampaignsOne
    Posts <- MCPostsOne
    Workers <- MCWorkers
    CampaignOf <- MCCampaignOfOne
    Feed <- MCFeedOne
    Relevant <- MCRelevantOne
    DailyCap <- MCDailyCapOne
    HookIsSet = TRUE
    BatchSize = 1
    MaxSelections = 2
    MaxFaults = 1
    MaxRedeliveries = 1
CHECK_DEADLOCK FALSE
INVARIANTS
    BilledOnlyWhenFresh
    NoTaskIsLost
    OneSlotPerRow
PROPERTIES
    PauseStopsPolls
    RunsGoForward
    RunsFinish
