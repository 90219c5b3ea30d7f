\* A request and a tick start two runs that nothing disturbs, or one with two
\* faults: deaths, exceptions, second deliveries.
SPECIFICATION FairSpec
CONSTANTS
    api = api
    tick = tick
    p1 = p1
    Callers <- MCCallers
    Ticks <- MCTicks
    Posts <- MCPosts
    MaxRuns = 2
    StaleAfter = 0
    MaxClock = 1
    WeekAt <- MCWeekAt
    Budgets <- MCBudgets
CHECK_DEADLOCK FALSE
INVARIANTS
    FreshRunsNeverSawEachOther
    BriefMatchesStatus
    ForecastCountsExecutions
PROPERTIES
    StatusRegressionsAreRaced
    EveryRunEnds
