\* The same without fairness: an organization without an OrgLLMConfig.
SPECIFICATION Spec
CONSTANTS
    api = api
    tick = tick
    p1 = p1
    Callers <- MCCallers
    Ticks <- MCTicks
    Posts <- MCPosts
    MaxRuns = 2
    StaleAfter = 0
    MaxClock = 1
    WeekAt <- MCWeekAt
    Budgets <- MCBudgets
CHECK_DEADLOCK FALSE
PROPERTIES
    RenderNeverCrashes
