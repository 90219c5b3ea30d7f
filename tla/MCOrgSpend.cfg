\* Two workers, two tokens, two edits, a fault; two calls in flight
\* in each worker; checks of one or two tokens.
SPECIFICATION Spec
CONSTANTS
    w1 = w1
    w2 = w2
    Workers <- MCWorkers
    Dispatchers <- MCDispatchers
    Concurrency = 2
    MaxTokens = 2
    Estimates = {1, 2}
    Budget = 2
    Caps = {0, 1}
    DefaultCap = 2
    ApifyBudgets <- MCApifyBudgets
    Budgets <- MCBudgets
    Sizes = {1, 2}
    DailyLimit = 2
    MonthlyLimit = 3
    MaxCalls = 3
    MaxDays = 2
CHECK_DEADLOCK FALSE
INVARIANTS
    TypeOK
    BilledIsRecordedOrSlipped
    DeletedTokenIsForgotten
PROPERTIES
    ImplementsGuards
