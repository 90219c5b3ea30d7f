\* One maintenance process, one API request at a time.
SPECIFICATION FairSpec
CONSTANTS
    Campaigns = {c1, c2}
    Ticks = {t1}
    Requests = {q1}
    Period = 2
    Retry = 1
    MaxRequests = 3
    MaxErrors = 1
    MaxCrashes = 1
INVARIANTS
    ActiveStaysScheduled
PROPERTIES
    NoDoubleFire
    LostOnlyByDeath
    ActiveIsPolled
    DeletedIsForgotten
