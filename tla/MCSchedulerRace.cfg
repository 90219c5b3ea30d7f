\* A pause and a resume of one campaign at the same time.
SPECIFICATION Spec
CONSTANTS
    Campaigns = {c1, c2}
    Ticks = {t1}
    Requests = {q1, q2}
    Period = 2
    Retry = 1
    MaxRequests = 3
    MaxErrors = 0
    MaxCrashes = 0
INVARIANT ActiveStaysScheduled
