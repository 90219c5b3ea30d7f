\* Four changes in Clerk, two webhook requests and a session at a time, a fault.
SPECIFICATION Spec
CONSTANTS
    h1 = h1
    h2 = h2
    s1 = s1
    Handlers <- MCHandlers
    Sessions <- MCSessions
    MaxEvents = 4
    MaxFaults = 1
SYMMETRY MCSymmetry
CHECK_DEADLOCK FALSE
INVARIANTS
    AppliedOnce
    MirrorsClerk
