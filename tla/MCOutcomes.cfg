\* Two replies on Reddit and one that is not, two polls at a time, two faults.
SPECIFICATION FairSpec
CONSTANTS
    d1 = d1
    d2 = d2
    l1 = l1
    p1 = p1
    p2 = p2
    Drafts <- MCDrafts
    Reddit <- MCReddit
    Hours = {1, 2}
    Pollers <- MCPollers
    MaxClock = 2
    MaxFaults = 1
CHECK_DEADLOCK FALSE
INVARIANT
    DuplicatesAreBounded
PROPERTY
    OutcomesAreRecorded
