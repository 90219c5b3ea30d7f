\* Two overlapping requests of two users on one draft.
SPECIFICATION Spec
CONSTANTS
    d1 = d1
    d2 = d2
    p1 = p1
    u1 = u1
    u2 = u2
    NoUser = NoUser
    Drafts <- MCOneDraft
    Posts <- MCPosts
    PostOf <- MCPostOf
    Users <- MCUsers
    Requests = {r1, r2}
    LockTicks = 1
SYMMETRY MCSymmetry
INVARIANTS
    PostedIsRecorded
    PostedWasHandedOff
    OnlyStaleRequestsCanOverrideALock
PROPERTIES
    SweepSparesLiveLocks
    StatusChangesAreLegalOrRaced
