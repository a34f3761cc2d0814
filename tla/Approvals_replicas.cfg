SPECIFICATION FairSpec
CONSTANTS
    Approval = {a1, a2}
    Replica = {p1, p2}
    NoApproval = NoApproval
    Ttls = {1}
    MaxTime = 2
    MaxCrashes = 1
INVARIANTS TypeOK SingleUse GrantSound
PROPERTY PendingEnds
