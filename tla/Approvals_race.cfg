SPECIFICATION Spec
CONSTANTS
    Approval = {a1}
    Replica = {p1, p2}
    NoApproval = NoApproval
    Ttls = {1}
    MaxTime = 2
    MaxCrashes = 0
INVARIANT OneVerdict
