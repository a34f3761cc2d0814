SPECIFICATION ESpec
CONSTANTS
    Job = {j1, j2}
    Worker = {w1}
    NoJob = NoJob
    NoWorker = NoWorker
    Kinds = {"ordinary"}
    MaxAttempts = 2
    BaseBackoff = 1
    MaxBackoff = 3
    StaleAfter = 1
    HandlerBound = 1
    MaxCrashes = 0
    MaxRequeues = 0
    Request = {r1, r2}
    Key = {k1}
    NoKey = NoKey
    AgentRef = {"own", "missing"}
    MaxErrors = 0
INVARIANT ReplyStands
\* The system stops once every request is answered and every job settled.
CHECK_DEADLOCK FALSE
