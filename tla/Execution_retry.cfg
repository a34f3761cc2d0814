SPECIFICATION ESpec
CONSTANTS
    Job = {j1}
    Worker = {w1}
    NoJob = NoJob
    NoWorker = NoWorker
    Kinds = {"ordinary"}
    MaxAttempts = 2
    BaseBackoff = 1
    MaxBackoff = 3
    StaleAfter = 1
    HandlerBound = 1
    MaxCrashes = 0
    MaxRequeues = 0
    Request = {r1}
    Key = {k1}
    NoKey = NoKey
    AgentRef = {"own"}
    MaxErrors = 0
INVARIANT OutcomesAgree
\* The system stops once every request is answered and every job settled.
CHECK_DEADLOCK FALSE
