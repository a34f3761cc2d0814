SPECIFICATION SceneSpec
CONSTANTS
    Job = {j1, j2}
    Worker = {w1, w2}
    NoJob = NoJob
    NoWorker = NoWorker
    Kinds = {"ordinary"}
    MaxAttempts = 2
    BaseBackoff = 1
    MaxBackoff = 3
    StaleAfter = 1
    HandlerBound = 1
    MaxCrashes = 1
    MaxRequeues = 1
    Request = {r1, r2}
    Key = {k1}
    NoKey = NoKey
    AgentRef = {"own", "foreign", "missing"}
    MaxErrors = 2
    Alone = r1
INVARIANTS ETypeOK OneExecutionPerKey WorkAccounted
PROPERTIES ExecutionSuccessFinal WorkEnds
\* The system stops once every request is answered and every job settled.
CHECK_DEADLOCK FALSE
