SPECIFICATION Spec
CONSTANTS
    Job = {j1, j2}
    Worker = {w1, w2}
    NoJob = NoJob
    NoWorker = NoWorker
    Kinds = {"ordinary", "permanent"}
    MaxAttempts = 2
    BaseBackoff = 1
    MaxBackoff = 3
    StaleAfter = 2
    HandlerBound = 4
    MaxCrashes = 1
    MaxRequeues = 1
INVARIANT NoDoubleExecution
\* The system stops once every job is settled and the budgets are spent.
CHECK_DEADLOCK FALSE
