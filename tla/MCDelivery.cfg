SPECIFICATION DFairSpec
CONSTANTS
    Job = {j1, j2}
    Worker = {w}
    NoWorker = NoWorker
    Proc = w
    t1 = t1
    t2 = t2
    t3 = t3
    t4 = t4
    Task = {t1, t2, t3, t4}
    SpecOf <- MCSpecOf
    Demo = {j2}
    MaxRepairs = 1
    OperatorTargets = {"blocked", "ready"}
    MaxMishaps = 1
INVARIANTS TypeOK MainTrue
PROPERTIES VerdictStands DeliveryEnds
\* The system may rest once every dispatched delivery has ended.
CHECK_DEADLOCK FALSE
