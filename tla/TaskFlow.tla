------------------------------ MODULE TaskFlow ------------------------------
(* The task life cycle of packages/orchestration/src/statemachine.ts.      *)

\* The transitions a task may make.
FLOW == [
    draft       |-> {"ready", "cancelled"},
    ready       |-> {"planned", "blocked", "cancelled"},
    planned     |-> {"in_progress", "blocked", "cancelled"},
    in_progress |-> {"review", "failed", "blocked", "cancelled"},
    review      |-> {"qa", "in_progress", "failed", "cancelled"},
    qa          |-> {"security", "in_progress", "failed", "cancelled"},
    security    |-> {"approval", "in_progress", "failed"},
    approval    |-> {"deploying", "in_progress", "cancelled"},
    deploying   |-> {"deployed", "failed", "rollback_required"},
    deployed    |-> {"monitoring", "rollback_required"},
    monitoring  |-> {"completed", "rollback_required"},
    completed   |-> {},
    blocked     |-> {"ready", "planned", "in_progress", "cancelled"},
    failed      |-> {"ready", "planned", "in_progress", "cancelled"},
    rollback_required |-> {"in_progress", "completed", "cancelled"},
    cancelled   |-> {}]

TaskState == DOMAIN FLOW

CanTransition(from, to) == to \in FLOW[from]
=============================================================================
