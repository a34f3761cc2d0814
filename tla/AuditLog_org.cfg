SPECIFICATION AuditSpec
CONSTANTS
    Org = {o1, o2}
    Appender = {p1}
    MaxAppends = 3
    MaxEdits = 0
INVARIANT OrgLogVerifies
\* The log is full once MaxAppends rows are written.
CHECK_DEADLOCK FALSE
