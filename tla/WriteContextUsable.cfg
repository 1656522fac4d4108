\* Contexts without deadlines, which are only cancelled.
SPECIFICATION Spec
CONSTANTS
    Procs = {p1}
    MaxCalls = 1
    CtxDeadlines = {"none"}
INVARIANTS
    UsableAfterCancel
CHECK_DEADLOCK FALSE
