\* One caller with a deadline, one without, and a peer that stalls.
SPECIFICATION FairSpec
CONSTANTS
    Procs = {p1, p2}
    None = None
    MaxOps = 1
    MaxFrames = 1
    Deadlines = {"none", "future"}
    AppTypes = {"data", "ping"}
    UsePool = FALSE
PROPERTIES
    DeadlineRespected
CHECK_DEADLOCK FALSE
