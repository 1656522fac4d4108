\* Two goroutines, with and without deadlines, and a buffer pool; the peer may
\* stall, writers may stay open.
SPECIFICATION FairSpec
CONSTANTS
    Procs = {p1, p2}
    None = None
    MaxOps = 1
    MaxFrames = 1
    Deadlines = {"none", "future"}
    AppTypes = {"data", "close", "bad"}
    UsePool = TRUE
INVARIANTS
    TypeOK
    LockTokens
    BufferOwned
    ReturnsHonestly
PROPERTIES
    WriteErrLatched
    ImplementsFrameStream
    ControlReturns
    EveryCallReturns
CHECK_DEADLOCK FALSE
