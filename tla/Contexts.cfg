\* Readers on two streams; two goroutines that write.
SPECIFICATION BothSpec
CONSTANTS
    Streams <- SomeStreams
    MaxReads = 3
    Procs = {p1, p2}
    MaxCalls = 2
    CtxDeadlines = {"none", "future"}
INVARIANTS
    NoStaleReadKick
    NothingLost
    NoStaleKick
    CtxHonest
PROPERTIES
    CancelReturns
CHECK_DEADLOCK FALSE
