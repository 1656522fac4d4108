CONSTANTS
    Scripts <- MCScripts
    MaxScript = 3
    ReadLimit = 2
    SpinLimit = 2
    RetryTimeout = TRUE
    EOFWithData = FALSE
SPECIFICATION Spec
CHECK_DEADLOCK FALSE
INVARIANT FramesInStep
