CONSTANTS
    PipeSize = 1
    MaxSend = 2
SPECIFICATION Spec
CHECK_DEADLOCK FALSE
INVARIANTS  CleanClose
PROPERTIES GracefulReturns
