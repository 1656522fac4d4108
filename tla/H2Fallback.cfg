CONSTANTS MaxDeadlines = 2
SPECIFICATION Spec
INVARIANT AutoFallsBack
CHECK_DEADLOCK FALSE
