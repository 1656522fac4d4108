CONSTANTS
    MaxDeadlines = 2
SPECIFICATION Spec
CHECK_DEADLOCK FALSE
INVARIANTS DialCleansUp NoStrayTimer ErrorsNormalised
PROPERTIES BlockedIOEnds
