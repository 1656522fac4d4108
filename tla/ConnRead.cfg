CONSTANTS
    Scripts <- MCScripts
    MaxScript = 3
    ReadLimit = 2
    SpinLimit = 2
    RetryTimeout = FALSE
    EOFWithData = FALSE
SPECIFICATION Spec
CHECK_DEADLOCK FALSE
INVARIANTS FramesInStep DeliversMessages GuardsApplication AnswersPeer
