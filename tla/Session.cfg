\* Every handshake; then three messages.
SPECIFICATION Spec
CONSTANTS
    None = None
    a = a
    b = b
    x = x
    y = y
    f1 = f1
    f2 = f2
    g1 = g1
    g2 = g2
    Confs <- MCConfs
    Requests <- MCRequests
    Responses <- MCResponses
    Dirs = {"client", "server"}
    Servers = {"server"}
    Payloads <- MCPayloads
    MaxMsgs = 3
    WindowSize = 3
    Compressors = {f1, f2}
    Decompressors = {g1, g2}
INVARIANTS
    HandsOver
    Agreed
    WindowsInStep
    OwnedOnce
PROPERTIES
    DialReturns
CHECK_DEADLOCK FALSE
