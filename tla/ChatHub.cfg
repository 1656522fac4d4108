CONSTANTS
    Clients = {c1, c2}
    SendSize = 1
    MaxMessages = 3
SPECIFICATION HubSpec
CHECK_DEADLOCK FALSE
INVARIANTS NoPanic InOrder CountedMessagesThere
PROPERTIES PumpsEnd
