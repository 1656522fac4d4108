\* Every algorithm on its inputs.
SPECIFICATION CodecSpec
CONSTANTS
    BufSize = 2
    HeaderSize = 1
    MaxControl = 1
    FrameCaps = {0, 1, 3, 7}
    Pieces <- MCPieces
    MaxWrites = 3
    None = None
    WordSizes = {4, 8}
    MaxPiece = 25
    NthByte <- MCNthByte
    MaxBytes = 14
    Lists <- MCLists
INVARIANTS
    PayloadPreserved
    FramesWellFormed
    OnlyValidText
    MasksOnce
    AcceptsUTF8
    TailHeldBack
    ParsesLists
CHECK_DEADLOCK FALSE
