\* A buffer of four, so that it grows twice, and pieces with which a string
\* ends before, at and after the end of the buffer each time.
CONSTANTS
    InitialBufLen = 4
    Width = 5
    Piece <- MCPiece
    MaxAddresses = 2
    MaxLen = 8
    MaxWire = 7
SPECIFICATION FairSpec
INVARIANTS
    TypeOK
    StringFits
PROPERTIES
    GrowsAsNecessary
    ImplementsChannel
    EveryMessageIsWritten
\* The bot ends, or enough was written.
CHECK_DEADLOCK FALSE
