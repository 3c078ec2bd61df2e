\* A page of three bytes: messages of zero, one and two bytes, a full buffer,
\* and every wraparound of the indices.
CONSTANTS
    PageSize = 3
    Byte = {"a", "b", "eol", "nul"}
    Eol = "eol"
    Nul = "nul"
SPECIFICATION FairSpec
INVARIANTS
    TypeOK
    IndexSanity
    NoStrandedMessage
PROPERTIES
    ImplementsStream
    LoopEnds
\* The process ends.
CHECK_DEADLOCK FALSE
