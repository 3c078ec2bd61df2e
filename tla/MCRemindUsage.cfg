\* MAX_PARAMS is 20 in the code; with 3, both the limit and each entry of the
\* table of messages are reached.
CONSTANTS
    MaxLength = 1
    MaxArg = 1
    MaxTail = 4
    Now <- MCNow
    Later <- MCLater
    SkippedHours <- MCSkippedHours
    Input <- MCInput
    MaxParams = 3
    CmdChar = "."
SPECIFICATION CmdSpec
INVARIANT UsageIsAccepted
\* Every message has been handled.
CHECK_DEADLOCK FALSE
