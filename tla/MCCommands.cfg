\* MAX_PARAMS is 20 in the code; with 3, both the limit and each entry of the
\* table of messages are reached.
CONSTANTS
    MaxLength = 5
    MaxArg = 4
    MaxTail = 5
    Now <- MCNow
    Later <- MCLater
    SkippedHours <- MCSkippedHours
    Input <- MCInput
    MaxParams = 3
    CmdChar = "."
SPECIFICATION CmdSpec
INVARIANTS
    SplitsAsWritten
    HandledAsWritten
    SeparatorIsNext
    HandlersReadWhatIsThere
    BotCmdIsAsWritten
    CmdTypeOK
    AcceptedAsUsage
    PlainRequestsAreAccepted
    SavedIsReadable
\* Every message has been handled.
CHECK_DEADLOCK FALSE
