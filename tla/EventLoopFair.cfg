\* Both signals, the server's PINGs and a reminder compete for the loop.
CONSTANTS
    Reminder = {"r1"}
    Chat = {"ping"}
    Signals = {"SIGINT", "SIGTERM"}
    DayLength = 4
    LeetStart = 1
    LeetLength = 1
    Horizon = 3
    SocketCap = 1
    SendCap = 1
    TimeLag = 0
    MaxSetBack = 0
    ClockFails = FALSE
SPECIFICATION FairSpec
INVARIANT ReadsDoNotBlock
PROPERTIES
    EveryReminderIsSent
    SecondSignalEnds
\* The bot ends.
CHECK_DEADLOCK FALSE
