\* As in EventLoopFair, but the server need not read what it is sent.
CONSTANTS
    Reminder = {}
    Chat = {"ping"}
    Signals = {"SIGINT", "SIGTERM"}
    DayLength = 4
    LeetStart = 1
    LeetLength = 1
    Horizon = 1
    SocketCap = 1
    SendCap = 1
    TimeLag = 0
    MaxSetBack = 0
    ClockFails = FALSE
SPECIFICATION LoopSpec
PROPERTY SecondSignalEnds
\* The bot ends.
CHECK_DEADLOCK FALSE
