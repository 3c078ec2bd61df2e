\* The smallest instance in which the clock can be set back over 13:37.
CONSTANTS
    Reminder = {}
    Chat = {}
    Signals = {}
    DayLength = 4
    LeetStart = 1
    LeetLength = 1
    Horizon = 4
    SocketCap = 1
    SendCap = 1
    TimeLag = 0
    MaxSetBack = 2
    ClockFails = FALSE
SPECIFICATION Spec
PROPERTY RemovesWhatItHandled
\* The bot ends.
CHECK_DEADLOCK FALSE
