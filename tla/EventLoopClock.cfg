\* The clock is set back by up to two, twice the length of the minute, and the
\* functions that read it may fail.
CONSTANTS
    Reminder = {"r1", "r2"}
    Chat = {}
    Signals = {}
    DayLength = 3
    LeetStart = 1
    LeetLength = 1
    Horizon = 4
    SocketCap = 1
    SendCap = 1
    TimeLag = 0
    MaxSetBack = 2
    ClockFails = TRUE
SPECIFICATION Spec
INVARIANTS
    TypeOK
    TimerIsArmed
    TimerHasEvent
    PendingOnce
\* The bot ends.
CHECK_DEADLOCK FALSE
