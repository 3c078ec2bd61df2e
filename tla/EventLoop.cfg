\* Two reminders beside the 1337 events of two days, the shortest days that
\* hold all of the times of day apart, and a time() that is one behind.
CONSTANTS
    Reminder = {"r1", "r2"}
    Chat = {"1337"}
    Signals = {}
    DayLength = 3
    LeetStart = 1
    LeetLength = 1
    Horizon = 5
    SocketCap = 1
    SendCap = 1
    TimeLag = 1
    MaxSetBack = 0
    ClockFails = FALSE
SPECIFICATION Spec
INVARIANTS
    NeverEarly
    LeetChain
    WantedFrom1337
PROPERTIES
    RemovesWhatItHandled
    ImplementsAgenda
\* The bot ends.
CHECK_DEADLOCK FALSE
