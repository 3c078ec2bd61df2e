\* Three requests, so that a damaged line can hide one after it, and two starts;
\* three seconds and a lag of one, so that a reminder can be for long before the
\* file is read.
CONSTANTS
    Reminder = {r1, r2, r3}
    Horizon = 2
    MaxRestarts = 2
    TornWrites = TRUE
    TimeLag = 1
SPECIFICATION Spec
SYMMETRY Symmetry
INVARIANTS
    TypeOK
    ReminderIsKept
PROPERTY SentTwiceOnlyWithinASecond
\* The bot is down for good, or its time is over.
CHECK_DEADLOCK FALSE
