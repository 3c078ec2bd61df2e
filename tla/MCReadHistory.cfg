\* Every stream of up to seven bytes, in every division into recv() calls:
\* more than two times around a page of three.
CONSTANTS
    PageSize = 3
    Byte = {"a", "eol", "nul"}
    Eol = "eol"
    Nul = "nul"
    MaxBytes = 7
SPECIFICATION HSpec
INVARIANT DeliveredAreTheMessages
\* The process ends, or the stream does.
CHECK_DEADLOCK FALSE
