\* Two bots that start without the directory or with it, and two failures.
CONSTANTS
    Bot = {b1, b2}
    MaxLines = 3
    MaxFaults = 2
SPECIFICATION Spec
SYMMETRY Symmetry
INVARIANTS
    TypeOK
    DescriptorsAreClosed
    NoSilentLoss
    OnlyTheRaceLoses
    ReadsASnapshot
\* All lines are written, and nobody reads.
CHECK_DEADLOCK FALSE
