SPECIFICATION Spec
CONSTANTS
    MaxLines = 4
    MaxFaults = 5
INVARIANTS
    NoLineLost
    ResumesWhereItStopped
PROPERTIES
    CatchesUp
CHECK_DEADLOCK FALSE
