SPECIFICATION Spec
CONSTANTS
    MaxLines = 2
    MaxFaults = 2
INVARIANTS
    DeliveredAtLeastOnce
CHECK_DEADLOCK FALSE
