SPECIFICATION Spec
CONSTANTS
    Flows = {f1, f2}
    Modes = {"monitor"}
    NameLengths = {63, 64}
    MaxInputs = 3
    MaxFaults = 0
    MaxLag = 2
SYMMETRY Symmetry
PROPERTIES
    OrphansNotPromoted
CHECK_DEADLOCK FALSE
