SPECIFICATION Spec
CONSTANTS
    Names = {1, 2}
    Specs <- CompetingSpecs
    Clusters <- OneCluster
    Backends = {"kubernetes"}
    Foreign = {}
    OwnersSeen = FALSE
    MaxEdits = 3
    MaxTouches = 0
    MaxFaults = 0
    MaxLag = 2
INVARIANTS
    Converged
CHECK_DEADLOCK FALSE
