SPECIFICATION FairSpec
CONSTANTS
    Names = {1, 2}
    Specs <- CompetingSpecs
    Clusters <- OneCluster
    Backends = {"kubernetes"}
    Foreign = {}
    OwnersSeen = FALSE
    MaxEdits = 2
    MaxTouches = 0
    MaxFaults = 1
    MaxLag = 2
PROPERTIES
    ComesToRest
CHECK_DEADLOCK FALSE
