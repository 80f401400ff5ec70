SPECIFICATION Spec
CONSTANTS
    Names = {1}
    Specs <- ChangingSpecs
    Clusters <- TwoClusters
    Backends = {"kubernetes", "istio"}
    Foreign <- Strangers
    OwnersSeen = TRUE
    MaxEdits = 2
    MaxTouches = 2
    MaxFaults = 1
    MaxLag = 2
INVARIANTS
    TypeOK
    Converged
PROPERTIES
    ConditionsAreCurrent
    OthersObjectsKept
CHECK_DEADLOCK FALSE
