SPECIFICATION FairSpec
CONSTANTS
    Flows = {f1, f2}
    Modes = {"monitor"}
    NameLengths = {63, 64}
    MaxInputs = 4
    MaxFaults = 1
    MaxLag = 2
INVARIANTS
    TypeOK
PROPERTIES
    NoLostUpdate
    LeftoversGo
    LabelsTakeEffect
    EventsSettle
CHECK_DEADLOCK FALSE
