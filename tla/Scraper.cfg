SPECIFICATION Spec
CONSTANTS
    Hops <- AllHops
    MaxConsecutiveFailures = 5
    ChannelSize = 2
    MaxVersion = 2
    MaxFaults = 3
INVARIANTS
    ReturnsForAReason
    FreshCredentials
PROPERTIES
    CancelStops
    Settles
CHECK_DEADLOCK FALSE
