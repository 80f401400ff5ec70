\* A cycle may start before the cache shows the previous one's status write.
SPECIFICATION Spec
CONSTANTS
    Keys = {k1, k2}
    Times = {1, 2}
    MaxRecords = 1
    BufferSize = 2
    MaxObservations = 3
    MaxEdits = 2
    MaxFaults = 0
    FreshReads = FALSE
    Bare = TRUE
SYMMETRY Symmetry
INVARIANT StableIDs
