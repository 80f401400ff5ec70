\* The cache has caught up with the last status write when a cycle starts,
\* and the policy has annotations of its own besides the acknowledgements.
SPECIFICATION FairSpec
CONSTANTS
    Keys = {k1, k2}
    Times = {1, 2}
    MaxRecords = 2
    BufferSize = 2
    MaxObservations = 3
    MaxEdits = 1
    MaxFaults = 1
    FreshReads = TRUE
    Bare = FALSE
INVARIANTS
    StableIDs
    ActiveCountExact
    AcknowledgedIsFinal
    LoggedOnceWhenWritten
    CountedOnce
PROPERTIES
    AnnotationsSurvive
    AcknowledgementApplied
