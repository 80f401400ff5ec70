\* The policy has no annotations but acknowledgements.
SPECIFICATION Spec
CONSTANTS
    Keys = {k1, k2}
    Times = {1, 2}
    MaxRecords = 1
    BufferSize = 2
    MaxObservations = 3
    MaxEdits = 2
    MaxFaults = 0
    FreshReads = TRUE
    Bare = TRUE
SYMMETRY Symmetry
PROPERTY AnnotationsSurvive
