SPECIFICATION Spec
CONSTANTS
    Labels = {"x", "y"}
    UIDs = {1, 2}
    Backends = {"kubernetes", "istio"}
    Names = {"p", "q"}
    Workloads = {"a", "b"}
    External = "external"
    Unsupported = {"external"}
    Keys = {"k1", "k2", "k3"}
    Times = {1, 2}
    MaxRecords = 2
    MaxBatch = 2
    Records = {r1, r2}
    Zero = Zero
    Size = 3
    MaxBufferEntries = 4
    MaxPos = 8
INVARIANTS
    ReadyIffExclusive
    KeptOverlapReported
    GoesToItsPolicy
    DoesWhatItPromises
    NamesWhoTalked
    FlowCountedOnce
    DropsRecorded
    MeshLearns
    MeshRecords
    ParsersAgree
    LearnsWhatItSaw
    LearningAddsOnlyTheFlow
    ClearsOnlyPermitted
    TLSAsAsked
PROPERTIES
    ImplementsBoundedLog
CHECK_DEADLOCK FALSE
