SPECIFICATION FairSpec
CONSTANTS
    p1 = p1
    p2 = p2
    p3 = p3
    Kinds <- MCKinds
    Slots <- MCSlots
    JobLimit = 2
    IsisLimit = 4
    NotebookLimit = 3
    Visibility = 2
    Retention = 5
    MinAge = 5
CHECK_DEADLOCK FALSE
INVARIANTS OverlapBound OneAttended QueuedMeansQueued ArtifactsOutliveSuccess
PROPERTY DeliveriesEnd
