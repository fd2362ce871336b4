SPECIFICATION Spec
CONSTANTS
    planetir = planetir
    notebook = notebook
    w1 = w1
    w2 = w2
    NoJob = NoJob
    Jobs <- MCJobs
    NotebookJobs <- MCNotebookJobs
    LongJobs <- MCNotebookJobs
    Workers <- MCWorkers
    FaultKinds <- MCAllFaults
    MaxFaults = 2
CHECK_DEADLOCK FALSE
SYMMETRY MCSymmetry
INVARIANTS NoJobLost OneCopy SuccessIsAudited ForgettingBounded
PROPERTY ImplementsLifecycle
