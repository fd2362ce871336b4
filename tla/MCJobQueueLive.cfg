SPECIFICATION FairSpec
CONSTANTS
    planetir = planetir
    notebook = notebook
    w1 = w1
    w2 = w2
    NoJob = NoJob
    Jobs <- MCJobs
    NotebookJobs <- MCNotebookJobs
    LongJobs <- MCNotebookJobs
    Workers <- MCOneWorker
    FaultKinds <- MCAllFaults
    MaxFaults = 2
CHECK_DEADLOCK FALSE
PROPERTIES JobsSettle ImplementsFairness
