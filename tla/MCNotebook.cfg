SPECIFICATION FairSpec
CONSTANTS
    j1 = j1
    j2 = j2
    w1 = w1
    w2 = w2
    stats = stats
    NoJob = NoJob
    NoKernel = NoKernel
    Jobs <- MCJobs
    Notebooks <- MCNotebooks
    NotebookOf <- MCNotebookOf
    Workers <- MCWorkers
    Cells = 1
    MaxFaults = 2
CHECK_DEADLOCK FALSE
INVARIANTS OneWriter OwnProductUnlessShared
PROPERTIES AbandonedOnlyByFaults CancelledRunsEnd
