SPECIFICATION FairSpec
CONSTANTS
    j1 = j1
    j2 = j2
    j3 = j3
    h1 = h1
    h2 = h2
    h3 = h3
    alice = alice
    bob = bob
    NoMeta = NoMeta
    NoUser = NoUser
    NoJob = NoJob
    Jobs <- MCThreeJobs
    Handlers <- MCTwoHandlers
    Users <- MCOneUser
    Kinds <- MCScience
    Requests <- MCSubmit
    MaxUserJobs = 1
    MaxQueuedJobs = 1
    MaxReruns = 0
CHECK_DEADLOCK FALSE
INVARIANT QuotaBound
PROPERTY AcceptedJobsEnd
