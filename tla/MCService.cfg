SPECIFICATION Spec
CONSTANTS
    j1 = j1
    j2 = j2
    j3 = j3
    h1 = h1
    h2 = h2
    h3 = h3
    alice = alice
    bob = bob
    NoMeta = NoMeta
    NoUser = NoUser
    NoJob = NoJob
    Jobs <- MCOneJob
    Handlers <- MCThreeHandlers
    Users <- MCTwoUsers
    Kinds <- MCBothKinds
    Requests <- MCAllRequests
    MaxUserJobs = 2
    MaxQueuedJobs = 2
    MaxReruns = 1
CHECK_DEADLOCK FALSE
SYMMETRY MCSymmetry
INVARIANTS OwnerIsolation ToldSuccessIsReal
PROPERTY FlagsLostOnlyToStaleWrites
