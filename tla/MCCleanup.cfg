SPECIFICATION ToolSpec
CONSTANTS
    u1 = u1
    o1 = o1
    o2 = o2
    root1 = root1
    t1 = t1
    t2 = t2
    s1 = s1
    s2 = s2
    f1 = f1
    NoPreview = NoPreview
    NoToken = NoToken
    NoPath = NoPath
    Users <- MCOneUser
    Outputs <- MCOutputs
    OwnerOf <- MCOwnerOf
    Admins <- MCOneAdmin
    Tokens <- MCTokens
    Sessions <- MCSessions
    Ages <- MCAges
    Files <- MCFiles
    CreatedAt <- MCCreatedAt
    MinAge = 1
    ValveAge = 1
    PreviewTtl = 1
    JobSpan = 1
    MaxTime = 3
    MaxFaults = 1
CHECK_DEADLOCK FALSE
SYMMETRY MCSymmetry
INVARIANTS DeletionsAudited ExecutionsBounded FilesAudited ContentLeaksBounded
PROPERTIES ListedOrNew OldWhenListed OnlyApprovedFiles
