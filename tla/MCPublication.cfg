SPECIFICATION FairSpec
CONSTANTS
    c1 = c1
    c2 = c2
    c3 = c3
    NoCall = NoCall
    Calls <- MCThreeCalls
    NumArtifacts = 2
    Dated <- MCReport
    Disturbances <- MCAll
    MaxFaults = 2
CHECK_DEADLOCK FALSE
INVARIANT DescriptorsAreComplete
PROPERTY PublishedUnlessDisturbed
