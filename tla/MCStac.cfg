SPECIFICATION FairSpec
CONSTANTS
    a = a
    b = b
    next1 = next1
    next2 = next2
    NoLink = NoLink
    NoCount = NoCount
    Products <- MCProducts
    Links <- MCLinks
    PageMax = 2
    Counts <- MCCounts
    Limits <- MCLimits
CHECK_DEADLOCK FALSE
INVARIANTS NotFoundIsAbsent AnswerIsBounded
PROPERTY SearchEnds
