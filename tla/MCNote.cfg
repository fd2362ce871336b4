SPECIFICATION NoteFairSpec
CONSTANTS
    a = a
    b = b
    e1 = e1
    e2 = e2
    Sids <- MCSids
    Edits <- MCEdits
CHECK_DEADLOCK FALSE
INVARIANTS MembersAgree DocumentIsReleased EditsPending
PROPERTY EditsAreSaved
