SPECIFICATION FairSpec
CONSTANTS
    NumInstances = 2
    Retention = 1
    MaxLines = 2
    MaxUpdates = 2
    MaxTime = 4
    MaxKills = 1
    MaxShutdowns = 1
    MaxErrors = 1
    MaxFaults = 1
INVARIANTS
    TypeOK
    LinesKept
    OldestLeaveFirst
    CopiesBounded
PROPERTIES
    StateNeverRollsBack
    OldLinesLeave
