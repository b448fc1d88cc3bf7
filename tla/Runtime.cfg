SPECIFICATION FairSpec
CONSTANTS
    LookbackBars = 3
    SpreadThreshold = 100
    NumInstances = 3
    MaxSpread = 1
    MaxRows = 2
    MaxRequests = 1
    MaxKills = 1
    MaxIoErrors = 1
INVARIANTS
    TypeOK
    CleanExitSaves
PROPERTIES
    EveryInstanceVisited
    ShutdownEnds
