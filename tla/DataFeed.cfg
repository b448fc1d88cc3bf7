SPECIFICATION FairSpec
CONSTANTS
    NumEas = 2
    Early = {1, 2}
    RetryMax = 1
    StaleThreshold = 1
    MaxTime = 2
    MaxFaults = 1
INVARIANTS
    TypeOK
    WholeFiles
    DecidesOnThisPass
PROPERTIES
    LastBarDecided
