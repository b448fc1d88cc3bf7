SPECIFICATION FairSpec
CONSTANTS
    NumInstances = 1
    Retention = 1
    MaxLines = 1
    MaxUpdates = 2
    MaxTime = 2
    MaxKills = 1
    MaxShutdowns = 0
    MaxErrors = 0
    MaxFaults = 1
PROPERTIES
    RestartCompletes
