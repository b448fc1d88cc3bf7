SPECIFICATION Spec
CONSTANTS
    MaxCommands = 3
    MaxTickets = 1
    FullVolume = 1
    MaxCrashes = 0
    MaxIoErrors = 0
    MaxEaRestarts = 0
    MaxAckFailures = 0
    MaxExternalCloses = 0
    MaxFaults = 0
PROPERTIES
    WaitEndsInVerdict
