SPECIFICATION Spec
CONSTANTS
    MaxEntries = 4
    MaxCommands = 2
    MaxTickets = 2
    FullVolume = 2
    MaxFaults = 2
INVARIANTS
    TypeOK
    LossBounded
    ClosesTold
