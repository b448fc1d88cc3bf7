SPECIFICATION FairSpec
CONSTANTS
    MaxCommands = 2
    MaxTickets = 2
    FullVolume = 2
    MaxCrashes = 2
    MaxIoErrors = 1
    MaxEaRestarts = 1
    MaxAckFailures = 1
    MaxExternalCloses = 2
    MaxFaults = 2
INVARIANTS
    TypeOK
    RecoveryResolves
    StateAndJournalAgree
    AckProvenance
    TicketProvenance
    ExecutionBound
PROPERTIES
    PicksUpNewest
    NeverPicksUpSettled
    ImplementsLedger
    BeliefConverges
