SPECIFICATION FairSpec
CONSTANTS
    PositionSide = "BUY"
    Entry = 3
    InitialStop = 1
    Target = 5
    FullVolume = 2
    BreakevenProgress = 75
    PartialProgress = 50
    PartialShare = 50
    TrailingBuffer = 1
    VolumeStep = 1
    TimeStopBars = 3
    MaxPrice = 5
    MaxBarCount = 4
    MaxTimeouts = 1
    MaxRefusals = 1
    MaxHeld = 1
    MaxExternal = 1
INVARIANTS
    TypeOK
PROPERTIES
    ImplementsLife
    TimeStopCloses
