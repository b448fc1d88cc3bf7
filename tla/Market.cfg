SPECIFICATION Spec
CONSTANTS
    MaxOpenPositions = 1
    MaxDailyLoss = 15
    MaxDrawdown = 10
    MaxRiskPerTrade = 10
    MaxStopDistance = 3
    RewardRatio = 1
    VolumeStep = 1
    PointValue = 1
    StopLossBuffer = 1
    AiMode = "advisory"
    FailClosed = TRUE
    RejectAction = "WAIT"
    Unit = 144000
    Weights <- MCWeights
    LookbackBars = 2
    VolatilityThreshold = 150
    BlockHighImpactNews = TRUE
    Bars <- MCBars
    FirstBars <- MCFirstBars
    BarSeconds = 3
    Shifts = {0, 1}
    MaxBars = 4
    MaxRepeats = 1
INVARIANTS
    TypeOK
    RowsPerBar
    SidesMirror
CHECK_DEADLOCK FALSE
