SPECIFICATION Spec
CONSTANTS
    MaxOpenPositions = 1
    MaxDailyLoss = 10
    MaxDrawdown = 13
    MaxRiskPerTrade = 10
    MaxStopDistance = 1
    RewardRatio = 2
    VolumeStep = 1
    PointValue = 1
    StopLossBuffer = 1
    AiMode = "advisory"
    FailClosed = TRUE
    RejectAction = "WAIT"
    InitialBalance = 12
    MaxPrice = 3
    OthersShares <- MCOthersShares
    PointWorth = 2
    MaxTrades = 3
INVARIANTS
    TypeOK
    LossContained
    AiConsulted
PROPERTIES
    OpensBesideAnother
