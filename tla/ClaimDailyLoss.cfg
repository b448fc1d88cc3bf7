SPECIFICATION DaySpec
CONSTANTS
    MaxOpenPositions = 1
    MaxDailyLoss = 5
    MaxDrawdown = 20
    MaxRiskPerTrade = 10
    MaxStopDistance = 1
    RewardRatio = 2
    VolumeStep = 1
    PointValue = 1
    StopLossBuffer = 1
    AiMode = "advisory"
    FailClosed = TRUE
    RejectAction = "WAIT"
    InitialBalance = 40
    MaxPrice = 3
    PointWorth = 1
    OthersShares = {0, 3}
    MaxTrades = 2
    MaxDays = 1

PROPERTIES
    NoOpenPastDailyLoss
