SPECIFICATION Spec
CONSTANTS
    Prices = {2, 3}
    BuyVolume = 6
    TargetPct = 10
    DailyBudget = 12
    SpendCeiling = 18
    MinBalance = 5
    Wallets = {6}
    Paper = FALSE
    BusDelivers = TRUE
    GovernorAnswers = {"allow", "deny"}
    ReportsMayLag = FALSE
    CrashMidFill = FALSE
    MaxOrders = 4
    MaxEpochs = 2
INVARIANT TypeOK
INVARIANT OneRunningEpoch
INVARIANT StatsMatchLedger
PROPERTY KeepsBooks
CHECK_DEADLOCK FALSE
CONSTRAINT MCFewLost
