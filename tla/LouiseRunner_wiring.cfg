SPECIFICATION SteadySpec
CONSTANTS
    Prices = {2, 3}
    BuyVolume = 6
    TargetPct = 10
    DailyBudget = 12
    SpendCeiling = 18
    MinBalance = 5
    Wallets = {6}
    Paper = FALSE
    BusDelivers = FALSE
    GovernorAnswers = {"raise"}
    ReportsMayLag = FALSE
    CrashMidFill = FALSE
    MaxOrders = 4
    MaxEpochs = 2
CHECK_DEADLOCK FALSE
PROPERTY EventuallyBuys
