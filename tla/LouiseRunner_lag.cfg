SPECIFICATION Spec
CONSTANTS
    Prices = {2, 3}
    BuyVolume = 6
    TargetPct = 10
    DailyBudget = 12
    SpendCeiling = 15
    MinBalance = 5
    Wallets = {6}
    Paper = FALSE
    BusDelivers = TRUE
    GovernorAnswers = {"allow", "deny"}
    ReportsMayLag = TRUE
    CrashMidFill = TRUE
    MaxOrders = 3
    MaxEpochs = 2
INVARIANT BuysCovered
INVARIANT RecordedOnce
INVARIANT StatsNeverOverstate
CHECK_DEADLOCK FALSE
