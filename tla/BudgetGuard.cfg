SPECIFICATION Spec
CONSTANTS
    Bots <- MCBots
    Hubs <- MCHubs
    Other = "other"
    HubOf <- MCHubOf
    Ceiling <- MCCeiling
    MaxSpend = 4
    MaxAmount = 2
    Window = 1
    Horizon = 3
    TwoStep = {"dorothy2"}
INVARIANT TypeOK
INVARIANT WindowWithinCeiling
INVARIANT HubWithinShare
CHECK_DEADLOCK FALSE
