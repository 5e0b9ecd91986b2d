SPECIFICATION Spec
CONSTANTS
    Fuses <- MCFuses
    Base <- MCBase
    MaxCool <- MCMaxCool
    Grace <- MCGrace
    Factor <- MCFactor
    MaxStreak = 3
INVARIANT TypeOK
INVARIANT BlockedWhileOwed
INVARIANT HotTripsClimb
PROPERTY FuseReopens
