SPECIFICATION Spec
CONSTANTS
    c1 = c1
    c2 = c2
    Calls <- TwoCalls
    Staff = TRUE
    TwoFactor = TRUE
    RaceGrace = 0
    RecoveryWindow = 2
    IdleLimit = 2
    AccessLife = 3
    Lifetime = 3
    MaxAttempts = 1
    HistoryLimit = 2
    Horizon = 3
SYMMETRY AnyCall
INVARIANT TypeOK
 
PROPERTY IdleEndsAccess
PROPERTY ClosedForGood
CHECK_DEADLOCK FALSE
