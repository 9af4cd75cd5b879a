SPECIFICATION Spec
CONSTANTS
    c1 = c1
    c2 = c2
    Calls <- TwoCalls
    Staff = FALSE
    TwoFactor = FALSE
    RaceGrace = 1
    RecoveryWindow = 3
    IdleLimit = 2
    AccessLife = 2
    Lifetime = 6
    MaxAttempts = 1
    HistoryLimit = 4
    Horizon = 7
INVARIANT NoFalseReuse
CHECK_DEADLOCK FALSE
