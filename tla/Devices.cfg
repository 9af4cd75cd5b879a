SPECIFICATION Spec
CONSTANTS
    Sessions = {s1, s2, s3}
    Calls = {c1, c2}
    Factors = {f1}
    Devices = {d1, d2}
    MaxSlots = 2
    MaxAttempts = 2
    ChallengeLife = 1
    Lifetime = 1
    Changes = 2
    Horizon = 1
    None = None
SYMMETRY AnyId
INVARIANTS
    TypeOK
    SlotsExclusive
    OwnersAreCurrent
    OwnersAreProven
    OneSessionEach
\* Ids and bounds are used up.
CHECK_DEADLOCK FALSE
