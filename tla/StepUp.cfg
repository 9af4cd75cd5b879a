SPECIFICATION FairSpec
CONSTANTS
    r1 = r1
    r2 = r2
    g1 = g1
    Runs = {r1, r2}
    Submits = {s1, s2}
    Groups = {g1}
    GroupOf <- OneGroup
    Keyed = {r2}
    Follows <- Loop
    Sessions = 3
    GrantLife = 1
    MaxGuesses = 2
    AnswerField = "grantToken"
    Changes = 3
    Horizon = 2
    None = None
INVARIANTS
    TypeOK
    DoneMeansEffect
    UndisturbedOnce
PROPERTIES
    EffectsAuthorised
    RunsSettle
\* Settled runs are the end.
CHECK_DEADLOCK FALSE
