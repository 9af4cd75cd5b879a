SPECIFICATION Spec
CONSTANTS
    r1 = r1
    r2 = r2
    g1 = g1
    Runs = {r1, r2}
    Submits = {s1, s2}
    Groups = {g1}
    GroupOf <- OneGroup
    Keyed = {}
    Follows <- Loop
    Sessions = 1
    GrantLife = 1
    MaxGuesses = 2
    AnswerField = "stepUpToken"
    Changes = 1
    Horizon = 1
    None = None
PROPERTY GrantsArrive
CHECK_DEADLOCK FALSE
