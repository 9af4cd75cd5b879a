SPECIFICATION Spec
CONSTANTS
    Users = {u1, u2}
    Deposits = {d1}
    Vouchers = {v1}
    Giveaways = {g1, g2}
    Operators = {cs1, cs2, owner}
    Owners = {owner}
    Keys = {k1, k2}
    Amounts = {3}
    Fees <- SignedFees
    Worth <- OneEach
    Plans <- TwoPlans
    None = None
    Sources <- AllSources
    MaxBalance = 10
    MaxRows = 5
SYMMETRY VoucherSymmetry
INVARIANTS
    TypeOK
    CreditsMatchDecisions
    GiveawayPaysItsPool
PROPERTIES
    ClaimRespected
\* Used keys, vouchers and decided deposits are the end.
CHECK_DEADLOCK FALSE
