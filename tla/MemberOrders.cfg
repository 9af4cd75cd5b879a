SPECIFICATION Spec
CONSTANTS
    Users = {u1}
    Orders = {o1, o2}
    Staff = {s1}
    Keys = {k1}
    NoKey = NoKey
    Providers = {p1}
    None = None
    Sources <- AllSources
    MaxBalance = 4
    MaxRows = 5
    Prices = {2}
    Adjustments = {2, 4}
    PointChanges = {1}
    Flash <- OneFlash
    Voucher <- OneVoucher
    PointUnit = 2
    PointsPer = 1
    SequenceLimit = 3
    MaxPoints = 3
SYMMETRY OrderSymmetry
INVARIANTS
    TypeOK
    LedgerChained
    OrderMoneyStory
    PointsCoverAwards
    DiscountsAccounted
    MoneyConserved
PROPERTY WalletPromise
