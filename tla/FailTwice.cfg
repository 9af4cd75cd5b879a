SPECIFICATION Spec
CONSTANTS
    Users = {u1}
    Orders = {o1, o2}
    Staff = {s1}
    Keys = {k1}
    NoKey = NoKey
    Providers = {p1}
    None = None
    Sources <- AllSources
    MaxBalance = 4
    MaxRows = 5
    Prices = {2}
    Adjustments = {4}
    PointChanges = {}
    Flash <- NoFlash
    Voucher <- NoVoucher
    PointUnit = 2
    PointsPer = 1
    SequenceLimit = 3
    MaxPoints = 3
SYMMETRY OrderSymmetry
INVARIANT FailureCanBeCredited
