SPECIFICATION FairSpec
CONSTANTS
    Orders = {d1, v1, i1}
    Irs = {i1}
    Validations = {v1}
    Required <- CalledBack
    Jobs = {j1, j2}
    Requests = 2
    Troubles = 1
    None = None
INVARIANTS
    TypeOK
    ValidatedOnce
    DeliveredMeansTold
PROPERTIES
    ResellerPromise
    CallbackArrives
\* Requests are used up and every callback is delivered.
CHECK_DEADLOCK FALSE
