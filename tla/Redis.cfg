SPECIFICATION FairSpec
CONSTANTS
    Calls = {c1, c2}
    FailOpen = {c2}
    Buckets = 2
    Handshake <- Both
    Refusable = {"auth", "select", "eval"}
    MaxConns = 2
    Losses = 1
    Garbled = 1
    None = None
INVARIANTS
    TypeOK
    AdmittedAreCounted
    CountedInPlace
PROPERTY RequestsSettle
\* Every request is answered once.
CHECK_DEADLOCK FALSE
