SPECIFICATION FairSpec
CHECK_DEADLOCK FALSE
CONSTANTS
    a = a
    b = b
    c = c
    u = u
    NoRequest = NoRequest
    Request = {r1, r2, r3}
    Key = {a, b, c}
    Uncacheable = {u}
    Weight <- Weights
    MaxBytes = 2
    RecencyFactor = 1
    RecencySlack = 1
    Calls <- MixedCalls
    Workers = 2
    Concurrency = 2
INVARIANTS
    TypeOK
    OneAnalysisPerFlight
    NoLostWakeup
    PermitsAddUp
    CacheFitsBudget
    RecencyIsBounded
PROPERTIES
    ImplementsLru
    RequestsReturn
