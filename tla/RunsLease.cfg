SPECIFICATION Spec
SYMMETRY Interchangeable
CHECK_DEADLOCK FALSE
CONSTANTS
    t1 = t1
    t2 = t2
    t3 = t3
    cellA = cellA
    cellB = cellB
    p1 = p1
    p2 = p2
    lichess = lichess
    NoHolder = NoHolder
    Task = {t1, t2, t3}
    Holder = {cellA, cellB}
    HolderOf <- SharedCell
    Profile = {p1}
    Provider = {lichess}
    ProviderOf <- OneProfile
    Game = {g1, g2}
    LastWindow = 1
    MaxAttempts <- MixedBudgets
    MaxFence = 0
    MaxTakeovers = 2
    MaxRegenerations = 0
INVARIANTS
    TypeOK
    UnregeneratedLeaseExclusive
    UnregeneratedRunsReadable
    AttemptsWithinBudget
PROPERTIES
    LostLeaseStaysLost
    FinishedRunsAreFinal
