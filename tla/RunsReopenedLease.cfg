SPECIFICATION Spec
CHECK_DEADLOCK FALSE
CONSTANTS
    t1 = t1
    t2 = t2
    t3 = t3
    cellA = cellA
    cellB = cellB
    p1 = p1
    p2 = p2
    lichess = lichess
    NoHolder = NoHolder
    Task = {t1, t2}
    Holder = {cellA}
    HolderOf <- OneCell
    Profile = {p1}
    Provider = {lichess}
    ProviderOf <- OneProfile
    Game = {g1}
    LastWindow = 1
    MaxAttempts <- SingleBudgetA
    MaxFence = 0
    MaxTakeovers = 1
    MaxRegenerations = 1
INVARIANTS
    LeaseExclusive
