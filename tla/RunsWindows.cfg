SPECIFICATION Spec
CHECK_DEADLOCK FALSE
CONSTANTS
    t1 = t1
    t2 = t2
    t3 = t3
    cellA = cellA
    cellB = cellB
    p1 = p1
    p2 = p2
    lichess = lichess
    NoHolder = NoHolder
    Task = {t1, t2}
    Holder = {cellA, cellB}
    HolderOf <- TwoCells
    Profile = {p1, p2}
    Provider = {lichess}
    ProviderOf <- OneProvider
    Game = {g1}
    LastWindow = 2
    MaxAttempts <- SmallBudgets
    MaxFence = 1
    MaxTakeovers = 0
    MaxRegenerations = 0
INVARIANTS
    FenceMarksEnabledStretch
    NoWindowPassedOver
PROPERTIES
    PublishedFromConnectedProfiles
