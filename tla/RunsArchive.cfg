SPECIFICATION Spec
SYMMETRY Interchangeable
CHECK_DEADLOCK FALSE
CONSTANTS
    t1 = t1
    t2 = t2
    t3 = t3
    cellA = cellA
    cellB = cellB
    p1 = p1
    p2 = p2
    lichess = lichess
    NoHolder = NoHolder
    Task = {t1, t2}
    Holder = {cellA}
    HolderOf <- OneCell
    Profile = {p1}
    Provider = {lichess}
    ProviderOf <- OneProfile
    Game = {g1, g2}
    LastWindow = 2
    MaxAttempts <- SingleBudgetA
    MaxFence = 1
    MaxTakeovers = 1
    MaxRegenerations = 1
CONSTRAINT OneRunOrOneGame
INVARIANTS
    CardsMatchDigests
PROPERTIES
    ImplementsArchive
