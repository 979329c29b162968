SPECIFICATION ServicesSpec
CHECK_DEADLOCK FALSE
CONSTRAINT OneMailing
CONSTANTS
    p1 = p1
    p2 = p2
    s1 = s1
    i1 = i1
    i2 = i2
    q1 = q1
    q2 = q2
    Player = {p1, p2}
    Caller = {r1, r2, r3}
    LocalCoach = LocalCoach
    Slots <- OneEach
    MaxWaiting <- OneEach
    Ceiling = 2
    Window = 1
    LastTime = 2
    MaxDelay = 1
    SlotCalls <- MixedCalls
    Operation = {o1, o2}
    NoOperation = none
    WindowOf <- TrafficWindows
    LimitOf <- TrafficLimits
    MaxPlayers = 1
    PerSecond = 2
    LastTick = 4
    MaxLag = 1
    MaxAdmissions = 3
    Session = {s1}
    PlayerOf <- OneSession
    Hosted = {h1, h2, h3}
    WorstCase = 1
    OperationCeiling = 1
    MaxSteps = 1
    SessionCeiling = 3
    PlayerCeiling = 4
    GlobalCeiling = 9
    ProviderSlots = 1
    Import = {i1, i2}
    GameOf <- OneGame
    NoImport = none
    Command = {c1, c2}
    MaxReviews = 2
    Runner = {d1, d2}
    Recoverer = d1
    LastHour = 3
    MaxFailures = 2
    Request = {q1, q2}
    VerifiedFor <- Addresses
    Nobody = none
    Admin = {a1, a2}
    MaxAttempts = 2
INVARIANTS
    OneWorkloadPerPlayer SlotsAddUp MeterKeepsWindow
    TrafficWithinLimit ImportsCountedOnce RefusalsNameARetry
    EnvelopeExclusive BilledOnce ReservationsAreReleased
    ImportsAgree DeletionInOrder AccessAgrees SendersHoldTheirAttempt
PROPERTIES
    CallersReturn DeletionsFinish
