SPECIFICATION FairSpec
CONSTANTS
    Sender = {s1, s2}
    Email = {a}
    NoEmail = NoEmail
    MaxRegenerations = 0
    MaxMessages = 1
    ClaimTtl = 1
    RetryHorizon = 2
    HandOffLimit = 1
    KeyRetention = 3
PROPERTIES
    PendingIsSettled
