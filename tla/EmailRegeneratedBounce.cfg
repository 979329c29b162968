SPECIFICATION Spec
CONSTANTS
    Sender = {s1, s2}
    Email = {a}
    NoEmail = NoEmail
    MaxRegenerations = 1
    MaxMessages = 2
    ClaimTtl = 1
    RetryHorizon = 2
    HandOffLimit = 2
    KeyRetention = 4
PROPERTIES
    RecordedBouncesSuppress
