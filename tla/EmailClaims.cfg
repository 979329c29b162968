SPECIFICATION Spec
SYMMETRY Senders
CONSTANTS
    Sender = {s1, s2}
    Email = {a}
    NoEmail = NoEmail
    MaxRegenerations = 1
    MaxMessages = 2
    ClaimTtl = 1
    RetryHorizon = 2
    HandOffLimit = 1
    KeyRetention = 3
INVARIANTS
    TypeOK
    OriginalSentOnce
    SentRecordsNameMessages
PROPERTIES
    SettledIsFinal
