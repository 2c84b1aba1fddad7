SPECIFICATION FairSpec
CONSTANTS
    Emails = {e1, e2}
    Urgent = {e1}
    BadAddress = {}
    NoEmail = NoEmail
    Servers = {s1}
    MaxAttempts = 2
    MaxRetries = 2
    BatchSize = 1
    MaxFaults = 2
INVARIANTS TypeOK DuplicateNeedsFault AttemptsAreBounded
PROPERTIES ImplementsContract SentIsFinal QueuedIsResolved
