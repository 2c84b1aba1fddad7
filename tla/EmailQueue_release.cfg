SPECIFICATION Spec
CONSTANTS
    Emails = {e1, e2}
    Urgent = {}
    BadAddress = {e2}
    NoEmail = NoEmail
    Servers = {s1, s2}
    MaxAttempts = 2
    MaxRetries = 2
    BatchSize = 2
    MaxFaults = 1
INVARIANTS SentWasAccepted GivesUpOnlyWhenDue
PROPERTIES ImplementsContract
