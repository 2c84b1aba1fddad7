SPECIFICATION Spec
CONSTANTS
    Emails = {e1}
    Urgent = {}
    BadAddress = {}
    NoEmail = NoEmail
    Servers = {s1}
    MaxAttempts = 2
    MaxRetries = 2
    BatchSize = 2
    MaxFaults = 0
PROPERTIES OnlySentIsDeleted
