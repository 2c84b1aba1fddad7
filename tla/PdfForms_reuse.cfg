SPECIFICATION FairSpec
CONSTANTS
    Sessions = {s1}
    Answers = {a1}
    Loads = {l1, l2}
    None = None
    UseS3 = FALSE
    Rava = TRUE
    StoreTicks = 1
    LinkTicks = 1
    MaxAge = 1
    FaultKinds = {}
    MaxFaults = 0
PROPERTIES FormsAreReused
