SPECIFICATION FairSpec
CONSTANTS
    Sessions = {s1}
    Answers = {a1}
    Loads = {l1, l2}
    None = None
    UseS3 = TRUE
    Rava = FALSE
    StoreTicks = 1
    LinkTicks = 0
    MaxAge = 1
    FaultKinds = {"crash", "poll"}
    MaxFaults = 1
PROPERTIES PageIsAnswered
