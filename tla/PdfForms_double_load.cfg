SPECIFICATION Spec
CONSTANTS
    Sessions = {s1}
    Answers = {a1, a2}
    Loads = {l1, l2}
    None = None
    UseS3 = FALSE
    Rava = TRUE
    StoreTicks = 0
    LinkTicks = 0
    MaxAge = 0
    FaultKinds = {}
    MaxFaults = 0
SYMMETRY Symmetry
INVARIANTS TypeOK GeneratedMeansWritten OneRegistrationPerTrack PendingHasForm
PROPERTIES ImplementsContract FormIsNeverReplaced
