SPECIFICATION Spec
CONSTANTS
    ca = ca
    tx = tx
    la = la
    ha = ha
    Flows = {"domestic", "overseas"}
    States = {ca, tx}
    Regions = {la, ha}
    Home <- HomeOf
    None = None
    Unset = Unset
    Voters <- TwoVoters
    MaxRequests = 2
    MaxFaults = 1
INVARIANTS TypeOK OneTypeIsSent PartsFitType MismatchNeedsRace NameNeedsFault
