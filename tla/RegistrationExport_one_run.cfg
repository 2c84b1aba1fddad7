SPECIFICATION FairSpec
CONSTANTS
    Results = {r1}
    Fickle = {}
    Configs = {c1}
    Schedules = {hourly}
    Settings <- AllSettings
    Runs = {u1}
    MaxVisits = 2
    MaxFaults = 1
    NoCsv = NoCsv
INVARIANTS TypeOK DuplicateNeedsFault
PROPERTIES FreshExport PreparedIsExported
