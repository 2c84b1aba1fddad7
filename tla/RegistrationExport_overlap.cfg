SPECIFICATION Spec
CONSTANTS
    Results = {r1}
    Fickle = {r1}
    Configs = {c1}
    Schedules = {hourly}
    Settings <- OnSftp
    Runs = {u1, u2}
    MaxVisits = 1
    MaxFaults = 1
    NoCsv = NoCsv
INVARIANTS OnlyConsentingDelivered ExportedWasDelivered
PROPERTIES ImplementsContract
SYMMETRY Symmetry
