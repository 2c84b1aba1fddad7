SPECIFICATION Spec
CONSTANTS
    s1 = s1
    s2 = s2
    t1 = t1
    t2 = t2
    u1 = u1
    Servers = {s1, s2}
    Threads = {t1, t2, u1}
    ServerOf <- Placement
    LastMonth = 1
    MaxCalls = 3
    MaxPairs = 6
    MaxFaults = 2
SYMMETRY Alike
INVARIANTS TypeOK StoredIsReadable ReadsBack HalvesMatch
PROPERTIES ImplementsContract
