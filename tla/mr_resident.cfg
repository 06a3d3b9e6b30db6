SPECIFICATION Spec
CONSTANTS
    c1 = c1
    c2 = c2
    c3 = c3
    m1 = m1
    m2 = m2
    m3 = m3
    Models = {m1, m2, m3}
    Callers = {c1, c2}
    CacheSize = 1
    Faults = {}
    MaxFaults = 0
    NoCaller = NoCaller
PROPERTIES ReturnsResident
