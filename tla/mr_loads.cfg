SPECIFICATION FairServing
CONSTANTS
    c1 = c1
    c2 = c2
    c3 = c3
    m1 = m1
    m2 = m2
    Models = {m1, m2}
    Callers = {c1, c2, c3}
    Promoters = {c3}
    CacheSize = 1
    Faults = {"timeout", "load_fails", "unload_fails"}
    MaxFaults = 2
    NoCaller = NoCaller
    Configured = m1
    Unpinned = Unpinned
INVARIANTS TypeOK MarksHonoured NeverReplaced CacheBounded
PROPERTIES EveryGetEnds PromotedIsWarm
CHECK_DEADLOCK FALSE
