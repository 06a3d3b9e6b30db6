SPECIFICATION FairSpec
CONSTANTS
    r1 = r1
    r2 = r2
    r3 = r3
    m1 = m1
    m2 = m2
    c1 = c1
    c2 = c2
    Requests = {r1, r2}
    Models = {m1, m2}
    ModelOf <- Pair
    Replicas = {c1, c2}
    MaxBatch = 2
    MaxLen = 1
    Faults = {"crash", "stop", "error", "lost_reply"}
    MaxFaults = 2
INVARIANTS TypeOK AckedIsHandled HeldOnce NothingOrphaned
PROPERTIES HandoverContract HandledOrOrphaned
