SPECIFICATION FairSpec
CONSTANTS
    r1 = r1
    r2 = r2
    r3 = r3
    m1 = m1
    m2 = m2
    c1 = c1
    c2 = c2
    Requests = {r1, r2, r3}
    Models = {m1, m2}
    ModelOf <- OneModel
    Replicas = {c1, c2}
    MaxBatch = 2
    MaxLen = 3
    Faults = {"crash"}
    MaxFaults = 1
PROPERTIES UnackedReclaimed
