SPECIFICATION Spec
CONSTANTS
    r1 = r1
    r2 = r2
    r3 = r3
    r4 = r4
    r5 = r5
    m1 = m1
    m2 = m2
    Requests = {r1, r2, r3, r4, r5}
    Models = {m1, m2}
    ModelOf <- TwoModels
    Priority <- Classes
    Weight <- ClassWeights
    MaxBatch = 3
    MaxWait = 2
    MaxGap = 1
    NoModel = NoModel
INVARIANTS TypeOK WaitBound NoOvertaking Conserved OldestLeads
PROPERTIES BufferContract
CHECK_DEADLOCK FALSE
