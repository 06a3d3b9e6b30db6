SPECIFICATION Spec
CONSTANTS
    t1 = t1
    t2 = t2
    Threads = {t1, t2}
    Rate = 1
    Burst = 7
    Cost = 7
    Second = 4
    MaxTime = 7
    NoThread = NoThread
INVARIANTS TypeOK WithinRate Solvent
PROPERTIES RetryAfterEnough
