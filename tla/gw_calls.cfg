SPECIFICATION FairSpec
CONSTANTS
    r1 = r1
    r2 = r2
    r3 = r3
    Requests = {r1, r2, r3}
    FailThreshold = 2
    MaxConnections = 2
    MaxLen = 2
    Faults = {"connection", "other", "crash", "worker", "expiry"}
    MaxFaults = 1
INVARIANTS TypeOK BreakerCount ImageWhileWaited RefusedLeavesNothing
PROPERTIES LateIsShed EveryCallEnds BreakerRecovers
CHECK_DEADLOCK FALSE
