SPECIFICATION Spec
CONSTANTS
    w1 = w1
    w2 = w2
    s1 = s1
    s2 = s2
    b1 = b1
    b2 = b2
    b3 = b3
    r1 = r1
    r2 = r2
    r3 = r3
    r4 = r4
    Workers = {w1}
    Slots = {s1, s2}
    Host <- OneWorkerTwoSlots
    Janitors = {w1}
    Batches = {b1, b2, b3}
    Requests = {r1, r2, r3, r4}
    Members <- PairSinglePoison
    Poison = {b3}
    Corrupt = {r1}
    Faults = {"crash", "stop", "exception", "scan_error", "heartbeat_dies", "stall", "lost_reply", "expiry"}
    MaxFaults = 1
    NoBatch = NoBatch
    NoWorker = NoWorker
    NoAnswer = NoAnswer
INVARIANTS TypeOK AnsweredBeforeForgotten FirstAnswerGood
PROPERTIES QueueContract
CHECK_DEADLOCK FALSE
