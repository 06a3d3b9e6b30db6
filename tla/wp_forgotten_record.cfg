SPECIFICATION FairSpec
CONSTANTS
    w1 = w1
    w2 = w2
    s1 = s1
    s2 = s2
    b1 = b1
    b2 = b2
    b3 = b3
    r1 = r1
    r2 = r2
    r3 = r3
    r4 = r4
    Workers = {w1, w2}
    Slots = {s1, s2}
    Host <- Two
    Janitors = {w2}
    Batches = {b1}
    Requests = {r1}
    Members <- OneSingle
    Poison = {}
    Corrupt = {}
    Faults = {"crash"}
    MaxFaults = 2
    NoBatch = NoBatch
    NoWorker = NoWorker
    NoAnswer = NoAnswer
PROPERTIES SurvivorRecovers
