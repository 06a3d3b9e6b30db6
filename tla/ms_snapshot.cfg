SPECIFICATION FairSpec
CONSTANTS
    w1 = w1
    w2 = w2
    b1 = b1
    b2 = b2
    b3 = b3
    Workers = {w1, w2}
    Batches = {b1, b2, b3}
    Attempts = 2
    MaxMoves = 2
    MaxErrors = 2
INVARIANTS TypeOK OffByMoves
PROPERTIES SamplesForEver
CHECK_DEADLOCK FALSE
