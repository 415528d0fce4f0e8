SPECIFICATION RevisitSpec
CONSTANTS
    Bottle = {b1, b2}
    Reference = {r1, r2}
    MaxSeq = 4
    MaxFaults = 1
INVARIANTS
    TypeOK
    SkipsNeedOverlap
PROPERTIES
    ImplementsFeed
    CatchesUp
