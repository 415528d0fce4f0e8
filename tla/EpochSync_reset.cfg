SPECIFICATION RevisitSpec
CONSTANTS
    lotA = lotA
    lotB = lotB
    old = old
    new = new
    NoRow = NoRow
    NoLot = NoLot
    Lot <- OneLot
    Value <- OldOrNew
    RefCount = 2
    MaxEpoch = 2
    MaxSeq = 3
    MaxTick = 1
    MaxBottles = 1
    MaxFaults = 2
INVARIANTS
    TypeOK
    KnownServerIsMirrored
PROPERTIES
    Rehydrates
    DropsOnlyAfterNuke
