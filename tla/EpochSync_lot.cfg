SPECIFICATION Spec
CONSTANTS
    lotA = lotA
    lotB = lotB
    old = old
    new = new
    NoRow = NoRow
    NoLot = NoLot
    Lot <- TwoLots
    Value <- OldOrNew
    RefCount = 1
    MaxEpoch = 2
    MaxSeq = 4
    MaxTick = 1
    MaxBottles = 1
    MaxFaults = 0
INVARIANTS
    PulledLotsAreHomes
