SPECIFICATION Spec
CONSTANTS
    b1 = b1
    b2 = b2
    Client <- TwoBrowsers
    DemoLot = DemoLot
    NoLot = NoLot
    NoRow = NoRow
    SeedTick = 1
    MaxTick = 3
    MaxTime = 1
    MaxBottles = 2
    MaxFaults = 0
INVARIANTS
    IdsAreDistinct
