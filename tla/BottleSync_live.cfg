SPECIFICATION FairSpec
CONSTANTS
    b1 = b1
    b2 = b2
    Client <- OneBrowser
    DemoLot = DemoLot
    NoLot = NoLot
    NoRow = NoRow
    SeedTick = 1
    MaxTick = 3
    MaxTime = 2
    MaxBottles = 2
    MaxFaults = 2
INVARIANTS
    NoBottleLost
    ServerIdsAreFresh
PROPERTIES
    CursorsMoveForward
    PassesEnd
    HomedBottlesDelivered
