SPECIFICATION Spec
CONSTANTS
    b1 = b1
    b2 = b2
    Client <- TwoBrowsers
    DemoLot = DemoLot
    NoLot = NoLot
    NoRow = NoRow
    SeedTick = 1
    MaxTick = 2
    MaxTime = 2
    MaxBottles = 2
    MaxFaults = 1
SYMMETRY Interchangeable
INVARIANTS
    TypeOK
    CleanRowsAreStored
    RequestsAreBacked
PROPERTIES
    StoredRowsMoveForward
    LocalRowsMoveForward
    ImplementsLwwStore
