SPECIFICATION PreviewSpec
CONSTANTS
    Wines = 2
    Bottles = 1
    FirstLayout <- TwoByTwo
    Layouts <- OneSlot
    OriginalOpen <- B2
    OtherOpen <- B1
    Sample <- A1A2
    Quantities <- OneOrTwo
    Links <- Visited
    MaxEvents = 2
INVARIANTS
    PreviewTypeOK
    ConsumptionIsReversible
    SummaryShowsItsBottle
    PanelFollowsTheRack
    SavedSlotsAreOpen
