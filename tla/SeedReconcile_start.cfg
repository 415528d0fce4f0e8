SPECIFICATION FairSpec
CONSTANTS
    NoKey = NoKey
    Code <- Codes
    Value <- Values
    Releases <- Upgrades
    US = "US"
    Default = "default"
    Unfit <- Unscoped
    Padded <- TwoLetters
    MaxBottles = 2
    ClientTick <- LowAndHigh
    MaxStops = 3
    MaxSeq = 14
INVARIANTS
    TypeOK
    IdsIdentify
    MapsHaveParents
    ServesItsRelease
    OneLot
PROPERTIES
    ChurnConfined
    EventuallyServes
CHECK_DEADLOCK FALSE
