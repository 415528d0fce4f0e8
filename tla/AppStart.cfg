SPECIFICATION FairSpec
CONSTANTS
    t1 = t1
    t2 = t2
    Tab <- TwoTabs
    NoTab = NoTab
    Closing = Closing
    MaxCalls <- OneCalls
    Useless = Useless
    MaxRelease = 2
    MaxFaults = 1
INVARIANTS
    TypeOK
PROPERTIES
    ImplementsCalls
    CallsAreSettled
    ComesUp
    EndsUpOffline
