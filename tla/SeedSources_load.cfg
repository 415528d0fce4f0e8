SPECIFICATION Spec
CHECK_DEADLOCK FALSE
CONSTANTS
    NoKey = NoKey
    Code <- Codes
    Value <- Values
    Sources <- FileTriples
INVARIANTS
    TypeOK
    AcceptedIsCoherent
    RefusedHasFault
