CONSTANTS
    MaxClaims = 2
    MaxGens = 2
    MaxEvents = 2
    Attempts = {1, 2}
SPECIFICATION FairSpec
CHECK_DEADLOCK FALSE
INVARIANTS
    TypeOK
    EffectOnce
    
PROPERTIES
    OrderKept
    NothingLost
