CONSTANTS
    Candidates = {c1, c2}
    MaxRequests = 2
    Builds = {b1}
    None = None
    MaxToggles = 2
    MaxFaults = 1
    MaxRestores = 1
SPECIFICATION FairSpec
CHECK_DEADLOCK FALSE
INVARIANTS
    TypeOK
PROPERTIES
    DecidedOnce
    FoundStaleStaysStale
    
    IndexSettles
