CONSTANTS
    r1 = r1
    r2 = r2
    r3 = r3
    Requests = {r1, r2, r3}
    FailureThreshold = 2
    Probes = 2
    SuccessesRequired = 3
SPECIFICATION FairSpec
INVARIANTS
    TypeOK
    ProbesAreReal
    ProbeLimit
    TrialBounded
PROPERTIES
    Recovers
