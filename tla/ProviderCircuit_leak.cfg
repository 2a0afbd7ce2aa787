CONSTANTS
    r1 = r1
    r2 = r2
    r3 = r3
    Requests = {r1, r2, r3}
    FailureThreshold = 2
    Probes = 1
    SuccessesRequired = 2
SPECIFICATION Spec
INVARIANTS
    RefusalHasAProbe
