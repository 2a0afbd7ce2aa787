CONSTANTS
    Candidates = {c1, c2}
    MaxRequests = 2
    Builds = {b1}
    None = None
    MaxToggles = 2
    MaxFaults = 1
    MaxRestores = 1
SPECIFICATION Spec
CHECK_DEADLOCK FALSE
INVARIANTS
    CanBeRestored
