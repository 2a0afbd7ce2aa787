CONSTANTS
    s1 = s1
    s2 = s2
    a1 = a1
    s3 = s3
    s4 = s4
    w1 = w1
    w2 = w2
    Sessions = {s1, s2, s3, s4}
    Accounts = {a1}
    AccountOf <- FourSessions
    Keys = {"k1"}
    Workers = {w1}
    None = None
    MaxRuns = 4
    MaxAttempts = 2
    AccountLimit = 2
    LeaseTtl = 1
    MaxOutput = 2
    Bootstrapped = TRUE
SPECIFICATION Spec
INVARIANTS
    AccountWithinLimit
