CONSTANTS
    s1 = s1
    s2 = s2
    a1 = a1
    s3 = s3
    s4 = s4
    w1 = w1
    w2 = w2
    Sessions = {s1}
    Accounts = {a1}
    AccountOf <- OneSession
    Keys = {"k1"}
    Workers = {w1, w2}
    None = None
    MaxRuns = 1
    MaxAttempts = 2
    AccountLimit = 1
    LeaseTtl = 2
    MaxOutput = 3
    Bootstrapped = FALSE
SPECIFICATION FairSpec
INVARIANTS
    TypeOK
    RowsAgree
    
    StreamIsWhole
    CancelIntentHonoured
PROPERTIES
    ImplementsLifecycle
    OnlyTheLiveAttemptWrites
    RunConverges
