CONSTANTS
    g1 = g1
    Cards = {1, 2}
    Groups = {g1}
    Works = {{1, 2, g1}, {g1}}
    MaxCalls = 3
    Quotas = {1, 2}
    Limit = 1
    Ttl = 1
SPECIFICATION FairSpec
CHECK_DEADLOCK FALSE
INVARIANTS
    TypeOK
    SlotsHonest
    
    
PROPERTIES
    LateAnswersIgnored
    AnswersConverge
