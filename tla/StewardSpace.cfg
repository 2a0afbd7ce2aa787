CONSTANTS
    alice = alice
    bob = bob
    t1 = t1
    t2 = t2
    Viewers = {alice}
    Tasks = {t1, t2}
    MaxAttempts = 2
    Counted = TRUE
    MaxEvent = 1
    MaxVersion = 2
    MaxRevision = 2
    MaxFaults = 1
SPECIFICATION FairSpec
INVARIANTS
    TypeOK
    CounterMatches
    
PROPERTIES
    PublishesTheCurrent
    SettledInOrder
    PublicationCatchesUp
    WorkConverges
