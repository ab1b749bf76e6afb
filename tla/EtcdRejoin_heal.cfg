SPECIFICATION FairSpec
CONSTANTS
    CPs <- MCCPs
    BootHost <- MCBootHost
    Limit <- HealLimit
    Reruns <- RejoinOnly
INVARIANTS
    TypeOK
    NoSecondCluster
PROPERTIES
    WipeOnlyAfterRemoved
    Healed
