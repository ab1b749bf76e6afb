SPECIFICATION Spec
CONSTANTS
    CPs <- MCCPs
    BootHost <- MCBootHost
    Limit <- OneStrikeOneFault
    Reruns <- BothPlaybooks
INVARIANTS
    NoSecondCluster
