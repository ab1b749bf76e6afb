SPECIFICATION Spec
CONSTANTS
    CPs <- MCCPs
    BootHost <- MCBootHost
    Limit <- QuorumLimit
    Reruns <- BothPlaybooks
INVARIANTS
    QuorumKept
