SPECIFICATION FairSpec
CONSTANTS
    Nodes <- ThreeNodes
    Vms <- TwoVms
    MaxMac = 3
    Limit <- AllLimit
    MaxKinds = 2
INVARIANTS
    TypeOK
    Durable
PROPERTIES
    Heals
