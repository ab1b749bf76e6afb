SPECIFICATION FairSpec
CONSTANTS
    Nodes <- TwoNodes
    Vmids <- TwoVmids
    None = None
    Stores <- TwoStores
    CliStores <- OneStore
    Holds <- HoldsApart
    Selections <- AnySelection
    ApiDeletes <- FirstNode
    Fallback = TRUE
    Limit <- HealLimit
INVARIANTS
    VmWhole
PROPERTIES
    Built
