SPECIFICATION Spec
CONSTANTS
    Nodes <- OneNode
    Vmids <- OneVmid
    None = None
    Stores <- OneStore
    CliStores <- OneStore
    Holds <- HoldsAll
    Selections <- AnySelection
    ApiDeletes <- FirstNode
    Fallback = TRUE
    Limit <- ReportLimit
INVARIANTS
    TypeOK
    RemovedIsGone
