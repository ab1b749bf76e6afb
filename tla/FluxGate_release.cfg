SPECIFICATION Spec
CONSTANTS
    Releases <- MCReleases
    Tier <- MCTier
    Unstall <- MCUnstall
    Needed <- MCNeeded
    Deps <- MCDeps
    Gated <- MCGated
    Entry <- MCEntry
    Faulty <- MCFaulty
    MaxFaults = 2
INVARIANTS
    TypeOK
    NothingHeld
PROPERTIES
    Converges
