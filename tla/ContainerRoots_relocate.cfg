SPECIFICATION Spec
CONSTANTS
    Roots <- MCRoots
    Docker <- MCDocker
    Items <- MCItems
    None = None
    Faulty <- MCFaulty
    MaxFaults = 4
INVARIANTS
    TypeOK
    NothingGone
    Relocated
PROPERTIES
    BackUp
