SPECIFICATION Spec
CONSTANTS
    Shares = 5
    Threshold = 3
    GitShares = 3
    Faulty <- MCFaulty
    MaxFaults = 5
INVARIANTS
    TypeOK
    KeysKnown
    Recoverable
PROPERTIES
    Opens
