SPECIFICATION Spec
CONSTANTS
    Passwords <- MCPasswords
    Names <- MCNames
    Fixtures <- MCFixtures
    Members <- MCMembers
    Groups <- MCGroups
    RoleOf <- MCRoleOf
    Tests <- MCTests
    Forms = 2
    Settles = 1
    Faulty <- MCFaulty
    MaxFaults = 2
    None = None
INVARIANTS
    TypeOK
    TiersSeen
    OnlyFailedRemovals
PROPERTIES
    CleansUp
