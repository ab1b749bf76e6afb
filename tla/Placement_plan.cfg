SPECIFICATION Spec
CONSTANTS
    Vms <- MCVms
    Hosts <- MCHosts
    Nodes <- MCNodes
    None = None
    Ram <- MCRam
    Disk <- MCDisk
    RamOf <- MCRamOf
    DiskOf <- MCDiskOf
    MaxEdits = 1
    MayUnpin = TRUE
    MayLoseRecord = TRUE
    OfflineHosts = 0
CONSTRAINT FewOffline
INVARIANTS
    TypeOK
    FreshFits
    Balanced
