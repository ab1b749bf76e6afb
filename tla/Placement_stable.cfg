SPECIFICATION Spec
CONSTANTS
    Vms <- PairVms
    Hosts <- PairHosts
    Nodes <- PairNodes
    None = None
    Ram <- PairRam
    Disk <- PairDisk
    RamOf <- PairRamOf
    DiskOf <- PairDiskOf
    MaxEdits = 2
    MayUnpin = FALSE
    MayLoseRecord = FALSE
    OfflineHosts = 1
CONSTRAINT FewOffline
INVARIANTS
    RecordedWhereItIs
PROPERTIES
    StaysPut
    KeepsHomes
