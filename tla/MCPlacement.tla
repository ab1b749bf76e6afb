---------------------------- MODULE MCPlacement ----------------------------
(* Instances of Placement for TLC: two candidate nodes and one host outside *)
(* deployment:nodeNames, and VMs of different footprints.                   *)
EXTENDS Placement, FiniteSets

CONSTANT OfflineHosts   \* how many hosts may be unreachable at once

MCVms == 1 .. 3
MCHosts == 1 .. 3
MCNodes == 1 .. 2
MCRam == <<2, 1, 2>>
MCDisk == <<1, 2, 1>>
MCRamOf == <<4, 3, 4>>
MCDiskOf == <<3, 4, 4>>

\* Two equal VMs on two nodes that can each take one.
PairVms == 1 .. 2
PairHosts == 1 .. 2
PairNodes == 1 .. 2
PairRam == <<2, 2>>
PairDisk == <<1, 1>>
PairRamOf == <<4, 3>>
PairDiskOf == <<4, 4>>

FewOffline == Cardinality(Hosts \ online) <= OfflineHosts
=============================================================================
