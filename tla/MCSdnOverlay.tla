---------------------------- MODULE MCSdnOverlay ----------------------------
(* The estate's three nodes with two VMs on the vnet.                        *)
EXTENDS SdnOverlay

ThreeNodes == 1 .. 3
TwoVms == 1 .. 2

With(f) == [d \in Disturbances |-> IF d \in DOMAIN f THEN f[d] ELSE 0]

AllLimit == With([fault |-> 1, down |-> 1, recreate |-> 1, migrate |-> 1,
                  ifup |-> 1, command |-> 1])
=============================================================================
