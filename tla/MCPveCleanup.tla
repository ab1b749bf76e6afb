---------------------------- MODULE MCPveCleanup ----------------------------
(* Two nodes and two VMIDs; local-lvm is both the disk and the cloud-init    *)
(* datastore, or the two are apart.                                          *)
EXTENDS PveCleanup

TwoNodes == 1 .. 2
OneNode == 1 .. 1
TwoVmids == 1 .. 2
OneVmid == 1 .. 1
OneStore == {"local-lvm"}
TwoStores == {"local-lvm", "snippets-lvm"}
HoldsAll == [s \in OneStore |-> VolumeKinds]
HoldsApart == [s \in TwoStores |->
                 IF s = "local-lvm" THEN {"disk", "backup"} ELSE {"ci"}]
FirstNode == {1}
AnySelection == SUBSET Vmids \ {{}}

With(f) == [d \in Disturbances |-> IF d \in DOMAIN f THEN f[d] ELSE 0]

ReportLimit == With([fault |-> 1, slow |-> 1, crash |-> 2, kill |-> 1,
                     cli |-> 1, backup |-> 1])
HealLimit == With([fault |-> 1, crash |-> 2, nopexpect |-> 1, nopassword |-> 1])
=============================================================================
