---------------------------- MODULE MCEtcdRejoin ----------------------------
(* The estate's three control plane nodes; kubecp01 is the bootstrap host.  *)
EXTENDS EtcdRejoin

MCCPs == 1 .. 3
MCBootHost == 1
BothPlaybooks == {"kubecp", "rejoin"}
RejoinOnly == {"rejoin"}

Limits(strikes, hiccups, misreads, faults, reboots) ==
    [k \in Kinds |-> CASE k = "strike" -> strikes [] k = "hiccup" -> hiccups
                       [] k = "misread" -> misreads [] k = "fault" -> faults
                       [] k = "reboot" -> reboots]

HealLimit == Limits(2, 1, 1, 2, 0)
QuorumLimit == Limits(1, 0, 2, 2, 1)
OneStrikeOneFault == Limits(1, 0, 0, 1, 0)
=============================================================================
