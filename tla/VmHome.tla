------------------------------- MODULE VmHome -------------------------------
(***************************************************************************)
(* What the placement promises an estate of VMs, without capacities, files *)
(* or builds: a VM is given one home in its life, before it first exists,  *)
(* and is only ever created at its pin or at its home.  It leaves a node   *)
(* when it is no longer wanted or when its pin or home is another one.     *)
(***************************************************************************)
CONSTANTS Vms, Hosts, None

VARIABLES
    home,     \* VM -> the node it was given, or None
    pins,     \* VM -> the host the operator pins it to, or None
    wanted,   \* VMs the operator wants
    where     \* VM -> the host it exists on, or None

estate == <<home, pins, wanted, where>>

Nowhere == [v \in Vms |-> None]

Target(v) == IF pins[v] # None THEN pins[v] ELSE home[v]

Init == home = Nowhere /\ pins = Nowhere /\ wanted = Vms /\ where = Nowhere

Pin(v) ==
    /\ \E h \in Hosts : pins' = [pins EXCEPT ![v] = h]
    /\ UNCHANGED <<home, wanted, where>>

Want ==
    /\ wanted' \in SUBSET Vms
    /\ UNCHANGED <<home, pins, where>>

\* Some wanted VMs that have neither home nor pin, and do not exist, get a home.
Settle ==
    /\ home' \in [Vms -> Hosts \cup {None}]
    /\ \A v \in Vms :
          home'[v] # home[v] =>
              home[v] = None /\ pins[v] = None /\ where[v] = None /\ v \in wanted
    /\ UNCHANGED <<pins, wanted, where>>

Create(v) ==
    /\ v \in wanted /\ where[v] = None /\ Target(v) # None
    /\ where' = [where EXCEPT ![v] = Target(v)]
    /\ UNCHANGED <<home, pins, wanted>>

Remove(v) ==
    /\ where[v] # None
    /\ v \notin wanted \/ where[v] # Target(v)
    /\ where' = [where EXCEPT ![v] = None]
    /\ UNCHANGED <<home, pins, wanted>>

Next == \/ Want \/ Settle
        \/ \E v \in Vms : Pin(v) \/ Create(v) \/ Remove(v)

Spec == Init /\ [][Next]_estate
=============================================================================
