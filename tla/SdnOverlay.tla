----------------------------- MODULE SdnOverlay -----------------------------
(***************************************************************************)
(* The durable vxlan overlay between PVE nodes: the cluster-wide SDN apply *)
(* (infra/pulumi/modules/sdn.py), the static remote-FDB entries (sdn_fdb.  *)
(* py) and the callback of __main__.py that runs both after the VMs exist. *)
(*                                                                         *)
(* Every node has a data file of lines <<MAC, peer>>, a hook that replays  *)
(* it whenever the vxlan device comes up, and the kernel's table, which a  *)
(* reboot or an SDN reload empties.  PVE and the kernel are external: an   *)
(* append adds a destination to a multicast address, leaves a bound        *)
(* unicast address as it is, and rejects what is not six octets.           *)
(***************************************************************************)
EXTENDS Naturals, FiniteSets

CONSTANTS
    Nodes,      \* node_names; a node also stands for its underlay address
    Vms,        \* VMs with a NIC on the vnet (sdn_nic_index)
    MaxMac,     \* bound on the MACs PVE hands out
    Limit,      \* how many disturbances of each kind there are
    MaxKinds    \* bound on the kinds that a behaviour mixes

\* A request or SSH command that fails; a vxlan device that is down when the
\* hook is fired; a VM created anew, with a new MAC; a VM migrated, with its MAC;
\* a node that reboots or an SDN commit by hand; a run of the command
\* `python3 -m modules.sdn_fdb --apply'.
Disturbances == {"fault", "down", "recreate", "migrate", "ifup", "command"}

ASSUME ConstantsAssumption ==
    /\ Nodes \subseteq Nat /\ IsFiniteSet(Nodes) /\ Nodes # {}
    /\ Vms \subseteq Nat /\ IsFiniteSet(Vms)
    /\ MaxMac \in Nat /\ Cardinality(Vms) <= MaxMac
    /\ Limit \in [Disturbances -> Nat] /\ MaxKinds \in Nat

Macs == 1 .. MaxMac
Broadcast == 0                  \* _BROADCAST_MAC
Vrrp == MaxMac + 1              \* _MULTICAST_VRRP_MAC, five octets long
Addresses == 0 .. MaxMac + 1

VARIABLES
    loc, mac,    \* node and MAC of each VM, as its PVE config has them
    used,        \* MACs handed out
    file,        \* data file of each node: lines <<address, peer>>
    hook,        \* nodes with the hook installed
    fdb,         \* kernel table of each node: address -> destinations
    pc,          \* "idle", "reload", "discover" or "install"
    left,        \* nodes still to visit in this phase
    macs,        \* what _discover_sdn_macs found on each node
    missing,     \* what the last build reported as MISSING, by node
    clean,       \* nothing failed or changed since this build began
    current,     \* nor since the last complete build
    budget

vms == <<loc, mac, used>>
hosts == <<file, hook, fdb>>
vars == <<loc, mac, used, file, hook, fdb, pc, left, macs, missing, clean,
          current, budget>>

NoEntries == [a \in Addresses |-> {}]

\* VMs exist, on any node; no overlay yet.
Init ==
    /\ loc \in [Vms -> Nodes]
    /\ mac \in [Vms -> Macs] /\ \A v, w \in Vms : mac[v] = mac[w] => v = w
    /\ used = {mac[v] : v \in Vms}
    /\ file = [n \in Nodes |-> {}] /\ hook = {}
    /\ fdb = [n \in Nodes |-> NoEntries]
    /\ pc = "idle" /\ left = {} /\ macs = [n \in Nodes |-> {}]
    /\ missing = [n \in Nodes |-> {}]
    /\ clean = FALSE /\ current = FALSE
    /\ budget = Limit

Met == {k \in Disturbances : budget[k] < Limit[k]}

Spend(kind) == /\ budget[kind] > 0 /\ Cardinality(Met \cup {kind}) <= MaxKinds
               /\ budget' = [budget EXCEPT ![kind] = @ - 1]

-----------------------------------------------------------------------------
(* The kernel and the VMs (external). *)

\* The peers that lines give for address a.
Peers(lines, a) == {p \in Nodes : <<a, p>> \in lines}

\* `bridge fdb append' of every line, in the order of the file, on table t.
Appended(t, lines) ==
    [a \in Addresses |->
        CASE a = Vrrp -> t[a]
          [] a = Broadcast -> t[a] \cup Peers(lines, a)
          [] a \in Macs ->
                IF t[a] = {}
                THEN {p \in Peers(lines, a) : \A q \in Peers(lines, a) : p <= q}
                ELSE t[a]]

\* The device of node n comes up: an empty table, then the hook.
Replayed(n) == IF n \in hook THEN Appended(NoEntries, file[n]) ELSE NoEntries

Changed == clean' = FALSE /\ current' = FALSE

\* A VM is created anew: PVE assigns it another MAC.
Recreate(v) ==
    /\ Spend("recreate")
    /\ \E n \in Nodes, m \in Macs \ used :
          /\ loc' = [loc EXCEPT ![v] = n]
          /\ mac' = [mac EXCEPT ![v] = m]
          /\ used' = used \cup {m}
    /\ Changed
    /\ UNCHANGED <<hosts, pc, left, macs, missing>>

Migrate(v) ==
    /\ Spend("migrate")
    /\ \E n \in Nodes \ {loc[v]} : loc' = [loc EXCEPT ![v] = n]
    /\ Changed
    /\ UNCHANGED <<mac, used, hosts, pc, left, macs, missing>>

NodeReboots(n) ==
    /\ Spend("ifup")
    /\ fdb' = [fdb EXCEPT ![n] = Replayed(n)]
    /\ UNCHANGED <<vms, file, hook, pc, left, macs, missing, clean, current>>

SdnCommit ==
    /\ Spend("ifup")
    /\ fdb' = [n \in Nodes |-> Replayed(n)]
    /\ UNCHANGED <<vms, file, hook, pc, left, macs, missing, clean, current>>

-----------------------------------------------------------------------------
(* _post_create_sdn: apply_sdn, then ensure_sdn_fdb. *)

\* A real run only: on a preview both calls return at once.
StartCallback ==
    /\ pc = "idle"
    /\ pc' = "reload" /\ clean' = TRUE
    /\ UNCHANGED <<vms, hosts, left, macs, missing, current, budget>>

\* The command installs the same entries, without the apply before them.
StartCommand ==
    /\ pc = "idle"
    /\ Spend("command")
    /\ pc' = "discover" /\ left' = Nodes /\ clean' = TRUE
    /\ UNCHANGED <<vms, hosts, macs, missing, current>>

\* Mutant of Reload: the cluster-wide apply is left out.
ReloadSkipped ==
    /\ pc = "reload"
    /\ pc' = "discover" /\ left' = Nodes
    /\ UNCHANGED <<vms, hosts, macs, missing, clean, current, budget>>

\* PUT /cluster/sdn and its task: every node reloads its interfaces.
Reload ==
    /\ pc = "reload"
    /\ fdb' = [n \in Nodes |-> Replayed(n)]
    /\ pc' = "discover" /\ left' = Nodes
    /\ UNCHANGED <<vms, file, hook, macs, missing, clean, current, budget>>

\* apply_sdn raises, or gives up on a task that still runs: the callback ends.
ReloadFails ==
    /\ pc = "reload"
    /\ Spend("fault")
    /\ fdb' \in {fdb, [n \in Nodes |-> Replayed(n)]}
    /\ pc' = "idle" /\ Changed
    /\ UNCHANGED <<vms, file, hook, left, macs, missing>>

\* No ticket, or no password file: "durable overlay apply skipped".
EnsureSkipped ==
    /\ pc \in {"discover", "install"}
    /\ Spend("fault")
    /\ pc' = "idle" /\ Changed
    /\ UNCHANGED <<vms, hosts, left, macs, missing>>

IsNext(n) == n \in left /\ \A m \in left : n <= m

\* Visit the next node; after the last one the installs begin.
Discovered(n, found) ==
    /\ pc = "discover" /\ IsNext(n)
    /\ macs' = [macs EXCEPT ![n] = found]
    /\ IF left = {n} THEN pc' = "install" /\ left' = Nodes
       ELSE left' = left \ {n} /\ UNCHANGED pc
    /\ UNCHANGED <<vms, hosts, missing>>

MacsOn(n) == {mac[v] : v \in {w \in Vms : loc[w] = n}}

\* _discover_sdn_macs of node n.
Discover(n) ==
    /\ Discovered(n, MacsOn(n))
    /\ UNCHANGED <<clean, current, budget>>

\* The VM list fails: no MACs for the node.
ListFails(n) ==
    /\ Discovered(n, {})
    /\ Spend("fault") /\ Changed

\* Mutant of ConfigFails: the empty MAC it answers is kept.
ConfigFailsKept(n) ==
    /\ \E m \in MacsOn(n) : Discovered(n, (MacsOn(n) \ {m}) \cup {MaxMac + 2})
    /\ Spend("fault") /\ Changed

\* One VM config cannot be read: its MAC is left out.
ConfigFails(n) ==
    /\ \E m \in MacsOn(n) : Discovered(n, MacsOn(n) \ {m})
    /\ Spend("fault") /\ Changed

\* _fdb_lines_for: every remote MAC and the two well-known ones, per peer.
LinesFor(n) ==
    {l \in Addresses \X (Nodes \ {n}) : l[1] \in macs[l[2]] \cup {Vrrp, Broadcast}}

\* MACs the verification expects.
Expected(n) == UNION {macs[p] : p \in Nodes \ {n}}

\* Of these its joined shell line tests one only, the first: a MAC of the lowest
\* remote node that has any.
Tested(n) ==
    UNION {macs[p] : p \in {q \in Nodes \ {n} :
                        \A r \in Nodes \ {n} : macs[r] # {} => q <= r}}

ReportMissing(n) ==
    IF Expected(n) = {}
    THEN missing' = [missing EXCEPT ![n] = {}]
    ELSE \E m \in Tested(n) :
            missing' = [missing EXCEPT ![n] = IF fdb'[n][m] = {} THEN {m} ELSE {}]

Installed(n) ==
    /\ pc = "install" /\ IsNext(n)
    /\ left' = left \ {n}
    /\ UNCHANGED <<vms, pc, macs>>

\* Mutant of Install: the data file is on the replicated /etc/pve.
InstallReplicated(n) ==
    /\ Installed(n)
    /\ file' = [m \in Nodes |-> LinesFor(n)]
    /\ hook' = hook \cup {n}
    /\ fdb' = [fdb EXCEPT ![n] = Appended(@, LinesFor(n))]
    /\ ReportMissing(n)
    /\ UNCHANGED <<clean, current, budget>>

\* _install_node: file, hook, fire, verify.
Install(n) ==
    /\ Installed(n)
    /\ file' = [file EXCEPT ![n] = LinesFor(n)]
    /\ hook' = hook \cup {n}
    /\ fdb' = [fdb EXCEPT ![n] = Appended(@, LinesFor(n))]
    /\ ReportMissing(n)
    /\ UNCHANGED <<clean, current, budget>>

\* The device is down: the hook is installed and fired without effect.
InstallDown(n) ==
    /\ Installed(n)
    /\ Spend("down") /\ Changed
    /\ file' = [file EXCEPT ![n] = LinesFor(n)]
    /\ hook' = hook \cup {n}
    /\ UNCHANGED fdb
    /\ ReportMissing(n)

\* The SSH command fails before the first move, between the two, or after them:
\* the failure is logged, and the verification is tried all the same, in a command
\* of its own that may fail too and then reports nothing.
InstallFails(n) ==
    /\ Installed(n)
    /\ Spend("fault") /\ Changed
    /\ \/ UNCHANGED <<file, hook>>
       \/ file' = [file EXCEPT ![n] = LinesFor(n)] /\ hook' \in {hook, hook \cup {n}}
    /\ UNCHANGED fdb
    /\ ReportMissing(n) \/ missing' = [missing EXCEPT ![n] = {}]

CallbackEnds ==
    /\ pc = "install" /\ left = {}
    /\ pc' = "idle" /\ current' = clean
    /\ UNCHANGED <<vms, hosts, left, macs, missing, clean, budget>>

Callback == \/ Reload \/ ReloadFails \/ EnsureSkipped
            \/ \E n \in Nodes : \/ Discover(n) \/ ListFails(n) \/ ConfigFails(n)
                                \/ Install(n) \/ InstallDown(n) \/ InstallFails(n)
            \/ CallbackEnds

Outside == \/ \E v \in Vms : Recreate(v) \/ Migrate(v)
           \/ \E n \in Nodes : NodeReboots(n)
           \/ SdnCommit

Next == StartCallback \/ StartCommand \/ Callback \/ Outside

Spec == Init /\ [][Next]_vars

\* The operator repeats the `up', and a callback that runs comes to its end.
FairSpec == Spec /\ WF_vars(StartCallback) /\ WF_vars(Callback)

-----------------------------------------------------------------------------
(* Properties. *)

\* Every variable has its type.
TypeOK ==
    /\ loc \in [Vms -> Nodes] /\ mac \in [Vms -> Macs] /\ used \in SUBSET Macs
    /\ file \in [Nodes -> SUBSET (Addresses \X Nodes)]
    /\ hook \in SUBSET Nodes
    /\ fdb \in [Nodes -> [Addresses -> SUBSET Nodes]]
    /\ pc \in {"idle", "reload", "discover", "install"} /\ left \in SUBSET Nodes
    /\ macs \in [Nodes -> SUBSET Macs] /\ missing \in [Nodes -> SUBSET Macs]
    /\ clean \in BOOLEAN /\ current \in BOOLEAN
    /\ budget \in [Disturbances -> Nat]

\* Node n sends the frames of every remote VM, and its broadcasts, where they
\* belong.
Connected(n) ==
    /\ \A v \in Vms : loc[v] # n => fdb[n][mac[v]] = {loc[v]}
    /\ Nodes \ {n} \subseteq fdb[n][Broadcast]

\* "so the overlay self-heals": once a build went through, every node reaches
\* every VM, also after any reboot, SDN commit or further build, until a VM
\* changes or a build fails, in an estate where no VM was ever migrated.
Durable ==
    current /\ budget["migrate"] = Limit["migrate"] =>
        \A n \in Nodes : Connected(n)

\* Builds repeated after failures, new VMs and migrations end in a connected
\* overlay.
Heals == <>[](\A n \in Nodes : Connected(n))
=============================================================================
