----------------------------- MODULE Placement -----------------------------
(***************************************************************************)
(* Cluster-wide best-fit placement of VMs on PVE hosts, as decided by      *)
(* infra/pulumi/modules/placement.py and applied by                        *)
(* infra/pulumi/__main__.py on every `pulumi up` or `pulumi preview`.      *)
(*                                                                         *)
(* A build reads the placement record and the live headroom of every       *)
(* candidate node, plans one VM at a time, saves the record and then lets  *)
(* Pulumi create, replace and delete VMs.  VM keys and node names are      *)
(* natural numbers, so that the sorting the planner does is the order <.   *)
(* `where' is the estate as Pulumi's state and PVE hold it.                *)
(***************************************************************************)
EXTENDS Integers

CONSTANTS
    Vms,             \* keys of build_vm_specs
    Hosts,           \* every PVE host an override can name
    Nodes,           \* deployment:nodeNames, the planner's candidates
    None,            \* absence of a node
    Ram, Disk,       \* footprint of a VM (vm_footprint_bytes)
    RamOf, DiskOf,   \* what an empty host reports as available
    MaxEdits,        \* bound on operator edits of the stack configuration
    MayUnpin,        \* whether the operator removes placementOverrides
    MayLoseRecord    \* whether the record file may disappear

ASSUME ConstantsAssumption ==
    /\ Vms \subseteq Nat
    /\ Hosts \subseteq Nat
    /\ Nodes \subseteq Hosts
    /\ Nodes # {}
    /\ None \notin Hosts
    /\ Ram \in [Vms -> Nat]
    /\ Disk \in [Vms -> Nat]
    /\ RamOf \in [Hosts -> Nat]
    /\ DiskOf \in [Hosts -> Nat]
    /\ MaxEdits \in Nat
    /\ MayUnpin \in BOOLEAN
    /\ MayLoseRecord \in BOOLEAN

VARIABLES
    \* The repository checkout: record file, its readability, stack config.
    record,          \* .placement.json: VM -> node or None
    recordOk,        \* FALSE while the file is truncated
    overrides,       \* placementOverrides: VM -> host or None
    selected,        \* the deployment set
    edits,           \* configuration edits so far, at most MaxEdits
    \* The PVE cluster.
    online,          \* hosts that answer the API
    where,           \* host of each existing VM, or None
    warm,            \* VMs that have touched all of their memory and disk
    liveRam,         \* memory.available of each host
    liveDisk,        \* avail of each host's VM pools
    \* The build in progress.
    pc,              \* "idle", "plan", "save", "write" or "apply"
    dry,             \* pulumi.runtime.is_dry_run()
    capRam, capDisk, \* capacities: the headroom read when the build began
    occRam, occDisk, \* occupied_ram, occupied_disk
    placements,      \* the record in memory
    todo,            \* requests not planned yet
    fresh,           \* requests with neither override nor record entry
    choices,         \* planned host of each VM, or None
    outcome          \* how the last build ended

config == <<overrides, selected, edits>>
file   == <<record, recordOk>>
pve    == <<where, warm, liveRam, liveDisk>>
caps   == <<capRam, capDisk>>
plan   == <<capRam, capDisk, occRam, occDisk, placements, todo, fresh, choices>>
vars   == <<record, recordOk, overrides, selected, edits, online, where, warm,
            liveRam, liveDisk, pc, dry, capRam, capDisk, occRam, occDisk,
            placements, todo, fresh, choices, outcome>>

NodeOrNone == Nodes \cup {None}
HostOrNone == Hosts \cup {None}
NoPlacement == [v \in Vms |-> None]
Zero == [n \in Nodes |-> 0]

Init ==
    /\ record = NoPlacement /\ recordOk = TRUE
    /\ overrides = NoPlacement /\ edits = 0
    /\ selected = Vms
    /\ online = Hosts
    /\ where = NoPlacement /\ warm = {}
    /\ liveRam = RamOf /\ liveDisk = DiskOf
    /\ pc = "idle" /\ dry = FALSE
    /\ capRam = Zero /\ capDisk = Zero
    /\ occRam = Zero /\ occDisk = Zero
    /\ placements = NoPlacement /\ todo = {} /\ fresh = {}
    /\ choices = NoPlacement
    /\ outcome = "none"

-----------------------------------------------------------------------------
(* The operator and the cluster around the build. *)

\* The operator pins VM v to host h, or (MayUnpin) drops its pin, between builds.
EditOverride(v) ==
    /\ pc = "idle" /\ edits < MaxEdits
    /\ \E h \in HostOrNone :
          /\ h # overrides[v]
          /\ h = None => MayUnpin
          /\ overrides' = [overrides EXCEPT ![v] = h]
    /\ edits' = edits + 1
    /\ UNCHANGED <<file, selected, online, pve, pc, dry, plan, outcome>>

\* selectedVmKeys or phaseLimit changes; an empty deployment set is refused.
EditSelection ==
    /\ pc = "idle" /\ edits < MaxEdits
    /\ \E s \in (SUBSET Vms) \ {{}, selected} : selected' = s
    /\ edits' = edits + 1
    /\ UNCHANGED <<file, overrides, online, pve, pc, dry, plan, outcome>>

\* An unreadable record is mended by hand: "fix or delete it before running".
FixRecord ==
    /\ pc = "idle" /\ ~recordOk
    /\ recordOk' = TRUE
    /\ UNCHANGED <<record, config, online, pve, pc, dry, plan, outcome>>

\* The record file is gone: deleted after a torn write, or never present in a
\* new checkout, because .gitignore excludes it.
LoseRecord ==
    /\ MayLoseRecord
    /\ pc = "idle"
    /\ record' = NoPlacement /\ recordOk' = TRUE
    /\ UNCHANGED <<config, online, pve, pc, dry, plan, outcome>>

\* A host stops or resumes answering the PVE API.
HostFlips(h) ==
    /\ online' = IF h \in online THEN online \ {h} ELSE online \cup {h}
    /\ UNCHANGED <<file, config, pve, pc, dry, plan, outcome>>

\* A VM has used all of its memory and disk: only now does its whole footprint
\* show in the host's live headroom.
WarmUp(v) ==
    /\ where[v] # None /\ v \notin warm
    /\ Ram[v] <= liveRam[where[v]] /\ Disk[v] <= liveDisk[where[v]]
    /\ warm' = warm \cup {v}
    /\ liveRam' = [liveRam EXCEPT ![where[v]] = @ - Ram[v]]
    /\ liveDisk' = [liveDisk EXCEPT ![where[v]] = @ - Disk[v]]
    /\ UNCHANGED <<file, config, online, where, pc, dry, plan, outcome>>

-----------------------------------------------------------------------------
(* plan_placement: load, capacities, ordering. *)

\* The build starts: the record loads, every candidate answers, and the
\* requests are split in known and fresh ones.
StartBuild ==
    /\ pc = "idle"
    /\ recordOk
    /\ Nodes \subseteq online
    /\ pc' = "plan"
    /\ dry' \in BOOLEAN
    /\ capRam' = [n \in Nodes |-> liveRam[n]]
    /\ capDisk' = [n \in Nodes |-> liveDisk[n]]
    /\ occRam' = Zero /\ occDisk' = Zero
    /\ placements' = record
    /\ todo' = selected
    /\ fresh' = {v \in selected : overrides[v] = None /\ record[v] = None}
    /\ choices' = NoPlacement
    /\ outcome' = "none"
    /\ UNCHANGED <<file, config, online, pve>>

\* PlacementRecord.load raises on a file that is not a JSON object.
StartUnreadable ==
    /\ pc = "idle"
    /\ ~recordOk
    /\ outcome' = "unreadable"
    /\ UNCHANGED <<file, config, online, pve, pc, dry, plan>>

\* node_capacity raises as soon as one candidate does not answer.
StartUnreachable ==
    /\ pc = "idle"
    /\ recordOk
    /\ ~ (Nodes \subseteq online)
    /\ outcome' = "unreachable"
    /\ UNCHANGED <<file, config, online, pve, pc, dry, plan>>

-----------------------------------------------------------------------------
(* _plan: one request per step, known ones first, then by key. *)

IsKnown(v) == overrides[v] # None \/ placements[v] # None

\* Mutant of IsNext: requests in key order, known and fresh mixed.
IsNextByKey(v) == v \in todo /\ \A w \in todo : v <= w

\* sorted(known) + sorted(fresh): the next request of the loop.
IsNext(v) ==
    /\ v \in todo
    /\ \A w \in todo : \/ IsKnown(v) /\ ~IsKnown(w)
                       \/ (IsKnown(v) <=> IsKnown(w)) /\ v <= w

FreeRam(n) == capRam[n] - occRam[n]
FreeDisk(n) == capDisk[n] - occDisk[n]

\* Feasibility of a candidate node for a fresh request.
Feasible(n, v) == Ram[v] <= FreeRam(n) /\ Disk[v] <= FreeDisk(n)

\* Mutant of Better: the free-RAM comparison is dropped from the sort key.
BetterIgnoresRam(n, m) ==
    \/ FreeDisk(n) > FreeDisk(m)
    \/ FreeDisk(n) = FreeDisk(m) /\ n <= m

\* min(candidates, key = (-free_ram, -free_disk, name)).
Better(n, m) ==
    \/ FreeRam(n) > FreeRam(m)
    \/ FreeRam(n) = FreeRam(m) /\ FreeDisk(n) > FreeDisk(m)
    \/ FreeRam(n) = FreeRam(m) /\ FreeDisk(n) = FreeDisk(m) /\ n <= m

BestFit(n, v) ==
    /\ Feasible(n, v)
    /\ \A m \in Nodes : Feasible(m, v) => Better(n, m)

\* The footprint of v is charged to n when n is a candidate node.
Occupy(n, v) ==
    IF n \in Nodes
    THEN /\ occRam' = [occRam EXCEPT ![n] = @ + Ram[v]]
         /\ occDisk' = [occDisk EXCEPT ![n] = @ + Disk[v]]
    ELSE UNCHANGED <<occRam, occDisk>>

Choose(n, v) ==
    /\ choices' = [choices EXCEPT ![v] = n]
    /\ todo' = todo \ {v}
    /\ Occupy(n, v)
    /\ UNCHANGED <<file, config, online, pve, pc, dry, caps, fresh, outcome>>

\* Mutant of PlanOverride: the pin is recorded like a fresh pick.
PlanOverrideRecorded(v) ==
    /\ pc = "plan" /\ IsNext(v)
    /\ overrides[v] # None
    /\ Choose(overrides[v], v)
    /\ placements' = [placements EXCEPT ![v] = overrides[v]]

\* An override beats the record, and is not written to it.
PlanOverride(v) ==
    /\ pc = "plan" /\ IsNext(v)
    /\ overrides[v] # None
    /\ Choose(overrides[v], v)
    /\ UNCHANGED placements

\* Mutant of PlanRecorded: the entry is honoured only while its node has room.
PlanRecordedIfFits(v) ==
    /\ pc = "plan" /\ IsNext(v)
    /\ overrides[v] = None /\ placements[v] # None
    /\ \E n \in Nodes :
          /\ IF Feasible(placements[v], v) THEN n = placements[v] ELSE BestFit(n, v)
          /\ Choose(n, v)
    /\ UNCHANGED placements

\* A record entry beats best fit, whatever the headroom of its node.
PlanRecorded(v) ==
    /\ pc = "plan" /\ IsNext(v)
    /\ overrides[v] = None /\ placements[v] # None
    /\ Choose(placements[v], v)
    /\ UNCHANGED placements

\* A new VM goes to the feasible node with the most headroom left.
PlanFresh(v) ==
    /\ pc = "plan" /\ IsNext(v)
    /\ ~IsKnown(v)
    /\ \E n \in Nodes :
          /\ BestFit(n, v)
          /\ Choose(n, v)
          /\ placements' = [placements EXCEPT ![v] = n]

\* "no feasible node": the exception ends the program before the save.
PlanRefused(v) ==
    /\ pc = "plan" /\ IsNext(v)
    /\ ~IsKnown(v)
    /\ \A n \in Nodes : ~Feasible(n, v)
    /\ pc' = "idle"
    /\ outcome' = "refused"
    /\ UNCHANGED <<file, config, online, pve, dry, plan>>

\* The loop is done: a real run that placed new VMs saves, a preview never does.
PlanDone ==
    /\ pc = "plan" /\ todo = {}
    /\ pc' = IF ~dry /\ fresh # {} THEN "save" ELSE "apply"
    /\ UNCHANGED <<file, config, online, pve, dry, plan, outcome>>

\* Path.write_text truncates the file ...
SaveTruncate ==
    /\ pc = "save"
    /\ recordOk' = FALSE
    /\ pc' = "write"
    /\ UNCHANGED <<record, config, online, pve, dry, plan, outcome>>

\* Mutant of SaveWrite: the file is rewritten with what was loaded from it.
SaveWriteStale ==
    /\ pc = "write"
    /\ record' = record
    /\ recordOk' = TRUE
    /\ pc' = "apply"
    /\ UNCHANGED <<config, online, pve, dry, plan, outcome>>

\* ... and then writes the whole record.
SaveWrite ==
    /\ pc = "write"
    /\ record' = placements
    /\ recordOk' = TRUE
    /\ pc' = "apply"
    /\ UNCHANGED <<config, online, pve, dry, plan, outcome>>

-----------------------------------------------------------------------------
(* What Pulumi does with the planned nodes (external). *)

\* create_vm on the planned node.
CreateVm(v) ==
    /\ pc = "apply" /\ ~dry
    /\ v \in selected /\ where[v] = None
    /\ choices[v] \in online
    /\ where' = [where EXCEPT ![v] = choices[v]]
    /\ UNCHANGED <<file, config, online, warm, liveRam, liveDisk, pc, dry, plan,
                   outcome>>

\* node_name is a force-new input: a VM planned elsewhere is destroyed to be
\* replaced, and one outside the deployment set is deleted after the creates.
DestroyVm(v) ==
    /\ pc = "apply" /\ ~dry
    /\ where[v] # None
    /\ \/ v \in selected /\ where[v] # choices[v]
       \/ v \notin selected /\ \A w \in selected : where[w] = choices[w]
    /\ where' = [where EXCEPT ![v] = None]
    /\ warm' = warm \ {v}
    /\ IF v \in warm
       THEN /\ liveRam' = [liveRam EXCEPT ![where[v]] = @ + Ram[v]]
            /\ liveDisk' = [liveDisk EXCEPT ![where[v]] = @ + Disk[v]]
       ELSE UNCHANGED <<liveRam, liveDisk>>
    /\ UNCHANGED <<file, config, online, pc, dry, plan, outcome>>

\* The update is over, or the preview is shown.
FinishBuild ==
    /\ pc = "apply"
    /\ ~dry => \A v \in Vms : where[v] = IF v \in selected THEN choices[v] ELSE None
    /\ pc' = "idle"
    /\ outcome' = "done"
    /\ UNCHANGED <<file, config, online, pve, dry, plan>>

\* The build is killed or a create fails: what was done stays done.
Interrupt ==
    /\ pc # "idle"
    /\ pc' = "idle"
    /\ outcome' = "interrupted"
    /\ UNCHANGED <<file, config, online, pve, dry, plan>>

Operator == \/ \E v \in Vms : EditOverride(v)
            \/ EditSelection
            \/ FixRecord
            \/ LoseRecord

Cluster == \/ \E h \in Hosts : HostFlips(h)
           \/ \E v \in Vms : WarmUp(v)

Planner == \/ StartBuild \/ StartUnreadable \/ StartUnreachable
           \/ \E v \in Vms : \/ PlanOverride(v) \/ PlanRecorded(v)
                             \/ PlanFresh(v) \/ PlanRefused(v)
           \/ PlanDone \/ SaveTruncate \/ SaveWrite

Apply == \/ \E v \in Vms : CreateVm(v) \/ DestroyVm(v)
         \/ FinishBuild \/ Interrupt

Next == Operator \/ Cluster \/ Planner \/ Apply

Spec == Init /\ [][Next]_vars

-----------------------------------------------------------------------------
(* Properties. *)

\* Every variable has its type.
TypeOK ==
    /\ record \in [Vms -> NodeOrNone] /\ recordOk \in BOOLEAN
    /\ overrides \in [Vms -> HostOrNone]
    /\ selected \in SUBSET Vms /\ edits \in 0 .. MaxEdits
    /\ online \in SUBSET Hosts
    /\ where \in [Vms -> HostOrNone] /\ warm \in SUBSET Vms
    /\ liveRam \in [Hosts -> Nat] /\ liveDisk \in [Hosts -> Nat]
    /\ pc \in {"idle", "plan", "save", "write", "apply"} /\ dry \in BOOLEAN
    /\ capRam \in [Nodes -> Nat] /\ capDisk \in [Nodes -> Nat]
    /\ occRam \in [Nodes -> Nat] /\ occDisk \in [Nodes -> Nat]
    /\ placements \in [Vms -> NodeOrNone]
    /\ todo \in SUBSET Vms /\ fresh \in SUBSET Vms
    /\ choices \in [Vms -> HostOrNone]
    /\ outcome \in {"none", "unreadable", "unreachable", "refused", "done",
                    "interrupted"}

\* A node that _plan picked for a new VM can hold everything this build charges
\* to it, in RAM and in disk: the pinned and recorded VMs as well as the burst
\* of new ones.  It depends on the known requests being planned first.
FreshFits ==
    \A v \in fresh :
        choices[v] \in Nodes =>
            /\ occRam[choices[v]] <= capRam[choices[v]]
            /\ occDisk[choices[v]] <= capDisk[choices[v]]

\* v is the newest of the fresh VMs this build put on its node.
LastOnNode(v) ==
    \A w \in fresh : choices[w] = choices[v] => w <= v

\* "a burst of new VMs spreads across nodes instead of piling onto one": no node
\* is left with more free RAM than the node of a new VM had when that VM, the
\* last one placed there, arrived; unless it lacks the disk for that VM.
Balanced ==
    \A v \in fresh :
        choices[v] \in Nodes /\ LastOnNode(v) =>
            \A m \in Nodes :
                \/ FreeRam(m) <= FreeRam(choices[v]) + Ram[v]
                \/ FreeDisk(m) < Disk[v]

\* The record is what makes a rebuild stable: a VM that exists and has no
\* override is recorded on the very node it runs on, through interrupted builds,
\* failed plans and previews.
RecordedWhereItIs ==
    \A v \in Vms :
        where[v] # None /\ overrides[v] = None => record[v] = where[v]

\* No build destroys a VM of its deployment set unless an override sends it to
\* another node ("Pulumi never re-selects (and therefore never
\* destroy/re-creates) an existing VM").
StaysPut ==
    [][\A v \in selected :
          where[v] # None /\ where'[v] = None =>
              overrides[v] # None /\ overrides[v] # where[v]]_vars

\* The estate as VmHome has it: the record is what gives a VM its home.
Homes == INSTANCE VmHome WITH home <- record, pins <- overrides, wanted <- selected

\* The planner, the record file and Pulumi together keep the promise of VmHome:
\* a home is assigned once, before the VM exists, survives torn saves, previews,
\* refused and killed builds, and no VM is created or removed against it.
KeepsHomes == Homes!Spec
=============================================================================
