----------------------------- MODULE PveCleanup -----------------------------
(***************************************************************************)
(* The sweep of orphan storage volumes (infra/pulumi/modules/              *)
(* pve_cleanup.py): as the preflight of every `pulumi up' and as the       *)
(* command `python3 -m modules.pve_cleanup --apply', beside the VM         *)
(* creations it exists to unblock.                                         *)
(*                                                                         *)
(* A `qmcreate' task allocates the cloud-init volume first, imports the    *)
(* disk and then writes the VM's config; one that dies half-way leaves     *)
(* volumes that no VM owns, and the cloud-init volume blocks every later   *)
(* creation of that VMID on the node.  PVE is external and follows what    *)
(* the module says of it.                                                  *)
(***************************************************************************)
EXTENDS Naturals, FiniteSets

CONSTANTS
    Nodes,        \* node_names, in configured order
    Vmids,        \* VMIDs of the stack
    None,         \* absence of a node
    Stores,       \* datastore_ids of the preflight
    CliStores,    \* datastore_ids of the command
    Holds,        \* the volume kinds each datastore may hold
    Selections,   \* deployment sets the operator may ask for
    ApiDeletes,   \* nodes whose PVE implements content DELETE; 9.2 answers 501
    Fallback,     \* a fallback password file is configured
    Limit         \* how many disturbances of each kind there are

VolumeKinds == {"ci", "disk", "backup"}

\* A request that fails; a delete task that outlasts the poll window; a qmcreate
\* that dies; a killed `up'; pexpect missing; password file unreadable; a run of
\* the command; a backup taken into a swept datastore.
Disturbances == {"fault", "slow", "crash", "kill", "nopexpect", "nopassword",
                 "cli", "backup"}

ASSUME ConstantsAssumption ==
    /\ Nodes \subseteq Nat /\ IsFiniteSet(Nodes) /\ Nodes # {}
    /\ None \notin Nodes
    /\ CliStores \subseteq Stores
    /\ Holds \in [Stores -> SUBSET VolumeKinds]
    /\ Selections \subseteq SUBSET Vmids
    /\ ApiDeletes \subseteq Nodes /\ Fallback \in BOOLEAN
    /\ Limit \in [Disturbances -> Nat]

Volumes == Nodes \X VolumeKinds \X Vmids
Procs == {"up", "cli"}

VARIABLES
    vm,        \* VMID -> [node, on]: the VM configs PVE lists, node None if none
    qm,        \* VMID -> [node, disk, own]: qmcreate in flight, whether its disk
               \* is imported, and whether the running `up' waits for it
    vols,      \* volumes in the datastores
    deletes,   \* delete tasks that PVE has accepted and not run yet
    want,      \* the deployment set of the last `up'
    sweep,     \* the sweep of each process
    budget     \* disturbances still to come

vars == <<vm, qm, vols, deletes, want, sweep, budget>>
pve == <<vm, qm, vols, deletes>>

SweepState ==
    [pc       : {"idle", "auth", "vms", "content", "api", "ssh", "report",
                 "apply", "failing"},
     nodes    : SUBSET Nodes,      \* still to scan
     existing : SUBSET Vmids,      \* VMIDs listed on the node
     stores   : SUBSET Stores,     \* still to read on the node
     orphans  : SUBSET Volumes,    \* found on the node
     todo     : SUBSET Volumes,    \* still to delete
     errors   : SUBSET Volumes]    \* with a non-empty entry in api_errors

NoQm == [node |-> None, disk |-> FALSE, own |-> FALSE]

Init ==
    /\ vm = [v \in Vmids |-> [node |-> None, on |-> FALSE]]
    /\ qm = [v \in Vmids |-> NoQm]
    /\ vols = {} /\ deletes = {} /\ want = {}
    /\ sweep = [p \in Procs |->
                  [pc |-> "idle", nodes |-> {}, existing |-> {}, stores |-> {},
                   orphans |-> {}, todo |-> {}, errors |-> {}]]
    /\ budget = Limit

Spend(kind) == /\ budget[kind] > 0
               /\ budget' = [budget EXCEPT ![kind] = @ - 1]

-----------------------------------------------------------------------------
(* The sweep of process p. *)

At(p, pc) == sweep[p].pc = pc
Go(p, new) == sweep' = [sweep EXCEPT ![p] = new]

Current(p) == CHOOSE n \in sweep[p].nodes : \A m \in sweep[p].nodes : n <= m

\* clean_orphans returns or raises: the `up' goes on to its resources either way.
Left(p) == [sweep[p] EXCEPT !.pc = IF p = "up" THEN "apply" ELSE "idle"]

StartUp ==
    /\ At("up", "idle")
    /\ want' \in Selections
    /\ Go("up", [sweep["up"] EXCEPT !.pc = "auth"])
    /\ UNCHANGED <<pve, budget>>

StartCli ==
    /\ At("cli", "idle")
    /\ Spend("cli")
    /\ Go("cli", [sweep["cli"] EXCEPT !.pc = "auth"])
    /\ UNCHANGED <<pve, want>>

\* A ticket with the provider's credentials, or with the fallback password.
Auth(p) ==
    /\ At(p, "auth")
    /\ \/ /\ Go(p, [sweep[p] EXCEPT !.pc = "vms", !.nodes = Nodes])
          /\ UNCHANGED budget
       \/ Spend("fault") /\ Go(p, Left(p))
    /\ UNCHANGED <<pve, want>>

\* node_vmids of the next node.
ListVms(p) ==
    /\ At(p, "vms")
    /\ Go(p, [sweep[p] EXCEPT
                !.pc = "content",
                !.existing = {v \in Vmids : vm[v].node = Current(p)},
                !.stores = IF p = "up" THEN Stores ELSE CliStores,
                !.orphans = {}, !.errors = {}])
    /\ UNCHANGED <<pve, want, budget>>

\* A failed VM list raises, and no further node is swept.
ListVmsFails(p) ==
    /\ At(p, "vms")
    /\ Spend("fault")
    /\ Go(p, Left(p))
    /\ UNCHANGED <<pve, want>>

\* Mutant of Unlisted: the owner of a volume is not looked up.
UnlistedAny(p, d) ==
    {o \in vols : o[1] = Current(p) /\ o[2] \in Holds[d]}

\* Mutant of Unlisted: the key of an orphan lacks its node.
UnlistedNoNode(p, d) ==
    {<<o[2], o[3]>> : o \in {x \in vols : /\ x[1] = Current(p) /\ x[2] \in Holds[d]
                                         /\ x[3] \notin sweep[p].existing}}

\* Content of datastore d whose VMID the node's VM list lacks.
Unlisted(p, d) ==
    {o \in vols : /\ o[1] = Current(p) /\ o[2] \in Holds[d]
                  /\ o[3] \notin sweep[p].existing}

\* node_content of one datastore; a failed list skips the datastore.
ReadContent(p) ==
    /\ At(p, "content")
    /\ \E d \in sweep[p].stores, ok \in BOOLEAN :
          /\ IF ok THEN UNCHANGED budget ELSE Spend("fault")
          /\ Go(p, [sweep[p] EXCEPT
                      !.stores = @ \ {d},
                      !.orphans = IF ok THEN @ \cup Unlisted(p, d) ELSE @])
    /\ UNCHANGED <<pve, want>>

\* All datastores read: delete what was found.
ContentDone(p) ==
    /\ At(p, "content") /\ sweep[p].stores = {}
    /\ Go(p, [sweep[p] EXCEPT
                !.pc = IF sweep[p].orphans = {} THEN "report" ELSE "api",
                !.todo = sweep[p].orphans])
    /\ UNCHANGED <<pve, want, budget>>

\* PVE frees a volume unless it is missing or its VM is running.
InUse(o) == vm[o[3]].node = o[1] /\ vm[o[3]].on /\ o[2] # "backup"
Freeable(o) == o \in vols /\ ~InUse(o)

Handled(p, o, failed) ==
    [sweep[p] EXCEPT !.todo = @ \ {o},
                     !.errors = IF failed THEN @ \cup {o} ELSE @ \ {o}]

\* Mutant of ApiSlow: a task that outlasts the polls counts as done.
ApiSlowIsDone(p, o) ==
    /\ o[1] \in ApiDeletes /\ Spend("slow")
    /\ deletes' = deletes \cup {o}
    /\ Go(p, Handled(p, o, FALSE))
    /\ UNCHANGED vols

\* The task still runs after 60 polls: an error for now, and PVE goes on with it.
ApiSlow(p, o) ==
    /\ o[1] \in ApiDeletes /\ Spend("slow")
    /\ deletes' = deletes \cup {o}
    /\ Go(p, Handled(p, o, TRUE))
    /\ UNCHANGED vols

\* The delete task stopped with OK.
ApiOk(p, o) ==
    /\ o[1] \in ApiDeletes /\ Freeable(o)
    /\ vols' = vols \ {o}
    /\ Go(p, Handled(p, o, FALSE))
    /\ UNCHANGED <<deletes, budget>>

\* 501, "Logical volume in use", no such volume, or a failed request.
ApiError(p, o) ==
    /\ IF o[1] \in ApiDeletes /\ Freeable(o) THEN Spend("fault")
                                            ELSE UNCHANGED budget
    /\ Go(p, Handled(p, o, TRUE))
    /\ UNCHANGED <<vols, deletes>>

\* delete_content of one orphan.
DeleteContent(p) ==
    /\ At(p, "api")
    /\ \E o \in sweep[p].todo : ApiOk(p, o) \/ ApiError(p, o) \/ ApiSlow(p, o)
    /\ UNCHANGED <<vm, qm, want>>

\* Mutant of ApiDone: the host fallback is never tried.
ApiDoneNoFallback(p) ==
    /\ At(p, "api") /\ sweep[p].todo = {}
    /\ Go(p, [sweep[p] EXCEPT !.pc = "report"])
    /\ UNCHANGED <<pve, want, budget>>

\* What failed goes to the host fallback, when there is one.
ApiDone(p) ==
    /\ At(p, "api") /\ sweep[p].todo = {}
    /\ Go(p, IF sweep[p].errors # {} /\ Fallback
             THEN [sweep[p] EXCEPT !.pc = "ssh", !.todo = sweep[p].errors]
             ELSE [sweep[p] EXCEPT !.pc = "report"])
    /\ UNCHANGED <<pve, want, budget>>

\* pvesm free over SSH: freed; refused; or timed out, with or without effect.
SshFree(p) ==
    /\ At(p, "ssh")
    /\ \E o \in sweep[p].todo :
          \/ /\ Freeable(o) /\ vols' = vols \ {o}
             /\ Go(p, Handled(p, o, FALSE)) /\ UNCHANGED budget
          \/ /\ ~Freeable(o) /\ UNCHANGED vols
             /\ Go(p, Handled(p, o, TRUE)) /\ UNCHANGED budget
          \/ /\ Freeable(o) /\ vols' \in {vols, vols \ {o}}
             /\ Go(p, Handled(p, o, TRUE)) /\ Spend("fault")
    /\ UNCHANGED <<vm, qm, deletes, want>>

\* ImportError ends the fallback, the API errors stand.
SshUnavailable(p) ==
    /\ At(p, "ssh") /\ sweep[p].todo # {}
    /\ Spend("nopexpect")
    /\ Go(p, [sweep[p] EXCEPT !.todo = {}])
    /\ UNCHANGED <<pve, want>>

\* An unreadable password file raises through clean_orphans.
SshNoPassword(p) ==
    /\ At(p, "ssh") /\ sweep[p].todo # {}
    /\ Spend("nopassword")
    /\ Go(p, Left(p))
    /\ UNCHANGED <<pve, want>>

SshDone(p) ==
    /\ At(p, "ssh") /\ sweep[p].todo = {}
    /\ Go(p, [sweep[p] EXCEPT !.pc = "report"])
    /\ UNCHANGED <<pve, want, budget>>

\* The result lines of the node, and on to the next one.
Report(p) ==
    /\ At(p, "report")
    /\ LET rest == sweep[p].nodes \ {Current(p)}
       IN  Go(p, IF rest = {} THEN [Left(p) EXCEPT !.nodes = rest]
                 ELSE [sweep[p] EXCEPT !.pc = "vms", !.nodes = rest])
    /\ UNCHANGED <<pve, want, budget>>

Sweep(p) == \/ Auth(p) \/ ListVms(p) \/ ListVmsFails(p) \/ ReadContent(p)
            \/ ContentDone(p) \/ DeleteContent(p) \/ ApiDone(p) \/ SshFree(p)
            \/ SshUnavailable(p) \/ SshNoPassword(p) \/ SshDone(p) \/ Report(p)

-----------------------------------------------------------------------------
(* The resources of the `up' and PVE (external). *)

Creating(v) == qm[v].node # None
Exists(v) == vm[v].node # None

\* qmcreate allocates the cloud-init volume, under a fixed name.  It fails when
\* that volume exists, or when a task of an earlier `up' still has the VMID.
QmAllocate(v) ==
    /\ At("up", "apply") /\ v \in want /\ ~Exists(v) /\ ~qm[v].own
    /\ \E n \in Nodes :
          IF Creating(v) \/ <<n, "ci", v>> \in vols
          THEN Go("up", [sweep["up"] EXCEPT !.pc = "failing"]) /\ UNCHANGED <<qm, vols>>
          ELSE /\ qm' = [qm EXCEPT ![v] = [node |-> n, disk |-> FALSE, own |-> TRUE]]
               /\ vols' = vols \cup {<<n, "ci", v>>}
               /\ UNCHANGED sweep
    /\ UNCHANGED <<vm, deletes, want, budget>>

QmImport(v) ==
    /\ Creating(v) /\ ~qm[v].disk
    /\ qm' = [qm EXCEPT ![v].disk = TRUE]
    /\ vols' = vols \cup {<<qm[v].node, "disk", v>>}
    /\ UNCHANGED <<vm, deletes, want, sweep, budget>>

QmConfig(v) ==
    /\ Creating(v) /\ qm[v].disk
    /\ vm' = [vm EXCEPT ![v].node = qm[v].node]
    /\ qm' = [qm EXCEPT ![v] = NoQm]
    /\ UNCHANGED <<vols, deletes, want, sweep, budget>>

\* The task dies and leaves what it allocated; the `up' that waits for it fails.
QmDies(v) ==
    /\ Creating(v) /\ Spend("crash")
    /\ qm' = [qm EXCEPT ![v] = NoQm]
    /\ IF qm[v].own /\ At("up", "apply") THEN Go("up", [sweep["up"] EXCEPT !.pc = "failing"])
       ELSE UNCHANGED sweep
    /\ UNCHANGED <<vm, vols, deletes, want>>

\* Started by the provider, shut down and started by anyone.
Power(v) ==
    /\ Exists(v)
    /\ vm' = [vm EXCEPT ![v].on = ~@]
    /\ UNCHANGED <<qm, vols, deletes, want, sweep, budget>>

\* A VM outside the deployment set goes, with its volumes and not its backups.
DestroyVm(v) ==
    /\ At("up", "apply") /\ Exists(v) /\ v \notin want
    /\ vols' = vols \ {<<vm[v].node, "ci", v>>, <<vm[v].node, "disk", v>>}
    /\ vm' = [vm EXCEPT ![v] = [node |-> None, on |-> FALSE]]
    /\ UNCHANGED <<qm, deletes, want, sweep, budget>>

Backup(v) ==
    /\ Exists(v) /\ Spend("backup")
    /\ vols' = vols \cup {<<vm[v].node, "backup", v>>}
    /\ UNCHANGED <<vm, qm, deletes, want, sweep>>

\* A delete task that outlasted the poll window.
DeleteRuns(o) ==
    /\ o \in deletes
    /\ deletes' = deletes \ {o}
    /\ vols' = IF Freeable(o) THEN vols \ {o} ELSE vols
    /\ UNCHANGED <<vm, qm, want, sweep, budget>>

\* The `up' ends when all is as asked for, or once what was under way is over.
FinishUp ==
    /\ \/ At("up", "apply") /\ \A v \in Vmids : Exists(v) <=> v \in want
       \/ At("up", "failing") /\ \A v \in Vmids : ~qm[v].own
    /\ Go("up", [sweep["up"] EXCEPT !.pc = "idle"])
    /\ UNCHANGED <<pve, want, budget>>

\* A killed `up' leaves its qmcreate tasks running.
KillUp ==
    /\ ~At("up", "idle") /\ Spend("kill")
    /\ Go("up", [sweep["up"] EXCEPT !.pc = "idle"])
    /\ qm' = [v \in Vmids |-> [qm[v] EXCEPT !.own = FALSE]]
    /\ UNCHANGED <<vm, vols, deletes, want>>

Pve == \/ \E v \in Vmids : \/ QmAllocate(v) \/ QmImport(v) \/ QmConfig(v)
                           \/ QmDies(v) \/ Power(v) \/ DestroyVm(v) \/ Backup(v)
       \/ \E o \in Volumes : DeleteRuns(o)

Next == \/ StartUp \/ StartCli \/ FinishUp \/ KillUp
        \/ \E p \in Procs : Sweep(p)
        \/ Pve

Spec == Init /\ [][Next]_vars

\* The operator repeats the `up', and requests and tasks come to an end.
Fairness ==
    /\ WF_vars(StartUp) /\ WF_vars(FinishUp)
    /\ WF_vars(Sweep("up"))
    /\ \A v \in Vmids : /\ WF_vars(QmAllocate(v)) /\ WF_vars(QmImport(v))
                        /\ WF_vars(QmConfig(v)) /\ WF_vars(DestroyVm(v))

FairSpec == Spec /\ Fairness

-----------------------------------------------------------------------------
(* Properties. *)

\* Every variable has its type.
TypeOK ==
    /\ vm \in [Vmids -> [node : Nodes \cup {None}, on : BOOLEAN]]
    /\ qm \in [Vmids -> [node : Nodes \cup {None}, disk : BOOLEAN, own : BOOLEAN]]
    /\ vols \in SUBSET Volumes /\ deletes \in SUBSET Volumes
    /\ want \in SUBSET Vmids
    /\ sweep \in [Procs -> SweepState]
    /\ budget \in [Disturbances -> Nat]

\* A volume the preflight logs as "removed" is gone from its datastore: always the
\* cloud-init volume that blocks the next creation, the others as long as no `up'
\* was ever killed (a task it left running may import that disk again).
RemovedIsGone ==
    At("up", "report") =>
        \A o \in sweep["up"].orphans \ sweep["up"].errors :
            o[2] = "ci" \/ budget["kill"] = Limit["kill"] => o \notin vols

\* "a genuine volume belonging to a live VM is never touched": a VM that PVE
\* lists has its cloud-init volume and its disk, running or not.
VmWhole ==
    \A v \in Vmids : Exists(v) =>
        {<<vm[v].node, "ci", v>>, <<vm[v].node, "disk", v>>} \subseteq vols

\* The sweep keeps `pulumi up' self-healing: whatever dies, a VM that is asked for
\* again and again is built again and again, also where PVE answers 501 to every
\* content DELETE.
Built == \A v \in Vmids : []<>(v \in want) => []<>Exists(v)
=============================================================================
