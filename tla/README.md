# TLA+ models of rke2-lab

rke2-lab builds an RKE2 Kubernetes estate on Proxmox VE (PVE) hosts: a Pulumi
program places and creates the virtual machines, Ansible playbooks turn them
into a cluster with its supporting services, Flux deploys what runs on it, and
a pytest suite verifies the result. This directory holds TLA+ models of the
parts whose behaviour over time is hard to test, the TLC runs that check them
on small instances, and TLAPS proofs for every instance.

Contents: [inventory](#1-inventory), [plan](#2-plan),
[modules](#3-modules-and-how-they-correspond-to-the-code),
[runs](#4-runs), [fairness](#5-fairness), [proofs](#6-proofs),
[disagreements](#7-disagreements-between-code-and-documentation),
[limits](#8-what-is-not-modelled).

## 1. Inventory

### Infrastructure (`infra/pulumi`)

| Component | State it keeps | Operations | Correct when |
|---|---|---|---|
| Placement planner, `modules/placement.py` | `.placement.json`; per build: capacities, occupancy, choices | read the record and the live headroom, plan each VM (pin, record, best fit), save | a new VM fits where it is put, a burst is spread, an existing VM is never moved |
| Orphan sweep, `modules/pve_cleanup.py` | none of its own; reads and deletes PVE volumes | preflight of every `up`; command `--apply`; API delete, host fallback over SSH | only volumes without a VM are deleted, a cloud-init volume reported removed is gone, dead creates do not block later builds |
| SDN overlay, `modules/sdn.py`, `modules/sdn_fdb.py` | per node: data file, ifup hook; the kernel's forwarding table | SDN reload, MAC discovery, installation and firing of the hook, verification; command `--apply` | each node reaches every remote VM, also after reboots and SDN commits |
| Program, `__main__.py`, `vm_definitions.py`, `vm_factory.py`, `provider.py` | Pulumi's state | plan, sweep, create/replace/delete VMs, overlay callback | the order of these steps |

The three modules interact through PVE and through the order `__main__.py`
gives them: the plan is made and saved first, the sweep runs in the body of the
program and so before any resource is registered, creations follow, and the
overlay is installed by a callback once the VMs exist. Each is retried only by
running `pulumi up` again, from whatever the last one left behind.

### Configuration (`ansible`)

| Component | State it keeps | Hard behaviour |
|---|---|---|
| Control plane forming, `playbooks/kubecp.yml`, role `rke2_server` | config file, service, store of each node | serial forming, re-rendered configuration on each build |
| etcd heal, role `etcd_rejoin`, census `etcd_stability` | journal, marker, annotation, store, membership | several nodes healed at once; a kill between any two tasks; stale reads; bounded waits |
| Read-burst gate and Flux readiness, roles `readburst_gate`, `flux_ready`, `flux_unstall`; `cluster_init.yml` with `openbao_secrets`, `garage_init` | suspended and stalled releases; vault entries, S3 key, marker | resets racing the controller; discarded results of commands; spent budgets; killed builds; what the releases need is written by the build, after the first gate |
| OpenBao, roles `openbao_*`, `gitops_source`, the unsealer deployment | seal state; keys in the play, in `env.sh`, in the repository, in a Secret | keys that exist only in memory; shares of two vaults in one attempt; a lost volume |
| Storage relocation, roles `container_storage`, `data_volume` | configuration, daemons, old, new and set-aside roots | a copy that is cut; a daemon started between configuration and copy |
| One-time material and publishing, roles `garage_init`, `gitlab*`, `cilium_ipsec_keygen`, `artifact_*`, `rke2_publish`, `gitops_*` | generated secrets, published files | generated once, stored twice |
| Identity, roles `freeipa_server`, `ipa_*`, `keycloak_*` | directory and realm objects | look up, then create |
| Host roles | packages, files, services of one host | none: idempotent |

`site.yml` runs them in a fixed order: controller_bootstrap, repo01, core01,
gitlab, kubecp, kubewk, controller, cluster_services, gitops, etcd_rejoin,
readburst_gate, cluster_init, gitops, flux_ready. Any failure ends the run, and
the operator starts it, or one playbook of it, again.

### Verification (`verify`)

The tests read a live cluster. The fixtures of `conftest.py` provision FreeIPA
users through a shell channel, wait until Keycloak has forgotten what it imported
too early, hand the passwords to the tests, which log in through Keycloak
(`helpers.py`), and remove the users at the end of the session. Hard: two users are
shared by three fixtures that give them different passwords; Keycloak imports at any
moment; setup and teardown fail half-way or are killed.

`PROJECT.json` lists all components with their status, and under `hazards` every
place where an order of events that no test exercises can go wrong.

## 2. Plan

The order in which the parts were modelled: 1. `Placement`,
2. `EtcdRejoin`, 3. `PveCleanup`, 4. `SdnOverlay`,
5. `VaultKeys`, 6. `FluxGate`, 7. `ContainerRoots`, 8. `TestUsers`, 9. `VmHome`, the
abstract placement that `Placement` implements.

The proofs followed in the same order; every invariant and action property of a passing
run is stated by a theorem (section 6).

Left, most important first:

- The composition of planner, sweep and overlay in one `up`. The three share no
  variable but the VMs PVE lists, and each module already has the others' effect on
  those as actions of its own, so the composition adds states rather than behaviours.
- The roles that generate a value once and store it twice. They run on one host and
  look before they create; the two whose value is shown only once are modelled, in
  `VaultKeys` (unseal keys) and in `FluxGate` (the S3 key of Garage).

## 3. Modules and how they correspond to the code

Each component has a module with its state machine and properties, an `MC`
module with the values of its constants and a `Proofs` module that extends it;
`VmHome` is the abstract specification of one of them. The line-by-line correspondence
is `map` in `PROJECT.json`.

A definition whose comment starts with *Mutant of* is a broken variant of the
definition that follows it. No specification uses it: it stands for the bug
that a property is there to catch.

Models with failures count them in `budget`: an action that stands for a failure
spends one of its kind, and `Limit` gives the number per kind.

### Placement

`placement.py` and the part of `__main__.py` that applies the plan. The variables
fall into the checkout (`record`, `recordOk`, `overrides`, `selected`), PVE
(`online`, `where`, `warm`, `liveRam`, `liveDisk`) and the build (`pc`, `dry`,
`capRam`, `capDisk`, `occRam`, `occDisk`, `placements`, `todo`, `fresh`,
`choices`, `outcome`).

- VM keys and nodes are natural numbers, so that the planner's sorting is `<`.
- A build is a sequence of steps: `StartBuild` (read record and headroom), one
  `PlanOverride`, `PlanRecorded`, `PlanFresh` or `PlanRefused` per request,
  `PlanDone`, `SaveTruncate` and `SaveWrite` (`write_text` truncates first),
  `CreateVm` and `DestroyVm`, `FinishBuild`. `Interrupt` ends it anywhere.
- Pulumi replaces a VM by deleting it first: `DestroyVm` then `CreateVm`.
- The live headroom of a host (external) shrinks when a VM has touched its memory
  and thin disk (`WarmUp`), not when it is created.

### VmHome

What the placement promises, without capacities, files or builds: a VM is given a
home at most once, before it exists (`Settle`); it is created at its pin or else at
its home (`Create`); it goes when it is not wanted or its pin or home is elsewhere
(`Remove`). `Placement` instantiates it with `home <- record`, `pins <- overrides`,
`wanted <- selected`: the record *file* is the home, so a plan in memory is a stutter
and the second half of a save is the `Settle` step. The torn file of `SaveTruncate` is
not an empty record, since `StartUnreadable` refuses it; that is why a home survives it.

### EtcdRejoin

The form play of `kubecp.yml`, the settle play with `etcd_rejoin` and the census,
and `etcd_rejoin.yml` alone. `cp[n]` holds a node's service, etcd store,
membership, journal signature, `server:` line (`srv`), rejoin marker (`pin`),
removal annotation (`ann`) and removal marker (`marker`).

- Ansible's linear strategy: `At(h, t)` lets host `h` run task `t` only when every
  active host has got to `t` or further. One action per task that reads or
  changes state, in the order of `tasks/main.yml`.
- A bounded wait either sees its condition or is spent (`BudgetSpent`), which
  fails the host.
- RKE2 is external, as the roles describe it: a server with an empty store and no
  `server:` line takes the new-cluster path; with one it joins as a learner when the
  cluster has a quorum and no other learner; a removed member does not start; a joined
  node has its marker and annotation cleared; the leader removes annotated members and
  promotes learners. Beside an existing cluster the new-cluster path is modelled as a
  second cluster that runs (`"alone"`), where `etcd_rejoin/tasks/main.yml:276-281` and
  `config.yaml.j2:4-8` expect it to fail fatally: `NoSecondCluster` is about a start on
  that path, whichever of the two follows.
- Disturbances: a *strike* wedges the store of a node of a complete cluster and
  leaves the others their quorum; a *hiccup* logs the signature on a live node; a
  *misread* is a failed read of a voter's condition; a *fault* kills the run or
  spends a wait; a *reboot* is unplanned.

### PveCleanup

`clean_orphans` as preflight (`"up"`) and as command (`"cli"`), one action per
request, beside the `qmcreate` tasks that leave the orphans. `sweep[p]` is the
process's local state. A RuntimeError is caught by `__main__.py` and the `up` goes
on; any other exception ends the `up` (`KillUp`).

- PVE (external) allocates the cloud-init volume first, then the disk, then writes
  the config; it refuses to free a volume of a running VM; nodes outside
  `ApiDeletes` answer 501 to every content DELETE, as 9.2 does.
- `ApiSlow`: `wait_task` gives up after 60 polls and the task goes on (`deletes`).

### SdnOverlay

The callback of `__main__.py`: reload, discovery over all nodes, installation over
all nodes, in order; and the command, which does not reload. A node stands for its
underlay address, a file is a set of lines `<<address, peer>>`.

- The kernel (external): an append adds a destination to a multicast or broadcast
  address, leaves a bound unicast address as it is, and rejects an address that
  does not have six octets.
- `current` holds from the end of a build in which nothing failed or changed until
  the next failure or change. It is the only auxiliary state, with `clean`.

### VaultKeys

`openbao_init`, the two passes of `gitops.yml` around it, `cluster_init.yml` alone, and
the unsealer. An initialisation makes a generation of keys (1, 2, ...); a variable per
place holds the generation that is there: `held` (the play), `env` (`env.sh`), `proc`
(the environment ansible was started with), `git`, `mounted`.

- `Submit` (external) counts a share once, opens the vault when the shares of an attempt
  are all of its generation, and throws the attempt away when they are not, so that shares
  of role and unsealer, and of two generations, mix as they do in OpenBao.
- `SealedKeys` is the re-read of `env.sh` before each pass, with the stale environment as
  fall-back. A failed push leaves its commit in a clone that the next pass resets.
- The rest of `cluster_init` works only with a root token that fits (`Configure`).
- Faults: pod restart, lost data volume, failed push, lost answer of the
  initialisation, killed play, `cluster_init.yml` run on its own. `lost` marks the
  vaults whose keys went down with the play between initialisation and record.

### FluxGate

The gates of a site build over the HelmReleases. `api` stands for a complete control
plane (what restores it is `EtcdRejoin`); the sets `exists`, `suspended`, `ready`,
`stalled` are the conditions the commands read. A suspended release keeps its
conditions, so it may count as Ready.

- One loop serves the four polls (`phase`): release phase of the gate, `flux_unstall`
  with its confirmation, first and second survey. `Look` takes the snapshot, `ResetSuspend`
  and `ResetResume` are the two commands per stalled release: one release after the other
  in the surveys, all suspends before all resumes in `flux_unstall`.
- A command whose output goes to `/dev/null` may fail unnoticed; `clean` remembers it.
- Poll counts are abstracted: after a failed poll there is another one or the budget is
  spent. Ansible fails a task whose retries are spent whatever its `failed_when`
  says, so a spent first survey ends the build too.
- What a release needs is written by the build itself, in `cluster_init`, after the gate.
  `vault` has the entries written: those of the first pass of `openbao_secrets`
  (`"runtime"`), on which Garage starts, and the S3 entry (`"garage"`), which a pass
  writes only when it was given the keys. `store` follows Garage: its pod, the access key
  (`KeyCreate`, its secret is shown once), the record in `env.sh` (`KeyRecord`). `marker`
  is the ConfigMap without which Flux does not create the releases in `Gated` (`Mark`).
  `SecondPass` reads `env.sh` again and writes the S3 entry. `Supply` (external-secrets)
  makes a Secret of an entry only once it is there.
- `VaultUp`: `cluster_init` needs the vault's pod, which also runs when the release was
  declared stalled but its last install is in place.
- `cluster_init.yml` is not run on its own here: the model has only whole site builds.

### ContainerRoots

`container_storage` on one host. A directory is the set of items in it, or absent;
`using` is the root a daemon was started with, `config` the one it will use next. The
run is a record (`run`), one action per task, loops item by item.

- Daemons (external) write while they run, and create the root their configuration names
  when they start and it is missing: this is what turns an ordering mistake into data
  that is stranded.
- A failed task of the block goes on in its always section; a killed or rebooted run does
  not (`Kill`, `Reboot`).
- The units are stopped in one step, where the role loops over three of them. A cut
  inside that loop is not a step of its own; the sets of daemons it leaves running are
  those of `DaemonSurvives`.
- `cut` marks runs that died in the one state that the next run does not take up (see the
  property `BackUp`).

### TestUsers

The session fixtures, FreeIPA (`directory`), Keycloak's imports (`cache`), Grafana's
rows and pytest's own state. A password is a value that no
provisioning in sight has.

- A fixture is set up by one action per command: delete, add, passwd, each
  group, then the wait and the flush. Keycloak imports and forgets between any two.
- A login sees the import, else the directory. Each flow is a function from user and
  password to the report its test asserts on; a Grafana login also writes its row.
- Faults: a failing channel, a command that fails inside the container, spent settle
  retries, a failing flush, a service without its entry page, a killed session.
- `told` is what an operator sees of the documented `pytest verify/ -v`: errors, failed
  tests, a killed session. The warning that a finalizer prints is captured with the last
  test and shown only if that test failed (`RemoveWarn`). `hidden` has the users whose own
  removal failed.

## 4. Runs

All passing runs are exhaustive for their bounds.

| Run | Instance | Properties | Distinct states |
|---|---|---|---|
| `Placement_plan` | 3 VMs, 2 candidates, 1 further host, 1 edit, pins dropped, records lost | `TypeOK`, `FreshFits`, `Balanced` | 1 080 032 |
| `Placement_stable` | 2 VMs, 2 nodes, 2 edits, 1 host offline at a time | `RecordedWhereItIs`, `StaysPut`, `KeepsHomes` | 112 182 |
| `EtcdRejoin_heal` | 3 nodes, 2 strikes, 1 hiccup, 1 misread, 2 faults, then `etcd_rejoin.yml` repeated | `TypeOK`, `NoSecondCluster`, `WipeOnlyAfterRemoved`, `Healed` | 431 101 |
| `EtcdRejoin_quorum` | 3 nodes, 1 strike, 2 misreads, 2 faults, 1 reboot, both playbooks | `QuorumKept` | 352 342 |
| `PveCleanup_report` | 1 node, 1 VM, two dead creates, every other disturbance but a missing pexpect or password | `TypeOK`, `RemovedIsGone` | 4 382 369 |
| `PveCleanup_heal` | 2 nodes (one with 501), 2 VMs, 2 datastores, 1 fault, 2 dead creates, no pexpect, no password | `VmWhole`, `Built` | 1 244 524 |
| `SdnOverlay_durable` | 3 nodes, 2 VMs, any two of six disturbances | `TypeOK`, `Durable`, `Heals` | 789 372 |
| `VaultKeys_recover` | 5 shares, threshold 3, 3 in the repository, any 5 of six kinds of fault | `TypeOK`, `KeysKnown`, `Recoverable`, `Opens` | 287 636 |
| `FluxGate_release` | 3 releases: the vault, and 2 of the tier that wait for it and for the marker, one reading the S3 entry; any 2 of four kinds of fault | `TypeOK`, `NothingHeld`, `Converges` | 57 591 |
| `ContainerRoots_relocate` | both roots, 2 items, any 4 of five kinds of fault | `TypeOK`, `NothingGone`, `Relocated`, `BackUp` | 252 195 |
| `TestUsers_session` | 3 fixtures, 3 users, 7 tests, any 2 of six kinds of fault | `TypeOK`, `TiersSeen`, `OnlyFailedRemovals`, `CleansUp` | 1 976 053 |
| `EtcdRejoin_refirst` | 1 strike, 1 fault, both playbooks | `NoSecondCluster` violated | |

Why the bounds are enough to be interesting:

- Placement: footprints and capacities are chosen so that each VM fits on some
  node, no node holds all three, ties occur, and a node is full in RAM before it
  is full in disk and the other way round. `MaxEdits` bounds operator edits,
  `OfflineHosts` (a state constraint) the hosts that are down at once.
- EtcdRejoin: the estate has three control plane nodes. Two strikes heal two nodes
  at once; two faults kill a run, and then the run that repairs it.
- PveCleanup: two nodes because an orphan on one node must not stop the creation
  on the other, and a failed list of the first hides the second. Two dead creates: a
  second one is needed to see a disk come back after it was reported removed (section 6).
- SdnOverlay: three nodes are the least with which a VM moves from one remote node
  to another; `MaxMac` leaves one address for a recreated VM. `MaxKinds` bounds the
  mix of disturbances.
- VaultKeys: the shares and the threshold of the roles' defaults. Five faults are enough for two
  lost volumes, so for keys of three generations in four places, with a kill or a failed
  push between them.
- FluxGate: the two releases of the tier wait for the vault and the marker, as the
  observability releases do, so they appear in `cluster_init` of the first build and are
  there for the gate of the next; Loki reads the S3 entry, the Prometheus stack one of the
  first pass. Two faults: a build killed with the tier held, and a further failure in the
  build that has to repair it.
- ContainerRoots: two items tell a root that is whole from one that is half copied and one
  that is empty; four faults allow failures of the repair of a failed repair.
- TestUsers: the groups tell member, admin and denied tier apart; the denied users of
  two fixtures share a name; one settle retry instead of three.

Deadlock is checked in every run; no model may stop.

What the properties say:

- `FreshFits`: what a build charges to the node of a new VM is within the headroom
  read there. It needs the known VMs to be charged first.
- `Balanced`: when the last new VM of a node arrived, no other node had more free
  RAM, unless it lacked the disk.
- `RecordedWhereItIs`, `StaysPut`: the record names the node each VM is on, through
  torn writes and refusals, so that no build moves a VM without a pin.
- `WipeOnlyAfterRemoved`: no etcd store is wiped whose member is in the cluster.
- `NoSecondCluster`: no node starts on an empty store without a `server:` line
  while there is a cluster.
- `QuorumKept`: the automation never takes the last voter the quorum needs.
- `Healed`: every wedged node becomes a voter again, while the signature is only
  logged by wedged nodes.
- `RemovedIsGone`: a cloud-init volume, the one that blocks the next creation, is not in
  its datastore when the preflight logs it as removed; nor is a disk, unless an `up` was
  killed before.
- `VmWhole`: a listed VM has both its volumes.
- `Built`: a VM that is asked for in build after build exists in build after build.
- `Durable`, `Heals`: every node reaches every remote VM and all peers by broadcast:
  from one complete build on, and in the end after any failure.
- `KeepsHomes`: `Placement` implements `VmHome`.
- `KeysKnown`: keys of the vault are in `env.sh` or in the running play, but for the
  window in which nobody else can have them.
- `Recoverable`: after a complete build the repository and `env.sh` hold the keys of this
  vault, not of an earlier one.
- `Opens`: a vault whose keys were not lost is open in the end, without the operator.
- `NothingHeld`: a build that ends well leaves no release suspended, its own or one of an
  earlier build that died.
- `Converges`: builds end well, with every release Ready. The one exception (`Stranded`)
  is a marker that stays published while the S3 entry is missing, after a fault ended a
  build between the two, or between the key and its record. Without the exception the
  property is violated by one killed build (section 7).
- `NothingGone`: what a daemon wrote is in one of the three directories, always.
- `Relocated`: after a run that ended well the daemons work on the data volume with all
  they ever wrote, unless the old path still holds data that the new one lacks.
- `BackUp`: daemons and projects come back after any failure, with the one exception
  named by `cut`.
- `TiersSeen`: every test sees the tier its fixture declared.
- `OnlyFailedRemovals`: users that stay in FreeIPA after a session that showed no error are
  users whose own removal failed; nobody is left by a fixture given up half-way, by a
  failed removal of another user or by a later fixture that provisions the user again.
  That such a session leaves nobody is violated by two failed channels (section 7).
- `CleansUp`: later sessions remove what stayed.

## 5. Fairness

- EtcdRejoin: an operator repeats a failed run; the tasks of a run and its budgets
  come to an end; systemd restarts a failed server, but nothing depends on it; the
  leader, while it has a quorum, removes annotated members and promotes learners,
  which is what the role's waits rely on. Weak fairness of each is enough.
- PveCleanup: the operator repeats the `up`; requests have timeouts and end; PVE's
  create tasks end. Nothing is assumed of the delete tasks that outlast the polls.
- SdnOverlay: the operator repeats the `up`, and a callback that started ends.
- VaultKeys: the pod is restarted by Kubernetes, Flux reconciles at an interval, the
  unsealer loops for ever, a play goes on until it ends, the operator builds again.
- FluxGate: builds go on and are repeated. Strong fairness where a release is only
  intermittently free: Flux creates and reconciles a release that is again and again
  possible, since the windows between a resume and the next suspend are minutes
  (`delay`, `--timeout`) and reconciliation is triggered by the resume itself; and
  retries are finite, so a poll that fails again and again is spent in the end.
  `Supply` and `StoreStarts` are fair only for an entry that is in the vault:
  external-secrets refreshes every hour and Kubernetes restarts the waiting pod. Nothing
  but the steps of a build puts an entry there.
- ContainerRoots: runs end, and the host is built again. Nothing is assumed of writes.
- TestUsers: pytest goes on while it is not killed, and the suite is run again. Nothing
  is assumed of Keycloak.

Failures are bounded by their budgets, so that every liveness property is about
what happens once failures stop.

## 6. Proofs

`PlacementProofs`, for all sets of VMs, hosts and candidates, all footprints and
capacities (assumption `ConstantsAssumption`: they are natural numbers, there is a
candidate):

- `TypeCorrect`: `TypeOK`.
- `PlanInvariant`: `PlanInv`, from which `FreshPicksFit` (`FreshFits`) and
  `BurstsSpread` (`Balanced`) follow. Neither is inductive: `LoopInv` adds that
  requests not reached have no choice yet, and that once a fresh request has been
  planned only fresh ones with larger keys are left. A pinned or recorded VM may overload
  a node, but only before the first fresh one is placed; a fresh one is placed only
  where it fits; so charges to the node of a fresh pick stay within its headroom.
  Free RAM only shrinks during a plan, which is why the balance at the time of the
  last pick persists.
- `RecordIsTrue` (`RecordedWhereItIs`) and `NeverReplaced` (`StaysPut`), assuming
  that pins are not dropped and the file is not lost (`~MayUnpin`,
  `~MayLoseRecord`). Both are needed (section 7).
  `StableInv` adds `BuildInv`: during a build the record in memory extends the file
  by new VMs only, a planned request has the node its pin or record entry names,
  and VMs are touched only once the file holds all of it.
- `ImplementsVmHome` (`KeepsHomes`), under the same two assumptions: the initial states
  map to those of `VmHome`, and with `StableInv` every step maps to a step or a stutter
  (`StepsToHomes`). Only `SaveWrite` changes a home: `SaveSettles` shows that it does so
  for new, wanted, unpinned VMs that do not exist, for which `BuildInv` says that `fresh`
  VMs are selected and unpinned. `AppliesHomes` is the part about `CreateVm` and
  `DestroyVm`: the planned node is the pin or the recorded home.

`EtcdRejoinProofs`, for any number of nodes and any limits on the disturbances:

- `TypeCorrect`: `TypeOK`, without any restriction.
- `WipeIsSafe`: `WipeOnlyAfterRemoved`, without unplanned reboots (`Limit["reboot"] =
  0`). The inductive invariant `WipeInv` says that a node with a removal marker is out
  of the cluster (`MarkedIsOut`), and that a node between its stop and its reboot is
  down, with the marker from the wipe on (`HealedNodesDown`): only a start can make it a
  member again between the check of the marker and the wipe. An unplanned reboot in that
  window could, which is why reboots are excluded.
- `OneCluster`: `NoSecondCluster`, without unplanned reboots, with `kubecp.yml` repeated
  only until every node has joined (repeating it later is the violation of section 7), and
  when no live node logs the signature (`Limit["hiccup"] = 0`), or no voter read fails
  (`Limit["misread"] = 0`), or there are at most three nodes, as in the estate. The run's
  instance is one of these. On four nodes TLC finds the exception: a build is killed
  before the fourth node, `etcd_rejoin.yml` then meets a signature and a failed read on
  the bootstrap host, removes and wipes it and is killed, and the next build founds a
  second cluster. On three nodes the two voters formed by
  then have no quorum without the bootstrap host, and its annotation needs one
  (`BootNeeded`). `SecondInv` adds to `WipeInv` that an empty store is no member's, and
  has its `server:` line unless the node is stopped (`JoinersJoin`); that the bootstrap
  host is in trouble only once every node has been formed, and has an empty store and no
  removal marker only before there is a cluster (`Boot`); that a host in the heal has
  its line before its reboot and start, and how far the role gets on the bootstrap host
  before the build is complete (`TaskOrder`, `Suspected`).
- `QuorumStays`: `QuorumKept`, with any failed reads, killed runs, unplanned reboots and
  repeated playbooks, when fewer than half of the nodes can be struck (`2 *
  Limit["strike"] < Cardinality(CPs)`), only struck nodes log the signature
  (`Limit["hiccup"] = 0`), and the bootstrap host is first in the play, as `kubecp01` is
  in the inventory. The first two are needed: with two strikes on three nodes TLC finds
  the quorum lost, and likewise with a hiccup. `QuorumInv` says there is a set `T` of
  nodes, as many as strikes were spent, such that the nodes outside it are sound members,
  or fresh as long as `T` is empty (`OthersSound`); the role reads no signature on them
  and leaves them alone (`OthersLeftAlone`); and the voters outside `T` outnumber those in
  it (`MajoritySound`), hence have the quorum (`SoundQuorum`). The majority is not
  inductive alone: a healed node of `T` could be promoted while one outside is still a
  learner. `LearnersInTurn` excludes it: a node of `T` has its store back only when no
  node outside waits, since etcd admits one learner at a time, and then all of them vote.
  A strike in that situation is the one case that uses the quorum the strike itself
  leaves (`NewlyStruck`).

`PveCleanupProofs`, for any nodes, VMIDs, datastores and limits:

- `TypeCorrect`: `TypeOK`.
- `RemovedVolumesGone`: `RemovedIsGone`. `CleanInv` follows a volume from the list to
  the report: each orphan of the preflight is still to be deleted, recorded as an error,
  or gone (`Removing`). It stays gone because, while no `up` was killed, only the `up`
  that waits for them has creations in flight (`NoStray`) and what the preflight listed
  is still so (`Listed`); and because a creation, even one that a killed `up` left,
  allocates its cloud-init volume only at its start. The attempt to prove the earlier
  statement, in which every volume reported as removed was gone unless a creation was
  running, failed for a good reason: a creation left by a killed `up` can import its
  disk again after the delete and die before the report. The bound of one dead create
  had hidden this; the property now makes the exception explicit, and the run has two.
- `VmsStayWhole`: `VmWhole`, when no `up` is killed, the command is not run beside it
  (`Limit["kill"] = Limit["cli"] = 0`) and no delete outlasts its polls: `Limit["slow"]
  = 0`, or no node deletes through the API, as with PVE 9.2. Each of the three has a
  violation (section 7). `WholeInv` adds to `CleanInv` that a creation has the volumes
  its task has allocated (`Allocated`) and that no delete task is under way; `NoStray`
  and `Listed` then say that no orphan on a sweep's list is a creation's or a VM's.

`SdnOverlayProofs`, for any nodes, VMs, MACs and limits:

- `TypeCorrect`: `TypeOK`.
- `OverlayIsDurable`: `Durable`. The difficulty is that tables and files keep lines of
  VMs that are gone, and that the kernel does not rebind a bound MAC. While no VM was
  migrated there is a function from MACs to nodes such that everything any node ever
  holds, in its file, its table, a discovery or a VM's config, agrees with it
  (`OneSite`); so an old line can be superfluous but never wrong. `Known` says that a
  MAC not handed out yet is mentioned nowhere, so that a new VM fits in. `Scanned` and
  `Progress` say what discovery and installation have achieved while the build is
  `clean`: a node that is done reaches all, and its file and hook restore that from an
  empty table.

`VaultKeysProofs`, for any number of shares, any threshold and any number of faults:

- `TypeCorrect`: `TypeOK`.
- `KeysAreKnown` (`KeysKnown`) and `VaultRecovers` (`Recoverable`). `VaultInv` adds that
  generations are numbered by initialisations (`Numbered`); that before the record the
  play holds the newest keys, younger than any vault a build ended well on, and that the
  pass after it finds the keys of this vault in `env.sh` (`PlayKnows`); that keys which
  are not lost are in `env.sh`, or in the play that is about to record them
  (`Recorded`); and which share the role submits next (`ShareInv`).

`FluxGateProofs`, for any releases, tier, dependencies, vault entries and number of
faults:

- `TypeCorrect`: `TypeOK`.
- `NothingStaysHeld`: `NothingHeld`. What a killed build left suspended is in the tier
  or stalled (`HeldOrStalled`); once the tier has been resumed by a build that lost no
  command, only stalled releases are suspended (`Released`), and those the surveys
  reset; a survey that passes saw none (`LastSurvey`).

`ContainerRootsProofs`, for any roots and items and any number of faults:

- `TypeCorrect`: `TypeOK`.
- `NothingIsLost` (`NothingGone`) and `RelocationDone` (`Relocated`). `RootsInv` has a
  part about the host, true at any moment, and one about the run. The host: a set-aside
  copy is contained in the new root (`AsideKept`), so that removing it loses nothing; a
  new root exists only where the configuration names it, and beside no daemon on the old
  one (`OneRoot`), so that nothing is written to the old root after its copy; daemons
  run all or none unless there is something to relocate (`AllOrNone`). The run:
  `Configured`, `Selected`, `Copying`, `SettingAside`, `Started`, one per stage of the
  role.

`TestUsersProofs`, for any users, groups, fixtures and tests and any number of faults.
The assumptions of the module are those of `conftest.py` and pytest: a fixture lists
each user once, a test logs in as a user of its fixture, and the tests of a fixture are
neighbours (`TogetherAssumption`). `PasswordsAssumption` says that there are more
passwords than places to keep one:

- `TypeCorrect`: `TypeOK`. It rests on `PasswordLeft`, a counting argument: there is a
  password that nothing in sight has.
- `TestsSeeTheirTier`: `TiersSeen`. `TierInv` says that the users before the current one
  are fully provisioned and the current one lacks the groups still to be added
  (`Provisioned`); that while a fixture is set up no test to come asks for an earlier
  one (`Asked`, from the order of the tests), which is what makes it harmless that it
  changes their passwords; and that the users of a fixture still in use are as
  provisioned, in FreeIPA and in Keycloak's imports (`Ready`).
- `NobodyIsForgotten`: `OnlyFailedRemovals`. `ToldInv` says that a session that has shown
  nothing will still come to every user that is there and whose removal has not failed
  (`Owed`): its fixture is asked for by a
  test to come, is set up, or is being torn down and the user not reached yet. A new
  session owes the removal of whatever earlier ones left, because a user in FreeIPA
  belongs to a fixture that some test uses (`OfTests`).

The strengthened invariants were checked by TLC on small instances before they
were proved. The step lemmas follow the actions: one case per action, in it one step per
conjunct the action can disturb.

Model-checked only:

- liveness (`Healed`, `Built`, `Heals`, `Opens`, `Converges`, `BackUp`, `CleansUp`),
  which is beyond the prover.

## 7. Disagreements between code and documentation

The run `EtcdRejoin_refirst` shows one: a killed heal of the bootstrap host followed by
`kubecp.yml` starts that host on the new-cluster path. The sentence it contradicts is in
`findings` of `PROJECT.json`.

Seen while modelling, without a run of their own. The first six are violations of a
checked property, stated without an exception or under a wider instance, given in
parentheses:

- `garage_init/tasks/main.yml:158`: the marker is published before the second pass of
  `openbao_secrets` (`cluster_init.yml:232`) writes the S3 entry. A build killed in between
  leaves Loki without its Secret, stalled; every later `site.yml` fails in the read-burst
  gate, which comes before `cluster_init`, so the entry is never written, although
  `maintenance.rst:83` calls every playbook safe to re-run and `ansible-design.rst:144`
  relies on it. A kill between the creation of the key (line 95) and its record has the
  same end, and there `cluster_init.yml` alone does not help either: the secret is shown
  once, so the key has to be deleted in Garage first (one kill: `Converges` without
  `Stranded`).
- `conftest.py:45-46` says of a hung channel that "it must be visible"; the warning is
  printed by the finalizer of a session fixture, and `pytest verify/ -v`
  (`verify-suite.rst:142`) shows captured output only with a failed test, so a session
  that passes leaves users without a word (two failed channels, since two fixtures remove
  the same user:
  `OnlyFailedRemovals` with `hidden = {}`).
- `placement.py:235`: a VM created under a pin has no record entry, so once the pin is
  dropped, as `Pulumi.dev.yaml.example:66` invites, it is planned anew and destroyed;
  `placement.py:15-18` promises that this never happens (`MayUnpin = TRUE`: `StaysPut`).
- `etcd_rejoin/tasks/main.yml:60`: a failed voter read counts as not a voter, so with an
  old signature in the journal a healthy voter is stopped, although the role calls itself a
  no-op on a healthy node (a hiccup and a misread: `QuorumKept`).
- `pve_cleanup.py:255`: `wait_task` polls 60 times without a pause and gives up; the delete
  goes on, and removes the volume of a VM created since (a slow delete: `VmWhole`).
- `sdn_fdb.py:243`: the reload replays the old file and the append does not rebind the MAC
  of a migrated VM, so one complete build is not enough (`Durable` without its condition
  on migrations).
- `placement.py:75`: the record is called committed, but `.gitignore:15` excludes
  it, and an absent file is an empty record: a build from another checkout plans
  unpinned VMs anew (`MayLoseRecord = TRUE` violates `StaysPut`).
- `placement.py:247`: the footprint of a recorded VM is added to the occupancy of a
  node whose live headroom is already without it, so a build may be refused
  although there is room.
- `placement.py:314`: one unreachable candidate ends the plan, although line 11
  speaks of online nodes.
- `rke2_server/tasks/service.yml:15`: re-running `kubecp.yml` after a wedge stops in
  the form play, before the heal of its settle play; `etcd_rejoin.yml` is the
  playbook to repeat.
- `etcd_rejoin/tasks/main.yml:81`: a learner promoted after the voter read is stopped
  as a voter.
- `pve_cleanup.py:267`: the command run beside an `up`, or an `up` after a killed one,
  takes the volume of a creation in flight for an orphan (budgets `cli` and `kill`
  violate `VmWhole`).
- `__main__.py:291`: a creation that a killed `up` left may import its disk again after the
  next preflight removed it, which is then still reported as removed (the exception in
  `RemovedIsGone`).
- `pve_cleanup.py:276`: a content entry with a VMID is taken whatever its name, so a
  backup of a VM that is gone is swept.
- `sdn_fdb.py:70`: the multicast address has five octets, so its entry is never added.
- `sdn_fdb.py:189`: after a failed VM list, the other nodes' files are rewritten without
  that node's VMs; the message says it is skipped.
- `sdn_fdb.py:299`: the tests of the verification are joined with spaces, so only the
  first MAC is looked up.
- `flux_ready/tasks/main.yml:8-11` says that a build only completes when every release is
  Ready; the survey counts those that exist, so a release not created yet is not missed.
- `flux_ready/tasks/main.yml:26-30` and `playbooks/flux_ready.yml:16-20` call the first
  survey non-fatal; Ansible fails a task whose `until` retries are spent, whatever
  `failed_when` says.
- `readburst_gate/tasks/main.yml:46`, `:143`, `:173` and `flux_ready/tasks/main.yml:74`:
  results of suspend and resume are discarded, and a suspended release may be Ready, so a
  lost resume can end in a passing build with the release still suspended. This is
  why `NothingHeld` has the condition `clean`.
- `readburst_gate/tasks/main.yml:64`: a release that is created after the hold is not held.
- `FluxGate` takes it that the last failed install stays in place. If it were uninstalled,
  a stalled vault would keep `cluster_init` waiting before anything resets it, although
  `site.yml:59-60` says that no manual `flux_unstall` run is ever required.
- `openbao_init/tasks/main.yml:88`: a play that dies between the initialisation and the
  record loses the keys of a vault that is then initialised for good.
- `migrate.yml:121`: a cut `rsync` leaves a destination, so the next run sees nothing
  to relocate and starts the daemons on half a root; the rest stays at the old path.
- `migrate.yml:82`, `:101`: `docker compose stop` with the daemons down (a killed run left
  them so), or a surviving daemon, fails the block, and the always section starts the
  daemons on an empty new root, which later runs take as relocated. The same happens on
  a reboot between the configuration and the check for the destination.
- `migrate.yml:150`: a run that is killed after the copy leaves the projects down, and
  later runs, with nothing to relocate, do not bring them up.
- `conftest.py:57-59`, `:90-93`: the fixtures say that they provision exactly one user; they
  provision all three again, which invalidates the passwords of `test_users`. The tests do
  not notice because pytest runs each file's tests together.
- `conftest.py:20-21`, `:39-40`: users are said to be removed also after a setup that
  failed half-way; the provisioning is outside the `try`.
- `helpers.py:763`: `|| true` hides deletions that fail inside the container: the other
  kind of failed removal that `OnlyFailedRemovals` admits.
- `object-storage.rst:53` and `troubleshooting.rst:195` say that the S3 entry is always a
  run late; the second pass (`cluster_init.yml:196-274`) writes it in the same run.

## 8. What is not modelled

- Headroom arithmetic inside PVE, HTTP and SSH transport, ticket contents, log lines.
- Manifests written by `rke2_server` (kube-vip, ingress, Cilium), the kubeconfig, and
  the wait for the API through the virtual address: files and reads of one host.
- The declarative parts: VM arguments, zone and VNet resources, GitOps manifests.
- Idempotent host roles, playbooks that only import or assert, the bootstrap script.
- One `pulumi up` as a composition of planner, sweep and overlay (section 2).
- `data_volume`, and the roles that generate material once, but for the unseal keys and
  the S3 key: idempotent steps of one host.
- Tests that read the cluster without changing it; the Keycloak pages and their forms,
  beyond how many of them a login answers.
- The number of polls, and time: a bounded wait either sees its condition or is spent.
